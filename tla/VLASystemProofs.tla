-------------------------- MODULE VLASystemProofs --------------------------
(***************************************************************************)
(* Theorems about EdgeNode for every set of goals, any thresholds, and any *)
(* number of observations and of reconfigurations; then about the whole    *)
(* system, for every depth of its topic: the edge node in it behaves as    *)
(* the edge node does alone, and what is proved about it holds there too.  *)
(***************************************************************************)
EXTENDS VLASystem, TLAPS


(* Lemmas about the operators *)

LEMMA PutLemma ==
  ASSUME NEW c \in Cache, NEW e \in Embedding
  PROVE  /\ Put(c, e) \in Cache
         /\ Put(c, e).floor = c.floor
         /\ \/ Put(c, e).latest = e /\ e.frame > c.floor
            \/ Put(c, e).latest = c.latest
         /\ c.latest # NoEmbedding => Put(c, e).latest # NoEmbedding
BY BoundAssumption DEF Cache, Embedding, Frame, Put, Accepts, NoEmbedding, NoFloor

LEMMA OlderLemma ==
  ASSUME NEW e \in Embedding \cup {NoEmbedding}
  PROVE  /\ Older(e) \in Embedding \cup {NoEmbedding}
         /\ e = NoEmbedding <=> Older(e) = NoEmbedding
         /\ e # NoEmbedding => Older(e).frame = e.frame /\ Older(e).goal = e.goal
BY ThresholdAssumption, BoundAssumption DEF Embedding, Frame, Older, NoEmbedding

LEMMA InitialLemma == EmptyCache \in Cache /\ NewChannel \in Channel
BY DEF EmptyCache, NewChannel, Cache, Channel, Phase

\* Operations on a channel keep it well formed; none adds to what is pending,
\* none brings a reply, and only start() gives life to a thread.
LEMMA QuietLemma ==
  ASSUME NEW ch \in Channel
  PROVE  /\ \A op \in {StopRequested(ch), Exited(ch), HandedOver(ch), Started(ch)} :
              /\ op \in Channel
              /\ op.pending \subseteq ch.pending
              /\ op.inHand \in {ch.inHand, NoReply}
         /\ Alive(StopRequested(ch)) <=> Alive(ch)
         /\ Alive(HandedOver(ch)) => Alive(ch)
         /\ HandedOver(ch).inHand = NoReply
         /\ ~Alive(Exited(ch))
BY DEF Channel, Phase, StopRequested, Exited, HandedOver, Started, NoReply, Alive

LEMMA KilledLemma ==
  ASSUME NEW ch \in Channel
  PROVE  Killed(ch) \in Channel /\ ~Alive(Killed(ch)) /\ Killed(ch).inHand = NoReply
BY DEF Channel, Phase, Killed, Exited, NoReply, Alive

-----------------------------------------------------------------------------
(* Type correctness *)

\* A configured node holds a client, so that no callback meets None.
Configured ==
  /\ lc \in {"inactive", "active"} => cur # 0
  /\ cb = "cleanup" => lc = "inactive"
  /\ cb = "goal" => cur # 0
  /\ cur = 0 => cache = EmptyCache

THEOREM TypeCorrect == Spec => [](TypeOK /\ Configured)
<1>1. Init => TypeOK /\ Configured
  <2> SUFFICES ASSUME Init PROVE TypeOK /\ Configured
    OBVIOUS
  <2>1. cache \in Cache /\ chan \in [Client -> Channel]
    BY InitialLemma DEF Init
  <2>2. TypeOK
    <3>1. /\ lc \in {"unconfigured", "inactive", "active", "finalized"}
          /\ cb \in {"idle", "goal", "action", "gone"} \cup Transition
      BY DEF Init
    <3>2. subs \in SUBSET Subscription /\ timers \in SUBSET Timer /\ raised \in BOOLEAN
          /\ image \in BOOLEAN
      BY DEF Init
    <3>3. goal \in Goal \cup {NoGoal} /\ path \in Goal \cup {StopPath}
      BY DEF Init
    <3>4. made \in 0 .. MaxClients /\ cur \in 0 .. made /\ frameCounter \in 0 .. MaxFrame
      BY BoundAssumption DEF Init
    <3> QED
      BY <2>1, <3>1, <3>2, <3>3, <3>4 DEF TypeOK
  <2>3. Configured
    BY DEF Init, Configured
  <2> QED
    BY <2>2, <2>3
<1>2. TypeOK /\ Configured /\ [Next]_vars => TypeOK' /\ Configured'
  <2> SUFFICES ASSUME TypeOK, Configured, [Next]_vars PROVE TypeOK' /\ Configured'
    OBVIOUS
  <2> USE BoundAssumption
  <2>0. /\ cache \in Cache
        /\ \A c \in Client : chan[c] \in Channel
        /\ cur # 0 => cur \in Client
    BY DEF TypeOK, Client
  <2>1. CASE Configure
    <3>1. TypeOK'
      <4>1. subs' \in SUBSET Subscription
        BY <2>1 DEF TypeOK, Configure, Subscription
      <4>2. made' \in 0 .. MaxClients /\ cur' \in 0 .. made'
        BY <2>1 DEF TypeOK, Configure
      <4> QED
        BY <2>1, <4>1, <4>2, InitialLemma DEF TypeOK, Configure, inputs
    <3>2. Configured'
      BY <2>1 DEF TypeOK, Configured, Configure
    <3> QED
      BY <3>1, <3>2
  <2>2. CASE Activate
    <3>1. Started(chan[cur]) \in Channel /\ cur \in Client
      BY <2>0, <2>2, QuietLemma DEF Activate, Configured
    <3>2. timers' \in SUBSET Timer
      BY <2>2 DEF TypeOK, Activate, Timer
    <3> QED
      BY <2>2, <3>1, <3>2 DEF TypeOK, Configured, Activate, OnChannel, inputs
  <2>3. CASE Deactivate
    BY <2>3 DEF TypeOK, Configured, Deactivate, inputs, remote
  <2>4. CASE BeginTransition
    <3>1. cur # 0 => StopRequested(chan[cur]) \in Channel /\ cur \in Client
      BY <2>0, QuietLemma
    <3>2. chan' \in [Client -> Channel] /\ made' = made /\ cur' = cur
      BY <2>4, <3>1 DEF TypeOK, BeginTransition, StopClient, OnChannel, remote
    <3> QED
      BY <2>4, <3>2 DEF TypeOK, Configured, BeginTransition, Transition, held, inputs
  <2>5. CASE FinishCleanup
    <3>1. TypeOK'
      <4>1. subs' \in SUBSET Subscription
        BY <2>5 DEF TypeOK, FinishCleanup
      <4>2. cur' \in 0 .. made'
        BY <2>5 DEF TypeOK, FinishCleanup
      <4> QED
        BY <2>5, <4>1, <4>2, InitialLemma DEF TypeOK, FinishCleanup, inputs
    <3>2. Configured'
      BY <2>5 DEF Configured, FinishCleanup
    <3> QED
      BY <3>1, <3>2
  <2>6. CASE FinishShutdown
    BY <2>6 DEF TypeOK, Configured, FinishShutdown, held, inputs, remote
  <2>7. CASE Image
    BY <2>7 DEF TypeOK, Configured, Image, lifecycle, held, remote
  <2>8. CASE GoalArrives
    BY <2>8 DEF TypeOK, Configured, GoalArrives, held, remote
  <2>9. CASE GoalInvalidates
    <3>1. cache' \in Cache
      BY <2>9 DEF TypeOK, GoalInvalidates, InvalidateTo, Cache
    <3> QED
      BY <2>9, <3>1 DEF TypeOK, Configured, GoalInvalidates, held, inputs, remote
  <2>10. CASE SendTick
    <3>1. frameCounter' \in Frame
      BY <2>10 DEF TypeOK, SendTick, Frame
    <3>2. Sent(chan[cur], [frame |-> frameCounter', goal |-> goal]) \in Channel
      BY <2>0, <2>10, <3>1 DEF SendTick, Sent, Channel, Observation
    <3>3. chan' \in [Client -> Channel] /\ made' = made /\ cur' = cur
      BY <2>10, <3>2 DEF TypeOK, SendTick, OnChannel, remote
    <3> QED
      BY <2>10, <3>1, <3>3 DEF TypeOK, Configured, SendTick, Frame, lifecycle, held
  <2>11. CASE ActionBegins
    BY <2>11 DEF TypeOK, Configured, ActionBegins, held, inputs, remote
  <2>12. CASE ActionStops
    BY <2>12 DEF TypeOK, Configured, ActionStops, lifecycle, held, inputs, remote
  <2>13. CASE ActionPublishes
    <3>1. cache.latest # NoEmbedding => cache.latest.goal \in Goal
      BY <2>0, GoalAssumption DEF Cache, Embedding
    <3> QED
      BY <2>13, <3>1 DEF TypeOK, Configured, ActionPublishes, held, inputs, remote
  <2>14. ASSUME NEW c \in Client, TakeReply(c) PROVE TypeOK' /\ Configured'
    <3>1. PICK obs \in chan[c].pending :
            LET ch == Received(chan[c], obs, ReplyTo(obs)) IN
              OnChannel(c, IF cur = 0 THEN HandedOver(ch) ELSE ch)
      BY <2>14 DEF TakeReply
    <3> DEFINE ch == Received(chan[c], obs, ReplyTo(obs))
    <3>2. obs \in Observation /\ ReplyTo(obs) \in Embedding
      BY <2>0, <3>1, ThresholdAssumption DEF Channel, Observation, Embedding, ReplyTo
    <3>3. ch \in Channel
      BY <2>0, <3>2 DEF Channel, Received, After
    <3>4. HandedOver(ch) \in Channel
      BY <3>3, QuietLemma
    <3>5. chan' \in [Client -> Channel] /\ made' = made /\ cur' = cur
      BY <3>1, <3>3, <3>4 DEF TypeOK, OnChannel
    <3> QED
      BY <2>14, <3>5 DEF TypeOK, Configured, TakeReply, lifecycle, held, inputs
  <2>15. ASSUME NEW c \in Client, PutReply(c) PROVE TypeOK' /\ Configured'
    <3>1. chan[c].inHand \in Embedding
      BY <2>0, <2>15 DEF PutReply, Channel
    <3>2. cache' \in Cache /\ (cur = 0 => cache' = cache)
      BY <2>0, <2>15, <3>1, PutLemma DEF PutReply
    <3>3. HandedOver(chan[c]) \in Channel
      BY <2>0, QuietLemma
    <3> QED
      BY <2>15, <3>2, <3>3 DEF TypeOK, Configured, PutReply, OnChannel, lifecycle, held, inputs
  <2>16. ASSUME NEW c \in Client, LoseSome(c) PROVE TypeOK' /\ Configured'
    <3>1. PICK S \in SUBSET chan[c].pending : OnChannel(c, Kept(chan[c], S))
      BY <2>16 DEF LoseSome
    <3>2. Kept(chan[c], S) \in Channel
      BY <2>0, <3>1 DEF Channel, Kept
    <3> QED
      BY <2>16, <3>1, <3>2 DEF TypeOK, Configured, LoseSome, OnChannel, lifecycle, held, inputs
  <2>17. ASSUME NEW c \in Client, ThreadExits(c) PROVE TypeOK' /\ Configured'
    <3>1. Exited(chan[c]) \in Channel
      BY <2>0, QuietLemma
    <3> QED
      BY <2>17, <3>1 DEF TypeOK, Configured, ThreadExits, OnChannel, lifecycle, held, inputs
  <2>18. CASE Tick
    <3>1. cache' \in Cache /\ (cache = EmptyCache => cache' = EmptyCache)
      BY <2>0, <2>18, OlderLemma DEF Tick, Aged, Cache, EmptyCache
    <3>2. \A c \in Client : [chan[c] EXCEPT !.inHand = Older(@)] \in Channel
      BY <2>0, OlderLemma DEF Channel, NoReply, NoEmbedding
    <3> QED
      BY <2>18, <3>1, <3>2 DEF TypeOK, Configured, Tick, lifecycle, held, inputs
  <2>19. CASE ActivateFails
    <3>1. Started(chan[cur]) \in Channel /\ cur \in Client
      BY <2>0, <2>19, QuietLemma DEF ActivateFails, Configured
    <3>2. timers' \in SUBSET Timer
      BY <2>19 DEF TypeOK, ActivateFails, Timer
    <3> QED
      BY <2>19, <3>1, <3>2 DEF TypeOK, Configured, ActivateFails, OnChannel, inputs
  <2>20. CASE ProcessEnds
    <3>1. \A c \in Client : Killed(chan[c]) \in Channel
      BY <2>0, KilledLemma
    <3>2. chan' \in [Client -> Channel]
      BY <2>0, <2>20, <3>1 DEF ProcessEnds
    <3>3. /\ lc' = "finalized" /\ cb' = "gone"
          /\ subs' = {} /\ timers' = {} /\ raised' = raised /\ image' = FALSE
          /\ goal' = NoGoal /\ frameCounter' = 0
          /\ cur' = 0 /\ cache' = EmptyCache /\ made' = made /\ path' = path
      BY <2>20 DEF ProcessEnds
    <3>4. cache' \in Cache
      BY <3>3, InitialLemma
    <3>5. frameCounter' \in 0 .. MaxFrame /\ made' \in 0 .. MaxClients /\ cur' \in 0 .. made'
      BY <3>3 DEF TypeOK
    <3>6. TypeOK'
      BY <3>2, <3>3, <3>4, <3>5 DEF TypeOK
    <3>7. Configured'
      BY <3>3 DEF Configured
    <3> QED
      BY <3>6, <3>7
  <2>21. CASE UNCHANGED vars
    BY <2>21 DEF TypeOK, Configured, vars, lifecycle, held, inputs, remote
  <2> QED
    BY <2>1, <2>2, <2>3, <2>4, <2>5, <2>6, <2>7, <2>8, <2>9, <2>10, <2>11, <2>12,
       <2>13, <2>14, <2>15, <2>16, <2>17, <2>18, <2>19, <2>20, <2>21 DEF Next, Silent, Publish
<1> QED
  BY <1>1, <1>2, PTL DEF Spec

-----------------------------------------------------------------------------
(* The embedding is there throughout an action tick *)

\* Only callbacks drop the embedding, and no callback runs inside another.
THEOREM EmbeddingStays == Spec => []EmbeddingPresentMidTick
<1>1. Init => EmbeddingPresentMidTick
  BY DEF Init, EmbeddingPresentMidTick
<1>2. TypeOK /\ EmbeddingPresentMidTick /\ [Next]_vars => EmbeddingPresentMidTick'
  <2> SUFFICES ASSUME TypeOK, EmbeddingPresentMidTick, [Next]_vars, cb' = "action"
               PROVE  cache'.latest # NoEmbedding
    BY DEF EmbeddingPresentMidTick
  <2>0. cache \in Cache /\ \A c \in Client : chan[c] \in Channel
    BY DEF TypeOK
  <2>1. CASE ActionBegins
    BY <2>1 DEF ActionBegins, Usable, Status
  <2>2. ASSUME NEW c \in Client, PutReply(c) PROVE cache'.latest # NoEmbedding
    <3>1. chan[c].inHand \in Embedding
      BY <2>0, <2>2 DEF PutReply, Channel
    <3>2. cache.latest # NoEmbedding
      BY <2>2 DEF PutReply, lifecycle, held, EmbeddingPresentMidTick
    <3> QED
      BY <2>0, <2>2, <3>1, <3>2, PutLemma DEF PutReply
  <2>3. CASE Tick
    <3>1. cache.latest # NoEmbedding /\ cache.latest \in Embedding \cup {NoEmbedding}
      BY <2>0, <2>3 DEF Tick, lifecycle, held, EmbeddingPresentMidTick, Cache
    <3>2. cache'.latest = Older(cache.latest)
      BY <2>0, <2>3 DEF Tick, Aged, Cache
    <3> QED
      BY <3>1, <3>2, OlderLemma
  <2>4. CASE Configure \/ Activate \/ ActivateFails \/ Deactivate \/ BeginTransition
             \/ FinishCleanup \/ FinishShutdown \/ ProcessEnds \/ Image \/ GoalArrives \/ GoalInvalidates \/ SendTick
             \/ ActionStops \/ ActionPublishes
    BY <2>4 DEF Configure, Activate, ActivateFails, Deactivate, BeginTransition, FinishCleanup,
       FinishShutdown, ProcessEnds, Image, GoalArrives, GoalInvalidates, SendTick, ActionStops,
       ActionPublishes, lifecycle, held
  <2>5. ASSUME NEW c \in Client, TakeReply(c) \/ LoseSome(c) \/ ThreadExits(c)
        PROVE  cache'.latest # NoEmbedding
    BY <2>5 DEF TakeReply, LoseSome, ThreadExits, lifecycle, held, EmbeddingPresentMidTick
  <2>6. CASE UNCHANGED vars
    BY <2>6 DEF vars, lifecycle, held, EmbeddingPresentMidTick
  <2> QED
    BY <2>1, <2>2, <2>3, <2>4, <2>5, <2>6 DEF Next, Silent, Publish
<1> QED
  BY <1>1, <1>2, TypeCorrect, PTL DEF Spec

-----------------------------------------------------------------------------
(* What the floor keeps out *)

\* No action has touched a client that has not been made.
Untouched == \A c \in Client : c > made => chan[c] = NewChannel

Floored == FloorCoversOldGoals /\ Untouched

\* Steps on one client that give it nothing new to deliver.
LEMMA FlooredStep ==
  ASSUME TypeOK, Floored, NEW c \in Client, NEW ch,
         \A d \in Client : chan'[d] = IF d = c THEN ch ELSE chan[d],
         UNCHANGED <<goal, frameCounter, made, cur>>, cache'.floor = cache.floor,
         c <= made,
         cb = "goal" <=> cb' = "goal",
         \A o \in InFlight(ch) :
            \E q \in InFlight(chan[c]) : o.frame = q.frame /\ o.goal = q.goal
  PROVE  Floored'
<1>1. cur # 0 => cur \in Client
  BY BoundAssumption DEF TypeOK, Client
<1>2. ASSUME cur # 0, NEW o \in InFlight(chan'[cur])
      PROVE  \E q \in InFlight(chan[cur]) : o.frame = q.frame /\ o.goal = q.goal
  BY <1>1, <1>2
<1>3. FloorCoversOldGoals'
  BY <1>2 DEF Floored, FloorCoversOldGoals
<1>4. Untouched'
  BY DEF Floored, Untouched, Client, TypeOK
<1> QED
  BY <1>3, <1>4 DEF Floored

\* Whatever joins and activations do, what can still arrive at the node's own
\* client and is over the floor of its cache is for the latest goal.
THEOREM FloorsCover == Spec => [](FloorCoversOldGoals /\ Untouched)
<1>1. Init => Floored
  BY DEF Init, Floored, FloorCoversOldGoals, Untouched, EmptyCache, NoFloor
<1>2. TypeOK /\ Configured /\ Floored /\ [Next]_vars => Floored'
  <2> SUFFICES ASSUME TypeOK, Configured, Floored, [Next]_vars PROVE Floored'
    OBVIOUS
  <2>0. /\ cache \in Cache /\ cache.floor \in Int /\ frameCounter \in Nat
        /\ \A c \in Client : chan[c] \in Channel
        /\ cur # 0 => cur \in Client /\ cur <= made
        /\ \A c \in Client : chan[c] # NewChannel => c <= made
    BY BoundAssumption DEF TypeOK, Client, Cache, NoFloor, Floored, Untouched
  <2>1. CASE Configure
    <3>1. made + 1 \in Client /\ chan[made + 1] = NewChannel
      BY <2>1, BoundAssumption DEF Configure, TypeOK, Client, Floored, Untouched
    <3>2. InFlight(NewChannel) = {}
      BY DEF InFlight, NewChannel
    <3>3. Untouched'
      BY <2>1, BoundAssumption DEF Configure, TypeOK, Client, Floored, Untouched
    <3>4. FloorCoversOldGoals'
      BY <2>0, <2>1, <3>1, <3>2 DEF Configure, FloorCoversOldGoals, EmptyCache, NoFloor, inputs
    <3> QED
      BY <3>3, <3>4 DEF Floored
  <2>2. CASE Activate \/ ActivateFails
    <3> DEFINE ch == Started(chan[cur])
    <3>1. cur \in Client /\ chan[cur] \in Channel /\ cur <= made
      BY <2>0, <2>2 DEF Activate, ActivateFails, Configured
    <3>2. InFlight(ch) = InFlight(chan[cur])
      BY <3>1 DEF Started, InFlight, Channel
    <3>3. /\ UNCHANGED <<goal, frameCounter, made, cur, cb, cache>>
          /\ \A d \in Client : chan'[d] = IF d = cur THEN ch ELSE chan[d]
      BY <2>2, <3>1 DEF Activate, ActivateFails, OnChannel, TypeOK, inputs
    <3> HIDE DEF ch
    <3> QED
      BY <3>1, <3>2, <3>3, FlooredStep
  <2>3. CASE Deactivate \/ FinishShutdown \/ Image \/ ActionBegins \/ ActionStops \/ ActionPublishes
    BY <2>3 DEF Deactivate, FinishShutdown, Image, ActionBegins, ActionStops, ActionPublishes,
       lifecycle, inputs, remote, Floored, FloorCoversOldGoals, Untouched
  <2>4. CASE BeginTransition
    <3>1. CASE cur = 0
      BY <2>4, <3>1 DEF BeginTransition, StopClient, Transition, inputs, remote, Floored,
         FloorCoversOldGoals, Untouched
    <3>2. CASE cur # 0
      <4> DEFINE ch == StopRequested(chan[cur])
      <4>1. /\ cur \in Client /\ cur <= made
            /\ ch.pending \subseteq chan[cur].pending
            /\ ch.inHand \in {chan[cur].inHand, NoReply}
        BY <2>0, <3>2, QuietLemma
      <4>2. InFlight(ch) \subseteq InFlight(chan[cur])
        BY <4>1 DEF InFlight
      <4>3. /\ UNCHANGED <<goal, frameCounter, made, cur, cache>>
            /\ cb # "goal" /\ cb' # "goal"
            /\ \A d \in Client : chan'[d] = IF d = cur THEN ch ELSE chan[d]
        BY <2>4, <3>2, <4>1 DEF BeginTransition, StopClient, OnChannel, TypeOK, inputs
      <4> HIDE DEF ch
      <4> QED
        BY <4>1, <4>2, <4>3, FlooredStep
    <3> QED
      BY <3>1, <3>2
  <2>5. CASE FinishCleanup
    BY <2>0, <2>5 DEF FinishCleanup, Floored, FloorCoversOldGoals, Untouched, EmptyCache,
       NoFloor, inputs
  <2>6. CASE GoalArrives
    BY <2>6 DEF GoalArrives, Configured, Floored, FloorCoversOldGoals, Untouched, remote
  <2>7. CASE GoalInvalidates
    <3>1. cache' = [latest |-> NoEmbedding, floor |-> frameCounter]
      BY <2>7 DEF GoalInvalidates, InvalidateTo
    <3>2. \A o \in InFlight(chan[cur]) : cur # 0 => o.frame \in Int
      BY <2>0, BoundAssumption DEF InFlight, Channel, Observation, Embedding, Frame, NoReply
    <3> QED
      BY <2>0, <2>7, <3>1, <3>2
      DEF GoalInvalidates, Floored, FloorCoversOldGoals, Untouched, inputs, remote
  <2>8. CASE SendTick
    <3> DEFINE obs == [frame |-> frameCounter + 1, goal |-> goal]
               ch == chan[cur]
    <3>1. cur \in Client /\ ch \in Channel /\ cur <= made
      BY <2>0, <2>8 DEF SendTick
    <3>2. /\ UNCHANGED <<lifecycle, goal, cache, made, cur>>
          /\ cb = "idle" /\ cb' = cb /\ frameCounter' = frameCounter + 1
          /\ chan' \in {chan, [chan EXCEPT ![cur] = Sent(ch, obs)]}
      BY <2>8 DEF SendTick, OnChannel, remote, lifecycle
    <3>3. InFlight(Sent(ch, obs)) \subseteq InFlight(ch) \cup {obs}
      BY <3>1 DEF Sent, InFlight, Channel
    <3>4. InFlight(chan'[cur]) \subseteq InFlight(ch) \cup {obs}
      BY <3>1, <3>2, <3>3 DEF TypeOK
    <3>5. \A o \in InFlight(ch) : o.frame \in Nat
      BY <3>1, BoundAssumption DEF InFlight, Channel, Observation, Embedding, Frame
    <3>6. FloorCoversOldGoals'
      BY <2>0, <3>2, <3>4, <3>5 DEF Floored, FloorCoversOldGoals
    <3>7. \A c \in Client : c # cur => chan'[c] = chan[c]
      BY <3>1, <3>2 DEF TypeOK
    <3>8. Untouched'
      BY <2>0, <3>1, <3>2, <3>7 DEF Floored, Untouched, Client, TypeOK
    <3> QED
      BY <3>6, <3>8 DEF Floored
  <2>9. ASSUME NEW c \in Client, TakeReply(c) PROVE Floored'
    <3>1. PICK obs \in chan[c].pending :
            LET ch == Received(chan[c], obs, ReplyTo(obs)) IN
              OnChannel(c, IF cur = 0 THEN HandedOver(ch) ELSE ch)
      BY <2>9 DEF TakeReply
    <3> DEFINE ch == Received(chan[c], obs, ReplyTo(obs))
    <3>2. c <= made
      BY <2>0, <3>1 DEF NewChannel
    <3>3. /\ UNCHANGED <<goal, frameCounter, made, cur, cb, cache>>
          /\ \A d \in Client : chan'[d] = IF d = c THEN IF cur = 0 THEN HandedOver(ch) ELSE ch
                                          ELSE chan[d]
      BY <2>9, <3>1 DEF TakeReply, OnChannel, TypeOK, lifecycle, inputs
    <3>4. CASE cur = 0
      BY <3>2, <3>3, <3>4 DEF Floored, FloorCoversOldGoals, Untouched, TypeOK, Client
    <3>5. CASE cur # 0
      <4>1. \A o \in InFlight(ch) :
               \E q \in InFlight(chan[c]) : o.frame = q.frame /\ o.goal = q.goal
        BY <2>0, <3>1 DEF InFlight, Received, After, ReplyTo, Channel
      <4> HIDE DEF ch
      <4> QED
        BY <3>2, <3>3, <3>5, <4>1, FlooredStep
    <3> QED
      BY <3>4, <3>5
  <2>10. ASSUME NEW c \in Client, PutReply(c) PROVE Floored'
    <3> DEFINE ch == HandedOver(chan[c])
    <3>1. chan[c].inHand \in Embedding /\ c <= made
      BY <2>0, <2>10 DEF PutReply, Channel, NewChannel
    <3>2. cache'.floor = cache.floor
      BY <2>0, <2>10, <3>1, PutLemma DEF PutReply
    <3>3. /\ UNCHANGED <<goal, frameCounter, made, cur, cb>>
          /\ \A d \in Client : chan'[d] = IF d = c THEN ch ELSE chan[d]
      BY <2>10 DEF PutReply, OnChannel, TypeOK, lifecycle, inputs
    <3>4. InFlight(ch) \subseteq InFlight(chan[c])
      BY <2>0, QuietLemma DEF InFlight
    <3> HIDE DEF ch
    <3> QED
      BY <3>1, <3>2, <3>3, <3>4, FlooredStep
  <2>11. ASSUME NEW c \in Client, LoseSome(c) PROVE Floored'
    <3>1. PICK S \in SUBSET chan[c].pending : OnChannel(c, Kept(chan[c], S))
      BY <2>11 DEF LoseSome
    <3> DEFINE ch == Kept(chan[c], S)
    <3>2. c <= made /\ InFlight(ch) \subseteq InFlight(chan[c])
      BY <2>0, <2>11, <3>1 DEF LoseSome, Alive, NewChannel, Channel, Kept, InFlight
    <3>3. /\ UNCHANGED <<goal, frameCounter, made, cur, cb, cache>>
          /\ \A d \in Client : chan'[d] = IF d = c THEN ch ELSE chan[d]
      BY <2>11, <3>1 DEF LoseSome, OnChannel, TypeOK, lifecycle, inputs
    <3> HIDE DEF ch
    <3> QED
      BY <3>2, <3>3, FlooredStep
  <2>12. ASSUME NEW c \in Client, ThreadExits(c) PROVE Floored'
    <3> DEFINE ch == Exited(chan[c])
    <3>1. c <= made /\ ch.pending \subseteq chan[c].pending /\ ch.inHand \in {chan[c].inHand, NoReply}
      BY <2>0, <2>12, QuietLemma DEF ThreadExits, CanExit, NewChannel
    <3>2. InFlight(ch) \subseteq InFlight(chan[c])
      BY <3>1 DEF InFlight
    <3>3. /\ UNCHANGED <<goal, frameCounter, made, cur, cb, cache>>
          /\ \A d \in Client : chan'[d] = IF d = c THEN ch ELSE chan[d]
      BY <2>12 DEF ThreadExits, OnChannel, TypeOK, lifecycle, inputs
    <3> HIDE DEF ch
    <3> QED
      BY <3>1, <3>2, <3>3, FlooredStep
  <2>13. CASE Tick
    <3>1. \A c \in Client : chan'[c] = [chan[c] EXCEPT !.inHand = Older(@)]
      BY <2>13 DEF Tick
    <3>2. \A c \in Client :
            /\ chan'[c].pending = chan[c].pending
            /\ chan'[c].inHand = Older(chan[c].inHand)
            /\ chan[c].inHand \in Embedding \cup {NoEmbedding}
      BY <2>0, <3>1 DEF Channel, NoReply, NoEmbedding
    <3>3. \A c \in Client : chan[c] = NewChannel => chan'[c] = NewChannel
      BY <3>1 DEF NewChannel, Older, NoReply, NoEmbedding
    <3>4. \A c \in Client : \A o \in InFlight(chan'[c]) :
            \E q \in InFlight(chan[c]) : o.frame = q.frame /\ o.goal = q.goal
      BY <3>2, OlderLemma DEF InFlight, NoReply, NoEmbedding
    <3>5. cache'.floor = cache.floor
      BY <2>0, <2>13 DEF Tick, Aged, Cache
    <3>6. FloorCoversOldGoals'
      BY <2>0, <2>13, <3>4, <3>5 DEF Tick, Floored, FloorCoversOldGoals, lifecycle, inputs
    <3>7. Untouched'
      BY <2>13, <3>3 DEF Tick, Floored, Untouched
    <3> QED
      BY <3>6, <3>7 DEF Floored
  <2>14. CASE ProcessEnds
    <3>1. \A c \in Client : chan[c] = NewChannel => chan'[c] = NewChannel
      BY <2>14 DEF ProcessEnds, Alive, NewChannel
    <3> QED
      BY <2>14, <3>1 DEF ProcessEnds, Floored, FloorCoversOldGoals, Untouched, EmptyCache, NoFloor
  <2>15. CASE UNCHANGED vars
    BY <2>15 DEF vars, lifecycle, inputs, remote, Floored, FloorCoversOldGoals, Untouched
  <2> QED
    BY <2>1, <2>2, <2>3, <2>4, <2>5, <2>6, <2>7, <2>8, <2>9, <2>10, <2>11, <2>12, <2>13,
       <2>14, <2>15 DEF Next, Silent, Publish
<1> QED
  BY <1>1, <1>2, TypeCorrect, PTL DEF Spec, Floored

\* A frame number once refused by a cache stays refused by it.
THEOREM FloorsRise == Spec => FloorNeverFalls
<1>1. TypeOK /\ Configured /\ FloorCoversOldGoals /\ [Next]_vars
        => [cur' = cur => cache'.floor >= cache.floor]_vars
  <2> SUFFICES ASSUME TypeOK, Configured, FloorCoversOldGoals, Next, cur' = cur
               PROVE  cache'.floor >= cache.floor
    OBVIOUS
  <2>0. /\ cache \in Cache /\ cache.floor \in Int /\ cache.floor <= frameCounter
        /\ frameCounter \in Nat
    BY BoundAssumption DEF TypeOK, Cache, NoFloor, FloorCoversOldGoals
  <2>1. CASE cache' = cache
    BY <2>0, <2>1
  <2>2. ASSUME NEW c \in Client, PutReply(c) PROVE cache'.floor >= cache.floor
    <3>1. chan[c].inHand \in Embedding
      BY <2>2 DEF PutReply, TypeOK, Channel
    <3> QED
      BY <2>0, <2>2, <3>1, PutLemma DEF PutReply
  <2>3. CASE GoalInvalidates
    BY <2>0, <2>3 DEF GoalInvalidates, InvalidateTo
  <2>4. CASE Tick
    BY <2>0, <2>4 DEF Tick, Aged, Cache
  <2>5. CASE Configure \/ FinishCleanup \/ ProcessEnds
    BY <2>0, <2>5 DEF Configure, FinishCleanup, ProcessEnds, Configured, TypeOK
  <2> QED
    BY <2>1, <2>2, <2>3, <2>4, <2>5 DEF Next, Silent, Publish, Activate, ActivateFails, Deactivate,
       BeginTransition, FinishShutdown, Image, GoalArrives, SendTick, ActionBegins, ActionStops,
       ActionPublishes, TakeReply, LoseSome, ThreadExits
<1> QED
  BY <1>1, TypeCorrect, FloorsCover, PTL DEF FloorNeverFalls, Spec

-----------------------------------------------------------------------------
(* What a join that waits for the thread buys *)

OneAlive == \A c \in Client : Alive(chan[c]) => c = cur

Matching == cache.latest # NoEmbedding /\ cb # "goal" => cache.latest.goal = goal

\* Clients the node has let go of are inert.
Inert ==
  /\ \A c \in Client : chan[c].inHand # NoReply => Alive(chan[c])
  /\ lc = "unconfigured" => ~ClientAlive

Good == OneAlive /\ Inert /\ Matching

Safe == ~raised => Good

LEMMA RaisedStays == [Next]_vars /\ ~raised' => ~raised
<1> SUFFICES ASSUME [Next]_vars, ~raised' PROVE ~raised
  OBVIOUS
<1>1. CASE Configure \/ Activate \/ ActivateFails \/ Deactivate \/ BeginTransition
           \/ FinishCleanup \/ FinishShutdown \/ ProcessEnds
  BY <1>1 DEF Configure, Activate, ActivateFails, Deactivate, BeginTransition, FinishCleanup,
     FinishShutdown, ProcessEnds, held
<1>2. CASE Image \/ GoalArrives \/ GoalInvalidates \/ SendTick \/ ActionBegins \/ Publish
  BY <1>2 DEF Image, GoalArrives, GoalInvalidates, SendTick, ActionBegins, Publish, ActionStops,
     ActionPublishes, lifecycle, held
<1>3. CASE \E c \in Client : TakeReply(c) \/ PutReply(c) \/ LoseSome(c) \/ ThreadExits(c)
  BY <1>3 DEF TakeReply, PutReply, LoseSome, ThreadExits, lifecycle, held
<1>4. CASE Tick \/ UNCHANGED vars
  BY <1>4 DEF Tick, vars, lifecycle, held
<1> QED
  BY <1>1, <1>2, <1>3, <1>4 DEF Next, Silent

\* Steps of callbacks that touch neither the cache nor a client.
LEMMA OtherStep ==
  ASSUME Good, UNCHANGED <<cache, chan, made, cur, goal>>,
         cb # "goal", cb' # "goal", lc' = "unconfigured" => lc = "unconfigured"
  PROVE  Good'
BY DEF Good, OneAlive, Inert, ClientAlive, Matching

\* Steps on one client that bring no other to life.
LEMMA ChannelStep ==
  ASSUME TypeOK, Good, NEW c \in Client, NEW ch \in Channel, OnChannel(c, ch),
         UNCHANGED <<cache, goal>>,
         cb = "goal" <=> cb' = "goal",
         lc' = "unconfigured" => lc = "unconfigured",
         Alive(ch) => c = cur /\ (Alive(chan[c]) \/ lc' # "unconfigured"),
         ch.inHand # NoReply => Alive(ch)
  PROVE  Good'
<1>1. /\ \A d \in Client : chan'[d] = IF d = c THEN ch ELSE chan[d]
      /\ made' = made /\ cur' = cur
  BY DEF TypeOK, OnChannel
<1>0. cur # 0 => cur \in Client
  BY BoundAssumption DEF TypeOK, Client
<1>2. OneAlive'
  BY <1>1 DEF Good, OneAlive
<1>3. Inert'
  <2>1. \A d \in Client : chan'[d].inHand # NoReply => Alive(chan'[d])
    BY <1>1 DEF Good, Inert
  <2>2. lc' = "unconfigured" => ~ClientAlive'
    BY <1>0, <1>1 DEF Good, Inert, ClientAlive
  <2> QED
    BY <2>1, <2>2 DEF Inert
<1>4. Matching'
  BY DEF Good, Matching
<1> QED
  BY <1>2, <1>3, <1>4 DEF Good

LEMMA GoodStep ==
  ASSUME TypeOK, Configured, Floored, Good, [Next]_vars, ~ActivateFails, ~SlowJoin
  PROVE  Good'
<1>0. /\ cache \in Cache /\ cache.latest \in Embedding \cup {NoEmbedding}
      /\ \A c \in Client : chan[c] \in Channel
      /\ cur # 0 => cur \in Client /\ cur <= made
      /\ \A c \in Client : Alive(chan[c]) => c = cur /\ cur # 0
  BY BoundAssumption DEF TypeOK, Client, Cache, Good, OneAlive
<1>1. CASE Configure
  <2>1. \A c \in Client : ~Alive(chan[c])
    BY <1>0, <1>1 DEF Configure, Good, OneAlive, Inert, ClientAlive
  <2>2. made + 1 \in Client
    BY <1>1, BoundAssumption DEF Configure, TypeOK, Client
  <2>3. OneAlive' /\ Inert'
    BY <1>1, <2>1, <2>2 DEF Configure, OneAlive, Inert, ClientAlive, Good
  <2>4. Matching'
    BY <1>1 DEF Configure, Matching, EmptyCache
  <2> QED
    BY <2>3, <2>4 DEF Good
<1>2. CASE Activate
  <2> DEFINE ch == Started(chan[cur])
  <2>1. cur \in Client /\ chan[cur] \in Channel /\ ch \in Channel
    BY <1>0, <1>2, QuietLemma DEF Activate, Configured
  <2>2. ch.inHand # NoReply => Alive(ch)
    BY <2>1 DEF Good, Inert, Started, Channel, Alive
  <2>3. OnChannel(cur, ch) /\ cache' = cache /\ goal' = goal /\ cb' = cb /\ lc' # "unconfigured"
    BY <1>2 DEF Activate, inputs
  <2> HIDE DEF ch
  <2> QED
    BY <2>1, <2>2, <2>3, ChannelStep
<1>3. CASE Deactivate \/ FinishShutdown \/ Image \/ ActionBegins \/ ActionStops \/ ActionPublishes
  BY <1>3, OtherStep DEF Deactivate, FinishShutdown, Image, ActionBegins, ActionStops,
     ActionPublishes, lifecycle, inputs, remote
<1>4. CASE BeginTransition
  <2>1. CASE cur = 0
    BY <1>4, <2>1, OtherStep DEF BeginTransition, StopClient, Transition, inputs, remote
  <2>2. CASE cur # 0
    <3> DEFINE ch == StopRequested(chan[cur])
    <3>1. /\ cur \in Client /\ ch \in Channel
          /\ ch.inHand \in {chan[cur].inHand, NoReply}
          /\ Alive(ch) <=> Alive(chan[cur])
      BY <1>0, <2>2, QuietLemma
    <3>2. ch.inHand # NoReply => Alive(ch)
      BY <3>1 DEF Good, Inert
    <3>3. /\ OnChannel(cur, ch) /\ cache' = cache /\ goal' = goal
          /\ cb # "goal" /\ cb' # "goal" /\ lc' = lc
      BY <1>4, <2>2 DEF BeginTransition, StopClient, inputs
    <3> HIDE DEF ch
    <3> QED
      BY <3>1, <3>2, <3>3, ChannelStep
  <2> QED
    BY <2>1, <2>2
<1>5. CASE FinishCleanup
  <2>1. \A c \in Client : ~Alive(chan[c])
    BY <1>0, <1>5 DEF FinishCleanup, Joined, ClientAlive
  <2> QED
    BY <1>5, <2>1 DEF FinishCleanup, Good, OneAlive, Inert, ClientAlive, Matching, EmptyCache
<1>6. CASE GoalArrives
  BY <1>6 DEF GoalArrives, Configured, Good, OneAlive, Inert, ClientAlive, Matching, EmptyCache,
     remote
<1>7. CASE GoalInvalidates
  BY <1>7 DEF GoalInvalidates, InvalidateTo, Good, OneAlive, Inert, ClientAlive, Matching,
     inputs, remote
<1>8. CASE SendTick
  <2> DEFINE obs == [frame |-> frameCounter + 1, goal |-> goal]
             ch == chan[cur]
  <2>1. cur \in Client /\ ch \in Channel
    BY <1>0, <1>8 DEF SendTick
  <2>2. /\ UNCHANGED <<lc, cb, goal, cache, made, cur>>
        /\ chan' \in {chan, [chan EXCEPT ![cur] = Sent(ch, obs)]}
    BY <1>8 DEF SendTick, OnChannel, remote, lifecycle
  <2>3. Sent(ch, obs).inHand = ch.inHand /\ Sent(ch, obs).phase = ch.phase
    BY <2>1 DEF Sent, Channel
  <2>4. \A c \in Client : chan'[c].inHand = chan[c].inHand /\ chan'[c].phase = chan[c].phase
    BY <2>1, <2>2, <2>3 DEF TypeOK
  <2>5. OneAlive' /\ Inert'
    BY <1>0, <2>2, <2>4 DEF Good, OneAlive, Inert, ClientAlive, Alive
  <2>6. Matching'
    BY <2>2 DEF Good, Matching
  <2> QED
    BY <2>5, <2>6 DEF Good
<1>9. ASSUME NEW c \in Client, TakeReply(c) PROVE Good'
  <2>1. PICK obs \in chan[c].pending :
          /\ CanReceive(chan[c], obs)
          /\ LET ch == Received(chan[c], obs, ReplyTo(obs)) IN
               OnChannel(c, IF cur = 0 THEN HandedOver(ch) ELSE ch)
    BY <1>9 DEF TakeReply
  <2> DEFINE ch == Received(chan[c], obs, ReplyTo(obs))
  <2>2. Alive(chan[c]) /\ c = cur /\ cur # 0
    BY <1>0, <2>1 DEF CanReceive
  <2>3. obs \in Observation /\ ReplyTo(obs) \in Embedding
    BY <1>0, <2>1, ThresholdAssumption DEF Channel, Observation, Embedding, ReplyTo
  <2>4. ch \in Channel /\ Alive(ch)
    BY <1>0, <2>2, <2>3 DEF Channel, Received, After, Alive
  <2>5. OnChannel(c, ch) /\ cache' = cache /\ goal' = goal /\ cb' = cb /\ lc' = lc
    BY <1>9, <2>1, <2>2 DEF TakeReply, lifecycle, inputs
  <2> HIDE DEF ch
  <2> QED
    BY <2>2, <2>4, <2>5, ChannelStep
<1>10. ASSUME NEW c \in Client, PutReply(c) PROVE Good'
  <2> DEFINE e == chan[c].inHand
             ch == HandedOver(chan[c])
  <2>1. e \in Embedding /\ e # NoReply /\ e \in InFlight(chan[c])
    BY <1>0, <1>10 DEF PutReply, Channel, InFlight
  <2>2. Alive(chan[c]) /\ c = cur /\ cur # 0
    BY <1>0, <2>1 DEF Good, Inert
  <2>3. /\ lc' = lc /\ cb' = cb /\ UNCHANGED <<goal, made, cur>>
        /\ cache' = Put(cache, e)
        /\ \A d \in Client : chan'[d] = IF d = c THEN ch ELSE chan[d]
    BY <1>10, <2>2 DEF PutReply, OnChannel, TypeOK, lifecycle, inputs
  <2>4. ch.inHand = NoReply /\ (Alive(ch) => Alive(chan[c]))
    BY <1>0, QuietLemma
  <2>5. OneAlive' /\ Inert'
    BY <1>0, <2>2, <2>3, <2>4 DEF Good, OneAlive, Inert, ClientAlive
  <2>6. cb # "goal" /\ e.frame > cache.floor => e.goal = goal
    BY <2>1, <2>2 DEF Floored, FloorCoversOldGoals
  <2>7. cache'.latest = cache.latest \/ (cache'.latest = e /\ e.frame > cache.floor)
    BY <1>0, <2>1, <2>3, PutLemma
  <2>8. Matching'
    BY <2>3, <2>6, <2>7 DEF Good, Matching
  <2> QED
    BY <2>5, <2>8 DEF Good
<1>11. ASSUME NEW c \in Client, LoseSome(c) PROVE Good'
  <2>1. PICK S \in SUBSET chan[c].pending : OnChannel(c, Kept(chan[c], S))
    BY <1>11 DEF LoseSome
  <2> DEFINE ch == Kept(chan[c], S)
  <2>2. Alive(chan[c]) /\ c = cur
    BY <1>0, <1>11 DEF LoseSome
  <2>3. ch \in Channel /\ Alive(ch)
    BY <1>0, <2>1, <2>2 DEF Channel, Kept, Alive
  <2>4. cache' = cache /\ goal' = goal /\ cb' = cb /\ lc' = lc
    BY <1>11 DEF LoseSome, lifecycle, inputs
  <2> HIDE DEF ch
  <2> QED
    BY <2>1, <2>2, <2>3, <2>4, ChannelStep DEF ch
<1>12. ASSUME NEW c \in Client, ThreadExits(c) PROVE Good'
  <2> DEFINE ch == Exited(chan[c])
  <2>1. ch \in Channel /\ ~Alive(ch) /\ ch.inHand = NoReply
    BY <1>0, <1>12, QuietLemma DEF ThreadExits, CanExit
  <2>2. OnChannel(c, ch) /\ cache' = cache /\ goal' = goal /\ cb' = cb /\ lc' = lc
    BY <1>12 DEF ThreadExits, lifecycle, inputs
  <2> HIDE DEF ch
  <2> QED
    BY <2>1, <2>2, ChannelStep
<1>13. CASE Tick
  <2>1. \A c \in Client :
          /\ chan'[c].phase = chan[c].phase
          /\ chan'[c].inHand = Older(chan[c].inHand)
          /\ chan[c].inHand \in Embedding \cup {NoEmbedding}
    BY <1>0, <1>13 DEF Tick, Channel, NoReply, NoEmbedding
  <2>2. \A c \in Client : chan[c].inHand = NoReply <=> chan'[c].inHand = NoReply
    BY <2>1, OlderLemma DEF NoReply, NoEmbedding
  <2>3. OneAlive' /\ Inert'
    BY <1>0, <1>13, <2>1, <2>2 DEF Tick, Good, OneAlive, Inert, ClientAlive, Alive, lifecycle
  <2>4. cache'.latest = Older(cache.latest)
    BY <1>0, <1>13 DEF Tick, Aged, Cache
  <2>5. Matching'
    BY <1>0, <1>13, <2>4, OlderLemma DEF Tick, Good, Matching, lifecycle, inputs
  <2> QED
    BY <2>3, <2>5 DEF Good
<1>14. CASE ProcessEnds
  <2>1. \A c \in Client :
           chan'[c] = IF Alive(chan[c]) THEN Killed(chan[c]) ELSE chan[c]
    BY <1>14 DEF ProcessEnds
  <2>2. \A c \in Client : ~Alive(chan'[c]) /\ chan'[c].inHand = NoReply
    BY <1>0, <2>1, KilledLemma DEF Good, Inert
  <2> QED
    BY <1>14, <2>2 DEF ProcessEnds, Good, OneAlive, Inert, ClientAlive, Matching, EmptyCache
<1>15. CASE UNCHANGED vars
  BY <1>15 DEF vars, lifecycle, inputs, remote, Good, OneAlive, Inert, ClientAlive, Matching
<1> QED
  BY <1>1, <1>2, <1>3, <1>4, <1>5, <1>6, <1>7, <1>8, <1>9, <1>10, <1>11, <1>12, <1>13, <1>14,
     <1>15 DEF Next, Silent, Publish

\* When every join waits for the thread to end, no reply computed for an
\* earlier goal is ever in the cache, through any number of goal changes,
\* losses, deactivations and reconfigurations, unless an activation raises.
THEOREM NoStaleGoal ==
  ASSUME ~SlowJoin
  PROVE  Spec => [](OnlyCurrentClientAlive /\ CachedGoalIsLatest)
<1>1. Init => Safe
  BY DEF Init, Safe, Good, OneAlive, Inert, ClientAlive, Matching, Alive, NewChannel, EmptyCache
<1>2. TypeOK /\ Configured /\ Floored /\ Safe /\ [Next]_vars => Safe'
  <2> SUFFICES ASSUME TypeOK, Configured, Floored, Safe, [Next]_vars, ~raised' PROVE Good'
    BY DEF Safe
  <2>1. Good /\ ~ActivateFails
    BY RaisedStays DEF Safe, ActivateFails
  <2> QED
    BY <2>1, GoodStep
<1>3. Safe => OnlyCurrentClientAlive /\ CachedGoalIsLatest
  BY DEF Safe, Good, OneAlive, Matching, OnlyCurrentClientAlive, CachedGoalIsLatest
<1> QED
  BY <1>1, <1>2, <1>3, TypeCorrect, FloorsCover, PTL DEF Spec, Floored

\* Under the same conditions nobody but the node's own client can reach its
\* cache: stop() leaves no thread behind (on_cleanup, stop()).
THEOREM StoppedThreadsEnd ==
  ASSUME ~SlowJoin
  PROVE  Spec => []OnlyCurrentClientAlive
BY NoStaleGoal, PTL

\* Every path published is for the latest goal, or empty.
THEOREM PathsFollowGoal ==
  ASSUME ~SlowJoin
  PROVE  Spec => PathFollowsGoal
<1>1. CachedGoalIsLatest /\ [Next]_vars
        => [path' # path /\ ~raised => path' \in {goal, StopPath}]_vars
  <2> SUFFICES ASSUME CachedGoalIsLatest, Next, path' # path, ~raised
               PROVE  path' \in {goal, StopPath}
    OBVIOUS
  <2>1. CASE ActionStops
    BY <2>1 DEF ActionStops
  <2>2. CASE ActionPublishes
    BY <2>2 DEF ActionPublishes, CachedGoalIsLatest
  <2>3. CASE Silent
    BY <2>3 DEF Silent, Configure, Activate, ActivateFails, ProcessEnds, Deactivate,
       BeginTransition, FinishCleanup, FinishShutdown, Image, GoalArrives, GoalInvalidates,
       SendTick, ActionBegins, TakeReply, PutReply, LoseSome, ThreadExits, Tick
  <2> QED
    BY <2>1, <2>2, <2>3 DEF Next, Publish
<1> QED
  BY <1>1, NoStaleGoal, PTL DEF PathFollowsGoal, Spec

-----------------------------------------------------------------------------
(* The node uses its clients as ClientChannel has it.  First what a client's *)
(* own operations do to a record written out field by field.                 *)

LEMMA StartedRecord ==
  ASSUME NEW p, NEW S, NEW r, NEW c \in Client
  PROVE  Promise(c)!Started([phase |-> p, pending |-> S, inHand |-> r])
         = [phase |-> IF p = "new" THEN "running" ELSE p, pending |-> S, inHand |-> r]
BY DEF Promise!Started

LEMMA SentRecord ==
  ASSUME NEW p, NEW S, NEW r, NEW c \in Client, NEW o
  PROVE  Promise(c)!Sent([phase |-> p, pending |-> S, inHand |-> r], o)
         = [phase |-> p, pending |-> IF p = "done" THEN S ELSE S \cup {o}, inHand |-> r]
BY DEF Promise!Sent

LEMMA KeptRecord ==
  ASSUME NEW p, NEW S, NEW r, NEW c \in Client, NEW K
  PROVE  Promise(c)!Kept([phase |-> p, pending |-> S, inHand |-> r], K)
         = [phase |-> p, pending |-> K, inHand |-> r]
BY DEF Promise!Kept

LEMMA ExitedRecord ==
  ASSUME NEW p, NEW S, NEW r, NEW c \in Client
  PROVE  Promise(c)!Exited([phase |-> p, pending |-> S, inHand |-> r])
         = [phase |-> "done", pending |-> {}, inHand |-> r]
<1> DEFINE q == [phase |-> p, pending |-> S, inHand |-> r]
           T == [phase : {p, "done"}, pending : {S, {}}, inHand : {r, r}]
<1>1. q \in T /\ q.phase = p /\ q.pending = S /\ q.inHand = r
  OBVIOUS
<1> HIDE DEF q
<1>2. Promise(c)!Exited(q) \in T
  BY <1>1 DEF Promise!Exited
<1>3. /\ Promise(c)!Exited(q).phase = "done"
      /\ Promise(c)!Exited(q).pending = {}
      /\ Promise(c)!Exited(q).inHand = r
  BY <1>1 DEF Promise!Exited
<1> QED
  BY <1>2, <1>3 DEF q

LEMMA ReceivedRecord ==
  ASSUME NEW p, NEW S, NEW r, NEW c \in Client, NEW o
  PROVE  Promise(c)!Received([phase |-> p, pending |-> S, inHand |-> r], o, o)
         = [phase |-> p, pending |-> Promise(c)!After(o, S), inHand |-> o]
<1> DEFINE q == [phase |-> p, pending |-> S, inHand |-> r]
           A == Promise(c)!After(o, S)
           T == [phase : {p, p}, pending : {S, A}, inHand : {r, o}]
<1>1. q \in T /\ q.phase = p /\ q.pending = S /\ q.inHand = r
  OBVIOUS
<1> HIDE DEF q
<1>2. Promise(c)!Received(q, o, o) \in T
  BY <1>1 DEF Promise!Received
<1>3. /\ Promise(c)!Received(q, o, o).phase = p
      /\ Promise(c)!Received(q, o, o).pending = A
      /\ Promise(c)!Received(q, o, o).inHand = o
  BY <1>1 DEF Promise!Received
<1> QED
  BY <1>2, <1>3 DEF q

LEMMA HandedOverRecord ==
  ASSUME NEW p, NEW S, NEW r, NEW c \in Client
  PROVE  Promise(c)!HandedOver([phase |-> p, pending |-> S, inHand |-> r])
         = IF p = "stopping" THEN [phase |-> "done", pending |-> {}, inHand |-> NoReply]
           ELSE [phase |-> p, pending |-> S, inHand |-> NoReply]
<1> DEFINE q == [phase |-> p, pending |-> S, inHand |-> r]
           idle == [phase |-> p, pending |-> S, inHand |-> NoReply]
<1>1. [q EXCEPT !.inHand = NoReply] = idle
  OBVIOUS
<1>2. Promise(c)!HandedOver(q) = IF p = "stopping" THEN Promise(c)!Exited(idle) ELSE idle
  BY <1>1 DEF Promise!HandedOver, Promise!NoReply, NoReply
<1> QED
  BY <1>2, ExitedRecord

LEMMA StopRecord ==
  ASSUME NEW p, NEW S, NEW r, NEW c \in Client
  PROVE  Promise(c)!StopRequested([phase |-> p, pending |-> S, inHand |-> r])
         = [phase   |-> IF p = "new" THEN "done" ELSE IF p = "running" THEN "stopping" ELSE p,
            pending |-> IF p = "new" THEN {} ELSE S,
            inHand  |-> r]
BY ExitedRecord DEF Promise!StopRequested

\* The same, field by field, for the channels of the node.
LEMMA ChannelFields ==
  ASSUME NEW ch \in Channel
  PROVE  /\ ch.phase \in Phase /\ ch.pending \in SUBSET Observation
         /\ ch.inHand \in Embedding \cup {NoReply}
         /\ LET s == Started(ch) IN
              /\ s.phase = IF ch.phase = "new" THEN "running" ELSE ch.phase
              /\ s.pending = ch.pending /\ s.inHand = ch.inHand
         /\ LET s == Exited(ch) IN s.phase = "done" /\ s.pending = {} /\ s.inHand = ch.inHand
         /\ LET s == StopRequested(ch) IN
              /\ s.phase = IF ch.phase = "new" THEN "done"
                           ELSE IF ch.phase = "running" THEN "stopping" ELSE ch.phase
              /\ s.pending = IF ch.phase = "new" THEN {} ELSE ch.pending
              /\ s.inHand = ch.inHand
         /\ LET s == HandedOver(ch) IN
              /\ s.phase = IF ch.phase = "stopping" THEN "done" ELSE ch.phase
              /\ s.pending = IF ch.phase = "stopping" THEN {} ELSE ch.pending
              /\ s.inHand = NoReply
         /\ \A o : LET s == Sent(ch, o) IN
              /\ s.phase = ch.phase /\ s.inHand = ch.inHand
              /\ s.pending = IF ch.phase = "done" THEN ch.pending ELSE ch.pending \cup {o}
         /\ \A K : LET s == Kept(ch, K) IN
              s.phase = ch.phase /\ s.pending = K /\ s.inHand = ch.inHand
         /\ \A o, e : LET s == Received(ch, o, e) IN
              s.phase = ch.phase /\ s.pending = After(o, ch.pending) /\ s.inHand = e
BY DEF Channel, Started, Exited, StopRequested, HandedOver, Sent, Kept, Received

\* Observations without their goals.
Stripped(S) == {[frame |-> o.frame] : o \in S}

LEMMA SeenLemma ==
  ASSUME NEW ch \in Channel
  PROVE  /\ Seen(ch) = [phase |-> ch.phase, pending |-> Stripped(ch.pending),
                        inHand |-> SeenReply(ch.inHand)]
         /\ ch.inHand = NoReply <=> SeenReply(ch.inHand) = NoReply
<1>1. ch.inHand \in Embedding \cup {NoReply}
  BY DEF Channel
<1>2. ch.inHand # NoReply => [frame |-> ch.inHand.frame] # NoReply
  BY <1>1, BoundAssumption DEF Embedding, Frame, NoReply
<1> QED
  BY <1>2 DEF Seen, Stripped, SeenReply

LEMMA StrippedSets ==
  /\ Stripped({}) = {}
  /\ \A S, x : Stripped(S \cup {x}) = Stripped(S) \cup {[frame |-> x.frame]}
BY Zenon DEF Stripped

\* What the node does to a client is, as the client promises it, an operation on
\* its channel.
LEMMA SeenOperations ==
  ASSUME NEW ch \in Channel, NEW c \in Client
  PROVE  /\ Seen(Started(ch)) = Promise(c)!Started(Seen(ch))
         /\ Seen(StopRequested(ch)) = Promise(c)!StopRequested(Seen(ch))
         /\ Seen(Exited(ch)) = Promise(c)!Exited(Seen(ch))
         /\ Seen(HandedOver(ch)) = Promise(c)!HandedOver(Seen(ch))
         /\ \A obs : Seen(Sent(ch, obs)) = Promise(c)!Sent(Seen(ch), [frame |-> obs.frame])
         /\ \A S : Seen(Kept(ch, S)) = Promise(c)!Kept(Seen(ch), Stripped(S))
<1> DEFINE p == ch.phase
           P == Stripped(ch.pending)
           r == SeenReply(ch.inHand)
<1>0. /\ Seen(ch) = [phase |-> p, pending |-> P, inHand |-> r]
      /\ SeenReply(NoReply) = NoReply
  BY SeenLemma DEF SeenReply
<1>1. Seen(Started(ch)) = Promise(c)!Started(Seen(ch))
  <2> DEFINE s == Started(ch)
  <2>1. /\ s.phase = IF p = "new" THEN "running" ELSE p
        /\ s.pending = ch.pending /\ s.inHand = ch.inHand
    BY ChannelFields
  <2> HIDE DEF s
  <2>2. Seen(s) = [phase |-> s.phase, pending |-> Stripped(s.pending), inHand |-> SeenReply(s.inHand)]
    BY DEF Seen, Stripped
  <2>3. Seen(s) = [phase |-> IF p = "new" THEN "running" ELSE p, pending |-> P, inHand |-> r]
    BY <2>1, <2>2
  <2> HIDE DEF P, r, p
  <2>4. Promise(c)!Started(Seen(ch)) = Seen(s)
    BY <1>0, <2>3, StartedRecord
  <2> QED
    BY <2>4 DEF s
<1>2. Seen(StopRequested(ch)) = Promise(c)!StopRequested(Seen(ch))
  <2> DEFINE s == StopRequested(ch)
  <2>1. /\ s.phase = IF p = "new" THEN "done" ELSE IF p = "running" THEN "stopping" ELSE p
        /\ s.pending = IF p = "new" THEN {} ELSE ch.pending
        /\ s.inHand = ch.inHand
    BY ChannelFields
  <2> HIDE DEF s
  <2>2. Stripped(s.pending) = IF p = "new" THEN {} ELSE P
    BY <2>1, StrippedSets
  <2>3. Seen(s) = [phase |-> s.phase, pending |-> Stripped(s.pending), inHand |-> SeenReply(s.inHand)]
    BY DEF Seen, Stripped
  <2> HIDE DEF P, r, p
  <2>4. Seen(s) = [phase   |-> IF p = "new" THEN "done" ELSE IF p = "running" THEN "stopping" ELSE p,
                   pending |-> IF p = "new" THEN {} ELSE P,
                   inHand  |-> r]
    BY <2>1, <2>2, <2>3 DEF r
  <2>5. Promise(c)!StopRequested(Seen(ch)) = Seen(s)
    BY <1>0, <2>4, StopRecord
  <2> QED
    BY <2>5 DEF s
<1>3. Seen(Exited(ch)) = Promise(c)!Exited(Seen(ch))
  BY ChannelFields, SeenLemma, ExitedRecord DEF Seen, Stripped
<1>4. Seen(HandedOver(ch)) = Promise(c)!HandedOver(Seen(ch))
  <2> DEFINE s == HandedOver(ch)
  <2>1. /\ s.phase = IF p = "stopping" THEN "done" ELSE p
        /\ s.pending = IF p = "stopping" THEN {} ELSE ch.pending
        /\ s.inHand = NoReply
    BY ChannelFields
  <2> HIDE DEF s
  <2>2. Stripped(s.pending) = IF p = "stopping" THEN {} ELSE P
    BY <2>1, StrippedSets
  <2>3. Seen(s) = [phase |-> s.phase, pending |-> Stripped(s.pending), inHand |-> SeenReply(s.inHand)]
    BY DEF Seen, Stripped
  <2> HIDE DEF P, r, p
  <2>4. Seen(s) = IF p = "stopping" THEN [phase |-> "done", pending |-> {}, inHand |-> NoReply]
                  ELSE [phase |-> p, pending |-> P, inHand |-> NoReply]
    BY <1>0, <2>1, <2>2, <2>3
  <2>5. Promise(c)!HandedOver(Seen(ch)) = Seen(s)
    BY <1>0, <2>4, HandedOverRecord
  <2> QED
    BY <2>5 DEF s
<1>5. ASSUME NEW obs
      PROVE  Seen(Sent(ch, obs)) = Promise(c)!Sent(Seen(ch), [frame |-> obs.frame])
  <2> DEFINE s == Sent(ch, obs)
             o == [frame |-> obs.frame]
  <2>1. /\ s.phase = p /\ s.inHand = ch.inHand
        /\ s.pending = IF p = "done" THEN ch.pending ELSE ch.pending \cup {obs}
    BY ChannelFields
  <2> HIDE DEF s
  <2>2. Stripped(s.pending) = IF p = "done" THEN P ELSE P \cup {o}
    BY <2>1, StrippedSets
  <2>3. Seen(s) = [phase |-> s.phase, pending |-> Stripped(s.pending), inHand |-> SeenReply(s.inHand)]
    BY DEF Seen, Stripped
  <2> HIDE DEF P, r, p, o
  <2>4. Seen(s) = [phase |-> p, pending |-> IF p = "done" THEN P ELSE P \cup {o}, inHand |-> r]
    BY <2>1, <2>2, <2>3 DEF r
  <2>5. Promise(c)!Sent([phase |-> p, pending |-> P, inHand |-> r], o)
        = [phase |-> p, pending |-> IF p = "done" THEN P ELSE P \cup {o}, inHand |-> r]
    BY SentRecord
  <2>6. Promise(c)!Sent(Seen(ch), o) = Seen(s)
    BY <1>0, <2>4, <2>5, Zenon
  <2> QED
    BY <2>6 DEF s, o
<1>6. ASSUME NEW S
      PROVE  Seen(Kept(ch, S)) = Promise(c)!Kept(Seen(ch), Stripped(S))
  <2> DEFINE s == Kept(ch, S)
  <2>1. s.phase = p /\ s.inHand = ch.inHand /\ s.pending = S
    BY ChannelFields
  <2> HIDE DEF s
  <2>2. Seen(s) = [phase |-> s.phase, pending |-> Stripped(s.pending), inHand |-> SeenReply(s.inHand)]
    BY DEF Seen, Stripped
  <2> HIDE DEF P, r, p
  <2>3. Seen(s) = [phase |-> p, pending |-> Stripped(S), inHand |-> r]
    BY <2>1, <2>2 DEF r, p
  <2>4. Promise(c)!Kept([phase |-> p, pending |-> P, inHand |-> r], Stripped(S))
        = [phase |-> p, pending |-> Stripped(S), inHand |-> r]
    BY KeptRecord
  <2>5. Promise(c)!Kept(Seen(ch), Stripped(S)) = Seen(s)
    BY <1>0, <2>3, <2>4, Zenon
  <2> QED
    BY <2>5 DEF s
<1> QED
  BY <1>1, <1>2, <1>3, <1>4, <1>5, <1>6

\* A reply the node takes is one the client may give it.
LEMMA SeenReceived ==
  ASSUME NEW ch \in Channel, NEW c \in Client, NEW obs \in ch.pending, CanReceive(ch, obs)
  PROVE  LET o == [frame |-> obs.frame] IN
         /\ o \in Seen(ch).pending /\ Promise(c)!CanReceive(Seen(ch), o)
         /\ Seen(Received(ch, obs, ReplyTo(obs))) = Promise(c)!Received(Seen(ch), o, o)
<1> DEFINE o == [frame |-> obs.frame]
           s == Received(ch, obs, ReplyTo(obs))
<1>1. /\ ch.phase \in {"running", "stopping"} /\ ch.inHand = NoReply
      /\ obs \in Observation /\ ch.pending \subseteq Observation
  BY DEF CanReceive, Alive, Channel
<1>2. o \in Seen(ch).pending /\ Promise(c)!CanReceive(Seen(ch), o)
  BY <1>1, SeenLemma DEF Promise!CanReceive, Promise!Alive, Promise!NoReply, NoReply, Stripped
<1>3. s.phase = ch.phase /\ s.pending = After(obs, ch.pending) /\ s.inHand = ReplyTo(obs)
  BY ChannelFields
<1>4. Stripped(After(obs, ch.pending)) = Promise(c)!After(o, Stripped(ch.pending))
  BY <1>1 DEF Stripped, After, Promise!After, Observation, Frame
<1>5. SeenReply(ReplyTo(obs)) = o
  BY <1>1, BoundAssumption DEF SeenReply, ReplyTo, NoReply, Observation, Frame
<1>6. Seen(s) = [phase |-> ch.phase, pending |-> Promise(c)!After(o, Stripped(ch.pending)),
                 inHand |-> o]
  BY <1>3, <1>4, <1>5 DEF Seen, Stripped
<1>7. Seen(s) = Promise(c)!Received(Seen(ch), o, o)
  BY <1>6, SeenLemma, ReceivedRecord
<1> QED
  BY <1>2, <1>7

LEMMA OnChannelLemma ==
  ASSUME TypeOK, NEW c \in Client, NEW d, NEW ch, OnChannel(d, ch)
  PROVE  chan'[c] = IF c = d THEN ch ELSE chan[c]
BY DEF TypeOK, OnChannel

\* One step of the node is, for each of its clients, one that the client allows.
LEMMA UsesStep ==
  ASSUME TypeOK, Configured, [Next]_vars, cb' # "gone", NEW c \in Client
  PROVE  [Promise(c)!Next]_(Promise(c)!cvars)
<1> DEFINE s == Seen(chan[c])
           Same == s' = s /\ frameCounter' = frameCounter
<1> SUFFICES ASSUME ~Same
             PROVE  Promise(c)!Next
  BY DEF Promise!cvars
<1>0. chan[c] \in Channel /\ (cur # 0 => cur \in Client /\ chan[cur] \in Channel)
  BY BoundAssumption DEF TypeOK, Client
<1>1. ~(UNCHANGED <<chan, frameCounter>>)
  OBVIOUS
<1>2. CASE Activate \/ ActivateFails
  <2>1. OnChannel(cur, Started(chan[cur])) /\ frameCounter' = frameCounter
    BY <1>2 DEF Activate, ActivateFails, inputs
  <2>2. c = cur /\ chan'[c] = Started(chan[c])
    BY <2>1, OnChannelLemma
  <2>3. s' = Promise(c)!Started(s)
    BY <1>0, <2>2, SeenOperations
  <2> QED
    BY <2>1, <2>3 DEF Promise!Next, Promise!Start
<1>3. CASE BeginTransition
  <2>1. cur # 0 /\ OnChannel(cur, StopRequested(chan[cur])) /\ frameCounter' = frameCounter
    BY <1>1, <1>3 DEF BeginTransition, StopClient, inputs, remote
  <2>2. c = cur /\ chan'[c] = StopRequested(chan[c])
    BY <2>1, OnChannelLemma
  <2>3. s' = Promise(c)!StopRequested(s)
    BY <1>0, <2>2, SeenOperations
  <2> QED
    BY <2>1, <2>3 DEF Promise!Next, Promise!Stop
<1>4. CASE SendTick
  <2> DEFINE obs == [frame |-> frameCounter + 1, goal |-> goal]
             o == [frame |-> frameCounter + 1]
  <2>1. frameCounter' = frameCounter + 1
    BY <1>4 DEF SendTick
  <2>2. \/ UNCHANGED chan
        \/ OnChannel(cur, Sent(chan[cur], obs))
    BY <1>4, <2>1 DEF SendTick, remote
  <2>3. \/ chan'[c] = chan[c]
        \/ chan'[c] = Sent(chan[c], obs)
    BY <2>2, OnChannelLemma
  <2>4. Seen(Sent(chan[c], obs)) = Promise(c)!Sent(s, o)
    BY <1>0, SeenOperations
  <2>5. s' \in {s, Promise(c)!Sent(s, o)}
    BY <2>3, <2>4
  <2> QED
    BY <2>1, <2>5 DEF Promise!Next, Promise!Send
<1>5. ASSUME NEW d \in Client, TakeReply(d) PROVE Promise(c)!Next
  <2>1. /\ frameCounter' = frameCounter
        /\ \E obs \in chan[d].pending :
             /\ CanReceive(chan[d], obs)
             /\ LET ch == Received(chan[d], obs, ReplyTo(obs)) IN
                  OnChannel(d, IF cur = 0 THEN HandedOver(ch) ELSE ch)
    BY <1>5 DEF TakeReply, inputs
  <2>2. PICK obs \in chan[d].pending :
             /\ CanReceive(chan[d], obs)
             /\ LET ch == Received(chan[d], obs, ReplyTo(obs)) IN
                  OnChannel(d, IF cur = 0 THEN HandedOver(ch) ELSE ch)
    BY <2>1
  <2> DEFINE ch == Received(chan[d], obs, ReplyTo(obs))
             o == [frame |-> obs.frame]
  <2>3. c = d /\ chan'[c] = IF cur = 0 THEN HandedOver(ch) ELSE ch
    BY <2>1, <2>2, OnChannelLemma
  <2>4. ch \in Channel
    <3>1. obs \in Observation /\ ReplyTo(obs) \in Embedding
      BY <1>0, <2>2, <2>3, ThresholdAssumption DEF Channel, Observation, Embedding, ReplyTo
    <3> QED
      BY <1>0, <2>3, <3>1 DEF Channel, Received, After
  <2>5. /\ o \in s.pending /\ Promise(c)!CanReceive(s, o)
        /\ Seen(ch) = Promise(c)!Received(s, o, o)
    BY <1>0, <2>2, <2>3, SeenReceived
  <2>6. Seen(HandedOver(ch)) = Promise(c)!HandedOver(Seen(ch))
    BY <2>4, SeenOperations
  <2>7. s' \in {Promise(c)!Received(s, o, o), Promise(c)!HandedOver(Promise(c)!Received(s, o, o))}
    BY <2>3, <2>5, <2>6
  <2> QED
    BY <2>1, <2>5, <2>7 DEF Promise!Next, Promise!Receive
<1>6. ASSUME NEW d \in Client, PutReply(d) PROVE Promise(c)!Next
  <2>1. OnChannel(d, HandedOver(chan[d])) /\ frameCounter' = frameCounter /\ chan[d].inHand # NoReply
    BY <1>6 DEF PutReply, inputs
  <2>2. c = d /\ chan'[c] = HandedOver(chan[c])
    BY <2>1, OnChannelLemma
  <2>3. s' = Promise(c)!HandedOver(s) /\ s.inHand # NoReply
    BY <1>0, <2>1, <2>2, SeenOperations, SeenLemma
  <2> QED
    BY <2>1, <2>3 DEF Promise!Next, Promise!HandOver, Promise!NoReply, NoReply
<1>7. ASSUME NEW d \in Client, LoseSome(d) PROVE Promise(c)!Next
  <2>1. frameCounter' = frameCounter /\ \E S \in SUBSET chan[d].pending : OnChannel(d, Kept(chan[d], S))
    BY <1>7 DEF LoseSome, inputs
  <2>2. PICK S \in SUBSET chan[d].pending : OnChannel(d, Kept(chan[d], S))
    BY <2>1
  <2>3. c = d /\ chan'[c] = Kept(chan[c], S)
    BY <2>1, <2>2, OnChannelLemma
  <2>4. s' = Promise(c)!Kept(s, Stripped(S))
    BY <1>0, <2>3, SeenOperations
  <2>5. Stripped(S) \in SUBSET s.pending
    BY <1>0, <2>2, <2>3, SeenLemma DEF Stripped
  <2> QED
    BY <2>1, <2>4, <2>5 DEF Promise!Next, Promise!Lose
<1>8. ASSUME NEW d \in Client, ThreadExits(d) PROVE Promise(c)!Next
  <2>1. OnChannel(d, Exited(chan[d])) /\ frameCounter' = frameCounter /\ CanExit(chan[d])
    BY <1>8 DEF ThreadExits, inputs
  <2>2. c = d /\ chan'[c] = Exited(chan[c])
    BY <2>1, OnChannelLemma
  <2>3. s' = Promise(c)!Exited(s)
    BY <1>0, <2>2, SeenOperations
  <2>4. Promise(c)!CanExit(s)
    BY <1>0, <2>1, <2>2, SeenLemma DEF CanExit, Promise!CanExit, Promise!NoReply, NoReply
  <2> QED
    BY <2>1, <2>3, <2>4 DEF Promise!Next, Promise!Exit
<1>9. CASE Tick
  <2>1. chan'[c] = [chan[c] EXCEPT !.inHand = Older(@)] /\ frameCounter' = frameCounter
    BY <1>9 DEF Tick, inputs
  <2>2. /\ chan'[c].phase = chan[c].phase /\ chan'[c].pending = chan[c].pending
        /\ chan'[c].inHand = Older(chan[c].inHand)
        /\ chan[c].inHand \in Embedding \cup {NoEmbedding}
    BY <1>0, <2>1 DEF Channel, NoReply, NoEmbedding
  <2>3. SeenReply(chan'[c].inHand) = SeenReply(chan[c].inHand)
    BY <2>2, OlderLemma DEF SeenReply, NoReply, NoEmbedding
  <2> QED
    BY <2>1, <2>2, <2>3 DEF Seen
<1>10. CASE UNCHANGED vars
  BY <1>1, <1>10 DEF vars, inputs, remote
<1>11. CASE Configure \/ Deactivate \/ FinishCleanup \/ FinishShutdown \/ ProcessEnds \/ Image
            \/ GoalArrives \/ GoalInvalidates \/ ActionBegins \/ Publish
  BY <1>1, <1>11 DEF Configure, Deactivate, FinishCleanup, FinishShutdown, ProcessEnds, Image,
     GoalArrives, GoalInvalidates, ActionBegins, Publish, ActionStops, ActionPublishes,
     inputs, remote
<1> QED
  BY <1>2, <1>3, <1>4, <1>5, <1>6, <1>7, <1>8, <1>9, <1>10, <1>11 DEF Next, Silent

\* Whatever the node does to its clients, they allow; so that the channel
\* VLAClient is proved to implement is the one that EdgeNode is built on.
THEOREM ClientsUsedAsPromised == Spec => UsesChannel
<1>1. TypeOK /\ Configured /\ [Next]_vars
        => [cb' # "gone" => \A c \in Client : [Promise(c)!Next]_(Promise(c)!cvars)]_vars
  BY UsesStep
<1> QED
  BY <1>1, TypeCorrect, PTL DEF Spec, UsesChannel

-----------------------------------------------------------------------------
(* The system *)

LEMMA StepIsNodeStep == [SysNext]_sysVars => [Next]_vars
<1> SUFFICES ASSUME [SysNext]_sysVars
             PROVE  [Next]_vars
  OBVIOUS
<1>1. CASE EdgeSilent
  BY <1>1 DEF EdgeSilent, Next
<1>2. CASE EdgePublish
  BY <1>2 DEF EdgePublish, Next
<1>3. CASE OnPath
  BY <1>3 DEF OnPath
<1>4. CASE FollowerTick
  BY <1>4 DEF FollowerTick
<1>5. CASE UNCHANGED sysVars
  BY <1>5 DEF sysVars
<1> QED
  BY <1>1, <1>2, <1>3, <1>4, <1>5 DEF SysNext

\* The system implements the edge node: topic and follower add nothing to what
\* it does and take nothing away (edge_node.py in VLASystem).
THEOREM SystemImplementsNode == SysSpec => Spec
<1>1. SysInit => Init
  BY DEF SysInit
<1> QED
  BY <1>1, StepIsNodeStep, PTL DEF SysSpec, Spec

\* In the system too, the cached embedding is for the latest goal.
THEOREM SystemNoStaleGoal == ~SlowJoin => (SysSpec => []CachedGoalIsLatest)
<1> SUFFICES ASSUME ~SlowJoin
             PROVE  SysSpec => []CachedGoalIsLatest
  OBVIOUS
<1>1. Spec => []CachedGoalIsLatest
  BY NoStaleGoal
<1> QED
  BY <1>1, SystemImplementsNode, PTL

-----------------------------------------------------------------------------
LEMMA SilentPath == Silent => path' = path
BY DEF Silent, Configure, Activate, ActivateFails, ProcessEnds, Deactivate,
   BeginTransition, FinishCleanup, FinishShutdown, Image, GoalArrives, GoalInvalidates,
   SendTick, ActionBegins, TakeReply, PutReply, LoseSome, ThreadExits, Tick

LEMMA KeepLastLemma ==
  ASSUME NEW s \in Seq(AnyPath), NEW p \in AnyPath, Len(s) <= Depth
  PROVE  KeepLast(Append(s, p)) \in Seq(AnyPath) /\ Len(KeepLast(Append(s, p))) <= Depth
<1>1. Append(s, p) \in Seq(AnyPath) /\ Len(Append(s, p)) = Len(s) + 1
  OBVIOUS
<1>2. CASE Len(s) + 1 > Depth
  BY <1>1, <1>2, DepthAssumption DEF KeepLast
<1>3. CASE Len(s) + 1 <= Depth
  BY <1>1, <1>3, DepthAssumption DEF KeepLast
<1> QED
  BY <1>2, <1>3, DepthAssumption

\* The topic never holds more than its history depth, and whatever the follower
\* turns into a command is a path the edge node can publish (path_follower_node.py).
THEOREM SystemTypeCorrect == SysSpec => []SysTypeOK
<1>1. SysSpec => []TypeOK
  BY SystemImplementsNode, TypeCorrect, PTL
<1>2. SysInit /\ TypeOK => SysTypeOK
  BY DepthAssumption DEF SysInit, SysTypeOK, AnyPath
<1>3. SysTypeOK /\ TypeOK' /\ [SysNext]_sysVars => SysTypeOK'
  <2> SUFFICES ASSUME SysTypeOK, TypeOK', [SysNext]_sysVars
               PROVE  SysTypeOK'
    OBVIOUS
  <2>1. CASE EdgeSilent
    BY <2>1 DEF EdgeSilent, follower, SysTypeOK
  <2>2. CASE EdgePublish
    <3>1. path' \in AnyPath
      BY DEF TypeOK, AnyPath
    <3> QED
      BY <2>2, <3>1, KeepLastLemma DEF EdgePublish, follower, SysTypeOK
  <2>3. CASE OnPath
    <3>1. topic \in Seq(AnyPath) /\ topic # <<>> /\ Len(topic) <= Depth
      BY <2>3 DEF OnPath, SysTypeOK
    <3>2. /\ Head(topic) \in AnyPath
          /\ Tail(topic) \in Seq(AnyPath) /\ Len(Tail(topic)) = Len(topic) - 1
      BY <3>1
    <3>3. Len(Tail(topic)) <= Depth
      BY <3>1, <3>2, DepthAssumption
    <3> QED
      BY <2>3, <3>2, <3>3 DEF OnPath, SysTypeOK
  <2>4. CASE FollowerTick
    BY <2>4 DEF FollowerTick, SysTypeOK
  <2>5. CASE UNCHANGED sysVars
    BY <2>5 DEF sysVars, follower, SysTypeOK
  <2> QED
    BY <2>1, <2>2, <2>3, <2>4, <2>5 DEF SysNext
<1> QED
  BY <1>1, <1>2, <1>3, PTL DEF SysSpec

-----------------------------------------------------------------------------
(* The last path *)

LEMMA TailKeepsLast ==
  ASSUME NEW s \in Seq(AnyPath), Len(s) >= 2
  PROVE  /\ Tail(s) \in Seq(AnyPath) /\ Tail(s) # <<>>
         /\ Len(Tail(s)) = Len(s) - 1 /\ Tail(s)[Len(Tail(s))] = s[Len(s)]
<1>1. Len(Tail(s)) = Len(s) - 1 /\ Tail(s)[Len(s) - 1] = s[Len(s)]
  OBVIOUS
<1>2. Tail(s) # <<>> /\ Tail(s) \in Seq(AnyPath)
  BY <1>1
<1> QED
  BY <1>1, <1>2

LEMMA KeepLastKeeps ==
  ASSUME NEW s \in Seq(AnyPath), NEW p \in AnyPath
  PROVE  LET t == KeepLast(Append(s, p)) IN t # <<>> /\ t[Len(t)] = p
<1> DEFINE a == Append(s, p)
<1>1. a \in Seq(AnyPath) /\ Len(a) = Len(s) + 1 /\ Len(s) \in Nat /\ a[Len(a)] = p
  OBVIOUS
<1>2. CASE Len(a) > Depth
  <2>1. Len(a) >= 2 /\ KeepLast(a) = Tail(a)
    BY <1>1, <1>2, DepthAssumption DEF KeepLast
  <2> HIDE DEF a
  <2>2. Tail(a) # <<>> /\ Tail(a)[Len(Tail(a))] = p
    BY <1>1, <2>1, TailKeepsLast
  <2> QED
    BY <2>1, <2>2 DEF a
<1>3. CASE ~(Len(a) > Depth)
  BY <1>1, <1>3 DEF KeepLast
<1> QED
  BY <1>2, <1>3

\* For every depth of the topic the last path published is never lost on its
\* way to the follower (_action_tick to _on_path).
THEOREM NewestPathArrives == SysSpec => []NewestPathInLine
<1>1. SysInit => NewestPathInLine
  BY DEF SysInit, Init, NewestPathInLine
<1>2. SysTypeOK /\ TypeOK' /\ NewestPathInLine /\ [SysNext]_sysVars => NewestPathInLine'
  <2> SUFFICES ASSUME SysTypeOK, TypeOK', NewestPathInLine, [SysNext]_sysVars
               PROVE  NewestPathInLine'
    OBVIOUS
  <2>0. topic \in Seq(AnyPath)
    BY DEF SysTypeOK
  <2>1. CASE EdgeSilent
    <3>1. UNCHANGED <<path, topic, followed>>
      BY <2>1, SilentPath DEF EdgeSilent, follower
    <3> QED
      BY <3>1 DEF NewestPathInLine
  <2>2. CASE EdgePublish
    <3>1. path' \in AnyPath
      BY DEF TypeOK, AnyPath
    <3> QED
      BY <2>0, <2>2, <3>1, KeepLastKeeps DEF EdgePublish, NewestPathInLine
  <2>3. CASE OnPath
    <3>1. /\ topic # <<>> /\ followed' = Head(topic) /\ topic' = Tail(topic)
          /\ path' = path /\ path = topic[Len(topic)]
      BY <2>3 DEF OnPath, vars, NewestPathInLine
    <3>2. CASE Len(topic) = 1
      <4>1. Tail(topic) = <<>> /\ Head(topic) = topic[1]
        BY <2>0, <3>1, <3>2
      <4> QED
        BY <3>1, <3>2, <4>1 DEF NewestPathInLine
    <3>3. CASE Len(topic) > 1
      <4>1. Tail(topic) # <<>> /\ Tail(topic)[Len(Tail(topic))] = topic[Len(topic)]
        BY <2>0, <3>3, TailKeepsLast
      <4>2. topic' # <<>> /\ path' = topic'[Len(topic')]
        BY <3>1, <4>1, Zenon
      <4> QED
        BY <4>2, Zenon DEF NewestPathInLine
    <3>4. Len(topic) \in Nat /\ Len(topic) # 0
      BY <2>0, <3>1
    <3>5. Len(topic) = 1 \/ Len(topic) > 1
      BY <3>4
    <3> QED
      BY <3>2, <3>3, <3>5, Zenon
  <2>4. CASE FollowerTick
    BY <2>4 DEF FollowerTick, vars, NewestPathInLine
  <2>5. CASE UNCHANGED sysVars
    BY <2>5 DEF sysVars, vars, follower, NewestPathInLine
  <2> QED
    BY <2>1, <2>2, <2>3, <2>4, <2>5 DEF SysNext
<1> QED
  BY <1>1, <1>2, SystemTypeCorrect, PTL DEF SysSpec, SysTypeOK

\* Once the process has ended nothing of it is left that could act.
Ended ==
  /\ \A c \in Client : Alive(chan[c]) \/ chan[c].inHand = NoReply
  /\ cb = "gone" => /\ cache = EmptyCache /\ cur = 0 /\ subs = {} /\ timers = {}
                    /\ \A c \in Client : ~Alive(chan[c])

LEMMA EndedOperations ==
  ASSUME NEW ch \in Channel, Alive(ch) \/ ch.inHand = NoReply
  PROVE  \A op \in {StopRequested(ch), Started(ch), HandedOver(ch)} :
           Alive(op) \/ op.inHand = NoReply
BY ChannelFields DEF Phase, Alive

LEMMA EndedOnChannel ==
  ASSUME TypeOK, Ended, NEW d \in Client, NEW ch, OnChannel(d, ch),
         Alive(ch) \/ ch.inHand = NoReply, cb # "gone", cb' # "gone"
  PROVE  Ended'
BY OnChannelLemma DEF Ended

LEMMA EndedSame ==
  ASSUME Ended, UNCHANGED chan, cb' # "gone"
  PROVE  Ended'
BY DEF Ended

\* A process that has ended takes no more steps: even time passes unnoticed.
LEMMA GoneIsStill ==
  ASSUME TypeOK, Ended, cb = "gone", [Next]_vars
  PROVE  UNCHANGED vars
<1>1. /\ cache = EmptyCache /\ cur = 0 /\ subs = {} /\ timers = {}
      /\ \A c \in Client : ~Alive(chan[c]) /\ chan[c].inHand = NoReply
  BY DEF Ended
<1>2. CASE UNCHANGED vars
  BY <1>2
<1>3. CASE Tick
  <2>1. \A c \in Client : [chan[c] EXCEPT !.inHand = Older(@)] = chan[c]
    BY <1>1 DEF TypeOK, Channel, Older, NoReply, NoEmbedding
  <2>2. chan' = chan
    BY <1>3, <2>1 DEF Tick, TypeOK
  <2>3. cache' = cache
    BY <1>1, <1>3 DEF Tick, Aged, Older, EmptyCache, NoEmbedding
  <2> QED
    BY <1>3, <2>2, <2>3 DEF Tick, vars, remote
<1>4. CASE \E c \in Client : TakeReply(c) \/ PutReply(c) \/ LoseSome(c) \/ ThreadExits(c)
  BY <1>1, <1>4 DEF TakeReply, PutReply, LoseSome, ThreadExits, CanReceive, CanExit, Alive
<1>5. CASE Configure \/ Activate \/ ActivateFails \/ Deactivate \/ BeginTransition
           \/ FinishCleanup \/ FinishShutdown \/ ProcessEnds \/ Image \/ GoalArrives
           \/ GoalInvalidates \/ SendTick \/ ActionBegins \/ ActionStops \/ ActionPublishes
  BY <1>5 DEF Configure, Activate, ActivateFails, Deactivate, BeginTransition,
     FinishCleanup, FinishShutdown, ProcessEnds, Image, GoalArrives, GoalInvalidates,
     SendTick, ActionBegins, ActionStops, ActionPublishes
<1> QED
  BY <1>2, <1>3, <1>4, <1>5 DEF Next, Silent, Publish

LEMMA EndedStep ==
  ASSUME TypeOK, Configured, Ended, [Next]_vars
  PROVE  Ended'
<1>1. CASE cb = "gone"
  BY <1>1, GoneIsStill DEF Ended, vars, lifecycle, held, remote
<1>2. CASE ProcessEnds
  <2>1. \A c \in Client : chan[c] \in Channel
    BY DEF TypeOK
  <2>2. \A c \in Client : ~Alive(chan'[c]) /\ chan'[c].inHand = NoReply
    BY <1>2, <2>1, KilledLemma DEF ProcessEnds, Ended
  <2> QED
    BY <1>2, <2>2 DEF ProcessEnds, Ended
<1> SUFFICES ASSUME cb # "gone", ~ProcessEnds
             PROVE  Ended'
  BY <1>1, <1>2
<1>3. cb' # "gone"
  BY DEF Next, Silent, Publish, Configure, Activate, ActivateFails, Deactivate, BeginTransition,
     FinishCleanup, FinishShutdown, Image, GoalArrives, GoalInvalidates, SendTick,
     ActionBegins, ActionStops, ActionPublishes, TakeReply, PutReply, LoseSome, ThreadExits,
     Tick, lifecycle, vars
<1>4. CASE UNCHANGED chan
  BY <1>3, <1>4, EndedSame
<1>5. cur # 0 => cur \in Client /\ chan[cur] \in Channel
  BY BoundAssumption DEF TypeOK, Client
<1>6. CASE Activate \/ ActivateFails
  <2>1. OnChannel(cur, Started(chan[cur])) /\ cur # 0
    BY <1>6 DEF Activate, ActivateFails, Configured
  <2> QED
    BY <1>3, <1>5, <2>1, EndedOperations, EndedOnChannel DEF Ended
<1>7. CASE BeginTransition /\ ~UNCHANGED chan
  <2>1. OnChannel(cur, StopRequested(chan[cur])) /\ cur # 0
    BY <1>7 DEF BeginTransition, StopClient, remote
  <2> QED
    BY <1>3, <1>5, <2>1, EndedOperations, EndedOnChannel DEF Ended
<1>8. CASE SendTick /\ ~UNCHANGED chan
  <2>1. PICK obs : OnChannel(cur, Sent(chan[cur], obs)) /\ cur # 0
    BY <1>8 DEF SendTick, remote
  <2>2. LET ch == Sent(chan[cur], obs) IN Alive(ch) \/ ch.inHand = NoReply
    <3>1. Alive(chan[cur]) \/ chan[cur].inHand = NoReply
      BY <1>5, <2>1 DEF Ended
    <3> QED
      BY <1>5, <2>1, <3>1 DEF Sent, Channel, Alive
  <2> QED
    BY <1>3, <1>5, <2>1, <2>2, EndedOnChannel
<1>9. ASSUME NEW d \in Client, TakeReply(d) PROVE Ended'
  <2>1. PICK obs \in chan[d].pending :
             /\ CanReceive(chan[d], obs)
             /\ LET ch == Received(chan[d], obs, ReplyTo(obs)) IN
                  OnChannel(d, IF cur = 0 THEN HandedOver(ch) ELSE ch)
    BY <1>9 DEF TakeReply
  <2> DEFINE ch == Received(chan[d], obs, ReplyTo(obs))
  <2>2. Alive(ch) /\ ch \in Channel
    <3>1. /\ chan[d] \in Channel /\ obs \in Observation /\ ReplyTo(obs) \in Embedding
          /\ Alive(chan[d])
      BY <2>1, ThresholdAssumption DEF TypeOK, Channel, Observation, Embedding, ReplyTo, CanReceive
    <3> QED
      BY <3>1 DEF Channel, Received, After, Alive
  <2>3. LET op == IF cur = 0 THEN HandedOver(ch) ELSE ch IN Alive(op) \/ op.inHand = NoReply
    BY <2>2, EndedOperations
  <2> QED
    BY <1>3, <2>1, <2>3, EndedOnChannel
<1>10. ASSUME NEW d \in Client, PutReply(d) PROVE Ended'
  <2>1. OnChannel(d, HandedOver(chan[d])) /\ chan[d] \in Channel
    BY <1>10 DEF PutReply, TypeOK
  <2> QED
    BY <1>3, <2>1, EndedOperations, EndedOnChannel DEF Ended
<1>11. ASSUME NEW d \in Client, LoseSome(d) PROVE Ended'
  <2>1. PICK S : OnChannel(d, Kept(chan[d], S)) /\ chan[d] \in Channel
    BY <1>11 DEF LoseSome, TypeOK
  <2>2. LET ch == Kept(chan[d], S) IN Alive(ch) \/ ch.inHand = NoReply
    <3>1. Alive(chan[d]) \/ chan[d].inHand = NoReply
      BY DEF Ended
    <3> QED
      BY <2>1, <3>1 DEF Kept, Channel, Alive
  <2> QED
    BY <1>3, <2>1, <2>2, EndedOnChannel
<1>12. ASSUME NEW d \in Client, ThreadExits(d) PROVE Ended'
  <2>1. OnChannel(d, Exited(chan[d])) /\ chan[d] \in Channel /\ chan[d].inHand = NoReply
    BY <1>12 DEF ThreadExits, CanExit, TypeOK
  <2>2. Exited(chan[d]).inHand = NoReply
    BY <2>1, ChannelFields
  <2> QED
    BY <1>3, <2>1, <2>2, EndedOnChannel
<1>13. CASE Tick
  <2>1. \A c \in Client : /\ chan'[c] = [chan[c] EXCEPT !.inHand = Older(@)]
                         /\ chan[c] \in Channel
    BY <1>13 DEF Tick, TypeOK
  <2>2. \A c \in Client : /\ chan'[c].phase = chan[c].phase
                         /\ chan'[c].inHand = Older(chan[c].inHand)
    BY <2>1 DEF Channel
  <2>3. Older(NoReply) = NoReply
    BY DEF Older, NoReply, NoEmbedding
  <2>4. \A c \in Client : Alive(chan'[c]) \/ chan'[c].inHand = NoReply
    BY <2>2, <2>3 DEF Ended, Alive
  <2> QED
    BY <1>3, <2>4, Zenon DEF Ended
<1>14. CASE Configure \/ Deactivate \/ FinishCleanup \/ FinishShutdown \/ Image
            \/ GoalArrives \/ GoalInvalidates \/ ActionBegins \/ Publish \/ UNCHANGED vars
  <2>1. UNCHANGED chan
    BY <1>14 DEF Configure, Deactivate, FinishCleanup, FinishShutdown, Image, GoalArrives,
       GoalInvalidates, ActionBegins, Publish, ActionStops, ActionPublishes, remote, vars
  <2> QED
    BY <1>4, <2>1
<1> QED
  BY <1>4, <1>6, <1>7, <1>8, <1>9, <1>10, <1>11, <1>12, <1>13, <1>14 DEF Next, Silent

\* Steps of the follower that the last path is away from the wheels.
Undelivered == 2 * Len(topic) + (IF command = followed THEN 0 ELSE 1)

\* From the moment the edge process ends, every step of the system brings the
\* last path it published nearer to the wheels, and the robot is never given
\* another once it has that one: the argument behind LastPathStays, which adds
\* that the follower's executor does take its steps (main, _on_path, _tick).
THEOREM LastPathApproaches ==
  SysSpec => /\ [][cb = "gone" => path' = path /\ Undelivered' < Undelivered]_sysVars
             /\ [](Undelivered = 0 => command = path)
<1>1. SysSpec => [](TypeOK /\ Configured)
  BY SystemImplementsNode, TypeCorrect, PTL
<1>2. SysInit => Ended
  BY DEF SysInit, Init, Ended, NewChannel
<1>3. TypeOK /\ Configured /\ Ended /\ [SysNext]_sysVars => Ended'
  BY StepIsNodeStep, EndedStep
<1>4. SysTypeOK /\ Ended /\ [SysNext]_sysVars
        => [cb = "gone" => path' = path /\ Undelivered' < Undelivered]_sysVars
  <2> SUFFICES ASSUME SysTypeOK, Ended, SysNext, cb = "gone", ~UNCHANGED sysVars
               PROVE  path' = path /\ Undelivered' < Undelivered
    OBVIOUS
  <2>1. UNCHANGED vars
    BY GoneIsStill, StepIsNodeStep DEF SysTypeOK
  <2>2. ~EdgeSilent
    BY <2>1 DEF EdgeSilent, sysVars
  <2>3. ~EdgePublish
    <3>1. timers = {} /\ cb = "gone"
      BY DEF Ended
    <3> QED
      BY <3>1 DEF EdgePublish, Publish, ActionStops, ActionPublishes
  <2>4. Len(topic) \in Nat
    BY DEF SysTypeOK
  <2>5. CASE OnPath
    <3>1. Len(topic') = Len(topic) - 1 /\ Len(topic) >= 1
      BY <2>5 DEF OnPath, SysTypeOK
    <3> QED
      BY <2>1, <2>4, <3>1 DEF Undelivered, vars
  <2>6. CASE FollowerTick
    <3>1. command # followed
      BY <2>6 DEF FollowerTick, sysVars, follower
    <3> QED
      BY <2>1, <2>4, <2>6, <3>1 DEF FollowerTick, Undelivered, vars
  <2> QED
    BY <2>2, <2>3, <2>5, <2>6 DEF SysNext
<1>5. SysTypeOK /\ NewestPathInLine => (Undelivered = 0 => command = path)
  <2> SUFFICES ASSUME SysTypeOK, NewestPathInLine, Undelivered = 0
               PROVE  command = path
    OBVIOUS
  <2>1. Len(topic) \in Nat
    BY DEF SysTypeOK
  <2>2. Len(topic) = 0 /\ command = followed
    BY <2>1 DEF Undelivered
  <2>3. topic = <<>>
    BY <2>2 DEF SysTypeOK
  <2> QED
    BY <2>2, <2>3 DEF NewestPathInLine
<1> QED
  BY <1>1, <1>2, <1>3, <1>4, <1>5, SystemTypeCorrect, NewestPathArrives, PTL DEF SysSpec

-----------------------------------------------------------------------------
(* A goal on its way to the wheels *)

\* Counted from the wheels, the places of a path are the command, what the
\* follower has, and the topic.  Only the first n hold paths for another goal
\* than the latest.
ForGoal(p) == p \in {goal, StopPath}
OldWithin(n) ==
  /\ n < 1 => ForGoal(command)
  /\ n < 2 => ForGoal(followed)
  /\ \A j \in 1 .. Len(topic) : j + 2 > n => ForGoal(topic[j])

LEMMA OldWithinPublish ==
  ASSUME SysTypeOK, CachedGoalIsLatest, ~raised, goal' = goal, EdgePublish,
         NEW n \in Nat, OldWithin(n)
  PROVE  OldWithin(n)'
<1> DEFINE a == Append(topic, path')
<1>1. ForGoal(path')
  BY DEF EdgePublish, Publish, ActionStops, ActionPublishes, CachedGoalIsLatest, ForGoal
<1>2. topic \in Seq(AnyPath) /\ Len(topic) \in Nat
  BY DEF SysTypeOK
<1>3. /\ Len(a) = Len(topic) + 1 /\ a[Len(topic) + 1] = path'
      /\ \A j \in 1 .. Len(topic) : a[j] = topic[j]
  BY <1>2
<1>4. \A j \in 1 .. Len(a) : j + 2 > n => ForGoal(a[j])
  <2> TAKE j \in 1 .. Len(a)
  <2> HIDE DEF a
  <2>1. j \in 1 .. Len(topic) \/ j = Len(topic) + 1
    BY <1>2, <1>3
  <2> QED
    BY <1>1, <1>3, <2>1 DEF OldWithin
<1>5. \A j \in 1 .. Len(topic') : j + 2 > n => ForGoal(topic'[j])
  <2>1. topic' = a \/ topic' = Tail(a)
    BY DEF EdgePublish, KeepLast
  <2>2. CASE topic' = a
    BY <1>4, <2>2
  <2>3. CASE topic' = Tail(a)
    <3>1. Len(Tail(a)) = Len(a) - 1 /\ \A j \in 1 .. Len(Tail(a)) : Tail(a)[j] = a[j + 1]
      BY <1>2, <1>3
    <3> HIDE DEF a
    <3>2. \A j \in 1 .. Len(Tail(a)) : j + 1 \in 1 .. Len(a) /\ (j + 2 > n => j + 1 + 2 > n)
      BY <1>2, <1>3, <3>1
    <3> QED
      BY <1>4, <2>3, <3>1, <3>2
  <2> QED
    BY <2>1, <2>2, <2>3
<1>6. UNCHANGED <<command, followed>>
  BY DEF EdgePublish, follower
<1> QED
  BY <1>5, <1>6 DEF OldWithin, ForGoal

LEMMA OldWithinOnPath ==
  ASSUME SysTypeOK, OnPath, NEW n \in Nat, OldWithin(n)
  PROVE  OldWithin(n)' /\ (n >= 2 => OldWithin(n - 1)')
<1>1. /\ topic \in Seq(AnyPath) /\ topic # <<>> /\ followed' = Head(topic)
      /\ topic' = Tail(topic) /\ UNCHANGED <<goal, command>>
  BY DEF SysTypeOK, OnPath, vars, inputs
<1>2. /\ Len(topic) \in Nat \ {0} /\ Head(topic) = topic[1]
      /\ Len(topic') = Len(topic) - 1
      /\ \A j \in 1 .. Len(topic) - 1 : topic'[j] = topic[j + 1]
  BY <1>1
<1>3. ASSUME NEW m \in Nat, m = n \/ (m = n - 1 /\ n >= 2)
      PROVE  OldWithin(m)'
  <2>1. m < 1 => ForGoal(command)
    BY <1>3 DEF OldWithin
  <2>2. m < 2 => ForGoal(topic[1])
    <3>1. m < 2 => 1 + 2 > n /\ 1 \in 1 .. Len(topic)
      BY <1>2, <1>3
    <3> QED
      BY <3>1 DEF OldWithin
  <2>3. \A j \in 1 .. Len(topic) - 1 : j + 2 > m => ForGoal(topic[j + 1])
    <3> TAKE j \in 1 .. Len(topic) - 1
    <3>1. j + 2 > m => (j + 1) + 2 > n /\ j + 1 \in 1 .. Len(topic)
      BY <1>2, <1>3
    <3> QED
      BY <3>1 DEF OldWithin
  <2> QED
    BY <1>1, <1>2, <2>1, <2>2, <2>3 DEF OldWithin, ForGoal
<1>4. OldWithin(n)'
  BY <1>3, Zenon
<1>5. ASSUME n >= 2 PROVE OldWithin(n - 1)'
  <2> DEFINE m == n - 1
  <2>1. m \in Nat /\ m = n - 1
    BY <1>5
  <2> HIDE DEF m
  <2>2. OldWithin(m)'
    BY <1>3, <1>5, <2>1, Zenon
  <2> QED
    BY <2>1, <2>2
<1> QED
  BY <1>4, <1>5

\* From one goal to the next the paths for earlier ones only recede: they keep
\* to the places nearest to the wheels, each reception of the follower takes one
\* place from them and its tick the last.  So Depth + 1 receptions and a tick
\* after a new goal the wheels turn for it or not at all, however paths, goals
\* and embeddings overlap: the argument behind GoalTakesEffect, which adds that
\* the node does go on publishing (_on_goal to _tick).
THEOREM OldGoalsRecede ==
  ASSUME ~SlowJoin
  PROVE  SysSpec =>
           /\ []OldWithin(Depth + 2)
           /\ [][goal' = goal /\ ~raised => \A n \in Nat : OldWithin(n) =>
                   /\ OldWithin(n)'
                   /\ OnPath /\ n >= 2 => OldWithin(n - 1)'
                   /\ FollowerTick /\ n = 1 => OldWithin(0)']_sysVars
<1>1. SysTypeOK => OldWithin(Depth + 2)
  BY DepthAssumption DEF SysTypeOK, OldWithin
<1>2. SysTypeOK /\ CachedGoalIsLatest /\ [SysNext]_sysVars
        => [goal' = goal /\ ~raised => \A n \in Nat : OldWithin(n) =>
              /\ OldWithin(n)'
              /\ OnPath /\ n >= 2 => OldWithin(n - 1)'
              /\ FollowerTick /\ n = 1 => OldWithin(0)']_sysVars
  <2> SUFFICES ASSUME SysTypeOK, CachedGoalIsLatest, SysNext, goal' = goal, ~raised,
                      NEW n \in Nat, OldWithin(n)
               PROVE  /\ OldWithin(n)'
                      /\ OnPath /\ n >= 2 => OldWithin(n - 1)'
                      /\ FollowerTick /\ n = 1 => OldWithin(0)'
    OBVIOUS
  <2>1. OnPath => OldWithin(n)' /\ (n >= 2 => OldWithin(n - 1)')
    BY OldWithinOnPath
  <2>2. FollowerTick => OldWithin(n)' /\ (n = 1 => OldWithin(0)')
    BY DEF FollowerTick, OldWithin, ForGoal
  <2>3. EdgePublish => OldWithin(n)'
    BY OldWithinPublish
  <2>4. EdgeSilent => OldWithin(n)'
    BY DEF EdgeSilent, follower, OldWithin, ForGoal
  <2> QED
    BY <2>1, <2>2, <2>3, <2>4 DEF SysNext
<1>3. SysSpec => []CachedGoalIsLatest
  BY SystemNoStaleGoal
<1> QED
  BY <1>1, <1>2, <1>3, SystemTypeCorrect, PTL DEF SysSpec
=============================================================================
