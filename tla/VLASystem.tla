----------------------------- MODULE VLASystem -----------------------------
(***************************************************************************)
(* The edge node together with the path follower                           *)
(* (raspicat_vla_edge/path_follower_node.py), a process of its own that    *)
(* turns the last path received into /cmd_vel at a fixed rate.  Between    *)
(* them is a topic that keeps the last Depth messages not yet taken.       *)
(* A command is identified by the path it is computed from: StopPath is    *)
(* zero Twist, which PurePursuit gives for a path without poses.           *)
(***************************************************************************)
EXTENDS EdgeNode, Sequences

CONSTANT Depth   \* history depth of the path topic

ASSUME DepthAssumption == Depth \in Nat \ {0}

VARIABLES
  topic,     \* paths published and not yet taken, oldest first
  followed,  \* the follower's _latest
  command    \* the path behind the last /cmd_vel

follower == <<followed, command>>
sysVars == <<vars, topic, follower>>

AnyPath == Goal \cup {StopPath}

SysTypeOK ==
  /\ TypeOK
  /\ topic \in Seq(AnyPath) /\ Len(topic) <= Depth
  /\ followed \in AnyPath /\ command \in AnyPath

SysInit == Init /\ topic = <<>> /\ followed = StopPath /\ command = StopPath

\* Faulty: an unbounded topic.
KeepAll(s) == s

\* Faulty: a full topic refuses the newest.
KeepFirst(s) == IF Len(s) > Depth THEN SubSeq(s, 1, Depth) ELSE s

KeepLast(s) == IF Len(s) > Depth THEN Tail(s) ELSE s

EdgeSilent == Silent /\ UNCHANGED <<topic, follower>>

EdgePublish ==
  /\ Publish
  /\ topic' = KeepLast(Append(topic, path'))
  /\ UNCHANGED follower

\* Faulty: an empty path is taken for no news.
OnPathSkipsEmpty ==
  /\ topic # <<>>
  /\ followed' = IF Head(topic) = StopPath THEN followed ELSE Head(topic)
  /\ topic' = Tail(topic)
  /\ UNCHANGED <<vars, command>>

\* _on_path; the edge node's paths are always in the expected frame.
OnPath ==
  /\ topic # <<>>
  /\ followed' = Head(topic) /\ topic' = Tail(topic)
  /\ UNCHANGED <<vars, command>>

\* _tick publishes whatever path was received last, however long ago.
FollowerTick ==
  /\ command' = followed
  /\ UNCHANGED <<vars, topic, followed>>

SysNext == EdgeSilent \/ EdgePublish \/ OnPath \/ FollowerTick

SysSpec == SysInit /\ [][SysNext]_sysVars

Run(A) == A /\ UNCHANGED <<topic, follower>>

\* Timers, callbacks and threads are served in the end.  The executor takes
\* ready timers in turn, so one that is ready again and again between other
\* callbacks is not passed over for ever; likewise for the follower's own
\* executor.  The join in stop() returns, by its timeout if need be.  Nothing is
\* asked of the operator, the topics or the remote, nor that a stopped client's
\* thread ever ends: a remote that is silent keeps it in its stream.
Fairness ==
  /\ WF_sysVars(Run(Tick)) /\ WF_sysVars(Run(GoalInvalidates))
  /\ WF_sysVars(Run(FinishCleanup)) /\ WF_sysVars(Run(FinishShutdown))
  /\ SF_sysVars(Run(ActionBegins)) /\ SF_sysVars(EdgePublish)
  /\ \A c \in Client : WF_sysVars(Run(PutReply(c)))
  /\ WF_sysVars(OnPath) /\ WF_sysVars(FollowerTick)

FairSpec == SysSpec /\ Fairness

-----------------------------------------------------------------------------
\* What the topic throws away when it is full is never the last path published:
\* that one is at the end of the line, or with the follower (_on_path, depth of
\* the path publisher and subscription).
NewestPathInLine ==
  path = IF topic = <<>> THEN followed ELSE topic[Len(topic)]

\* A goal takes effect on the wheels: while the timers run, a command computed
\* for an earlier goal gives way to one for this goal or to zero, through
\* invalidation, the topic and the follower (_on_goal to _tick).
GoalTakesEffect ==
  \A g \in Goal :
    goal = g /\ "pair" \in timers
      ~> command \in {g, StopPath} \/ goal # g \/ "pair" \notin timers

\* A node shut down while active ends up stopping the robot for good: its
\* timers survive on_shutdown, its client does not, so the cache runs stale.
ShutdownStops ==
  lc = "finalized" /\ "pair" \in timers ~> [](command = StopPath) \/ cb = "gone"

\* When the edge process ends, the follower goes on for ever with the last path
\* it published, not with an earlier one and not with zero: every path gets
\* through, none is overtaken, and nobody stops the robot (main, _on_path, _tick).
LastPathStays == cb = "gone" ~> [](command = path)

\* The design calls the transition "deactivate (safe-stop)": a node that is
\* deactivated and stays so leaves the robot with zero velocity (on_deactivate).
DeactivateStops == lc = "inactive" ~> command = StopPath \/ lc # "inactive"
=============================================================================
