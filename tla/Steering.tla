------------------------------ MODULE Steering ------------------------------
(***************************************************************************)
(* The follower on the paths of AsyncVLA's adapter                         *)
(* (raspicat_vla_edge/adapters/asyncvla.py), whose network gives steps,    *)
(* each relative to the pose before, that the adapter adds up.  The        *)
(* headings are quarter turns, so that sines and cosines are integers.     *)
(* The paths of the other adapters are Arriving.                           *)
(***************************************************************************)
EXTENDS PurePursuit

CONSTANTS
  Horizon,   \* the number of steps the network predicts
  Step       \* bound: the steps it may predict

ASSUME SteeringAssumption == Horizon \in 1 .. MaxPoses /\ Step \subseteq [x : Int, y : Int, turn : 0 .. 3]

VARIABLE delta   \* the prediction behind the latest path; <<>> of another adapter

steeringVars == <<vars, delta>>

Cos(q) == <<1, 0, -1, 0>>[q + 1]
Sin(q) == <<0, 1, 0, -1>>[q + 1]

\* A point seen from a pose, seen from where the pose is seen.
FromPose(pose, p) ==
  [x |-> pose.x + Cos(pose.turn) * p.x - Sin(pose.turn) * p.y,
   y |-> pose.y + Sin(pose.turn) * p.x + Cos(pose.turn) * p.y]

\* Faulty: the turn of a step comes before it.
MovedTurnFirst(pose, d) ==
  LET turn == (pose.turn + d.turn) % 4
      p == FromPose([pose EXCEPT !.turn = turn], d)
  IN  [x |-> p.x, y |-> p.y, turn |-> turn]

Moved(pose, d) ==
  LET p == FromPose(pose, d) IN [x |-> p.x, y |-> p.y, turn |-> (pose.turn + d.turn) % 4]

\* The loop: the first step is a pose as it is.
DeltaToPose(ds) ==
  LET pose[t \in DOMAIN ds] == IF t = 1 THEN ds[1] ELSE Moved(pose[t - 1], ds[t]) IN pose

Positions(ds) ==
  LET pose == DeltaToPose(ds) IN [t \in DOMAIN ds |-> [x |-> pose[t].x, y |-> pose[t].y]]

SteeringInit == Init /\ delta = <<>>

\* predict_path, and the follower's _on_path with what comes of it.
OnDelta ==
  /\ delta' \in [1 .. Horizon -> Step]
  /\ latest' = Positions(delta')
  /\ UNCHANGED twist

SteeringNext ==
  \/ OnDelta
  \/ OnPath /\ delta' = <<>>
  \/ Tick /\ UNCHANGED delta

SteeringSpec == SteeringInit /\ [][SteeringNext]_steeringVars

-----------------------------------------------------------------------------
\* The path is one rigid motion after another: it begins with the first step,
\* and what follows is the path of the other steps seen from the pose that step
\* leads to, whatever turns there are on the way (_delta_to_pose_np).
PathIsRigid ==
  delta # <<>> =>
    /\ latest[1] = [x |-> delta[1].x, y |-> delta[1].y]
    /\ LET rest == Positions(Tail(delta)) IN
         \A t \in 2 .. Len(delta) : latest[t] = FromPose(delta[1], rest[t - 1])
=============================================================================
