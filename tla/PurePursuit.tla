---------------------------- MODULE PurePursuit ----------------------------
(***************************************************************************)
(* PurePursuit.compute of raspicat_vla_edge/pure_pursuit.py, and the       *)
(* follower that calls it with the robot at the origin of the path's frame *)
(* (path_follower_node.py), so that a waypoint's coordinates are already   *)
(* those seen from the robot.                                              *)
(*                                                                         *)
(* Lengths are integers, in a unit small enough for the paths of interest; *)
(* speeds are in units per second.  A yaw rate is an exact fraction.  The  *)
(* floats of the code round; they do not change a sign or a comparison on  *)
(* these values.  Negative zero is not modelled.  Infinities and NaN are:  *)
(* an embedding is sent in half precision, where what is over 65504 is     *)
(* infinite, and nobody looks at a waypoint before compute() does.         *)
(***************************************************************************)
EXTENDS Integers, Sequences

CONSTANTS
  Lookahead,  \* lookahead
  MaxV,       \* max_v
  WNum, WDen, \* max_w, in rad/s: WNum / WDen
  Inf, MinusInf, NaN,
  Arriving,   \* bound: the paths that arrive
  MaxPoses    \* bound: the length of a path

\* kw * pi/2, the least turn demanded by a target behind the robot, is over 2
\* with the default kw = 1.5, the only one in use: such a turn is at max_w.
ASSUME PursuitAssumption ==
  /\ Lookahead \in Nat \ {0} /\ MaxV \in Nat \ {0}
  /\ WNum \in Nat \ {0} /\ WDen \in Nat \ {0} /\ WNum <= 2 * WDen
  /\ MaxPoses \in Nat

NonFinite == {Inf, MinusInf, NaN}

ASSUME FloatAssumption ==
  /\ Inf # MinusInf /\ Inf # NaN /\ MinusInf # NaN
  /\ \A f \in NonFinite : f \notin Int

VARIABLES
  latest,   \* the follower's _latest
  twist     \* the last command published; Zero before the first

vars == <<latest, twist>>

Waypoint == [x : NonFinite \cup Int, y : NonFinite \cup Int]
Path == {p \in Seq(Waypoint) : Len(p) <= MaxPoses}

ASSUME ArrivingAssumption == Arriving \subseteq Path

Zero == [linear |-> 0, num |-> 0, den |-> 1]
Command == [linear : Int, num : {NaN} \cup Int, den : Nat \ {0}]

Finite(p) == p.x \notin NonFinite /\ p.y \notin NonFinite

SquaredDistance(p) == p.x * p.x + p.y * p.y

\* At the lookahead distance or further.  hypot() of an infinity is infinite,
\* that of NaN and a number is NaN, which compares false.
Out(p) ==
  IF Finite(p) THEN SquaredDistance(p) >= Lookahead * Lookahead
  ELSE {p.x, p.y} \cap {Inf, MinusInf} # {}

\* Faulty: the last waypoint that is near enough.
TargetNear(path) ==
  LET near == {i \in 1 .. Len(path) : ~Out(path[i])} IN
  IF near = {} THEN path[1] ELSE path[CHOOSE i \in near : \A j \in near : j <= i]

\* The first waypoint out there, else the last.
Target(path) ==
  LET far == {i \in 1 .. Len(path) : Out(path[i])} IN
  IF far = {} THEN path[Len(path)] ELSE path[CHOOSE i \in far : \A j \in far : i <= j]

Sign(n) == IF n > 0 THEN 1 ELSE IF n < 0 THEN -1 ELSE 0

\* Behind the robot, or beside it: turn on the spot.  Straight behind atan2
\* gives pi, and at the origin 0.
TurnOnly(t) ==
  [linear |-> 0,
   num |-> WNum * (IF t.y = 0 THEN Sign(-t.x) ELSE Sign(t.y)),
   den |-> WDen]

Clamped(num, den) ==
  IF num * WDen > WNum * den \/ -num * WDen > WNum * den
  THEN [num |-> WNum * Sign(num), den |-> WDen]
  ELSE [num |-> num, den |-> den]

\* Faulty: as fast as the target is far.
LinearUnlimited(t) == t.x

Linear(t) == IF t.x < MaxV THEN t.x ELSE MaxV

\* The curvature is 2y / (x^2 + y^2).  Nothing ahead is near enough for the
\* code's test for a target in the robot (l_sq < 1e-9).
Arc(t) ==
  LET turn == Clamped(Linear(t) * 2 * t.y, SquaredDistance(t)) IN
  [linear |-> Linear(t), num |-> turn.num, den |-> turn.den]

\* Faulty: a target beside the robot counts as ahead.
BehindOnly(t) == t.x < 0

Behind(t) == t.x <= 0

\* Zero times a coordinate that is not finite is NaN, which the clamps treat in
\* three ways: min(max_w, NaN) is max_w, max(0, NaN) is 0, and no comparison
\* keeps NaN from being the yaw rate.
NonFiniteCommand(t) ==
  IF t.x = MinusInf /\ t.y \notin NonFinite
  THEN [linear |-> 0, num |-> WNum, den |-> WDen]
  ELSE [linear |-> IF t.x = Inf /\ t.y \notin NonFinite THEN MaxV ELSE 0,
        num |-> NaN, den |-> 1]

Compute(path) ==
  LET t == Target(path) IN
  IF path = <<>> THEN Zero
  ELSE IF ~Finite(t) THEN NonFiniteCommand(t)
  ELSE IF Behind(t) THEN TurnOnly(t) ELSE Arc(t)

-----------------------------------------------------------------------------
Init == latest = <<>> /\ twist = Zero

\* A path in another frame than the expected one counts as empty.
OnPath ==
  /\ latest' \in Arriving \cup {<<>>}
  /\ UNCHANGED twist

Tick ==
  /\ twist' = Compute(latest)
  /\ UNCHANGED latest

-----------------------------------------------------------------------------
TypeOK ==
  /\ latest \in Path
  /\ twist \in Command

\* Whatever path arrives, the command never drives backward or faster than
\* max_v, and a yaw rate that is a number is within max_w (compute: three
\* branches, two clamps).
CommandBounded ==
  /\ twist.linear \in 0 .. MaxV
  /\ twist.num # NaN => /\ twist.num * WDen <= WNum * twist.den
                        /\ -twist.num * WDen <= WNum * twist.den

\* The reference for Target: what the loop over the path stops at.
IsTarget(path, n) ==
  /\ n = Len(path) \/ Out(path[n])
  /\ \A i \in 1 .. (n - 1) : ~Out(path[i])

Suits(t, cmd) ==
  /\ cmd.num # NaN
  /\ cmd.linear > 0 <=> t.x > 0
  /\ t.y # 0 => Sign(cmd.num) = Sign(t.y)
  /\ cmd.linear = 0 /\ cmd.num = 0 <=> t.x = 0 /\ t.y = 0

\* Every new command suits the waypoint to aim at: it turns to its side, goes
\* forward only if it is ahead, and is zero only if it is where the robot is or
\* if there is no path; and that waypoint is the first one out of the lookahead
\* circle, or else the last.  A yaw rate that is no number comes of a waypoint
\* to aim at that is none; others on the path do no harm (compute, _tick).
AimsAtTarget ==
  [][twist' # twist =>
      \/ latest = <<>> /\ twist' = Zero
      \/ \E n \in 1 .. Len(latest) :
           IsTarget(latest, n) /\ (Finite(latest[n]) => Suits(latest[n], twist'))]_vars
=============================================================================
