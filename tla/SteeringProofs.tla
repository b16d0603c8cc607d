-------------------------- MODULE SteeringProofs --------------------------
(***************************************************************************)
(* Proofs about Steering, for every lookahead, every limit on the speeds,  *)
(* every horizon, and paths of any length through any points, finite or    *)
(* not.  What the loop over the predicted steps computes is shown by       *)
(* looking at the first step at which it would go wrong.                   *)
(***************************************************************************)
EXTENDS Steering, WellFoundedInduction, TLAPS

(* Which waypoint is the target *)

LEMMA LeastNatural ==
  ASSUME NEW T \in SUBSET Nat, T # {}
  PROVE  \E x \in T : \A y \in T : x <= y
<1> DEFINE R == OpToRel(<, Nat)
<1>1. IsWellFoundedOn(R, Nat)
  BY NatLessThanWellFounded
<1>2. \A x, y \in Nat : <<x, y>> \in R <=> x < y
  BY DEF OpToRel
<1> HIDE DEF R
<1>3. PICK x \in T : \A y \in T : ~(<<y, x>> \in R)
  BY <1>1, WFMin
<1>4. \A y \in T : ~(y < x)
  BY <1>2, <1>3
<1>5. \A y \in T : x <= y
  BY <1>4
<1> QED
  BY <1>5

LEMMA PathLemma ==
  ASSUME NEW path \in Path
  PROVE  /\ Len(path) \in Nat
         /\ path \in [1 .. Len(path) -> Waypoint]
         /\ path # <<>> => Len(path) > 0
BY DEF Path

\* Target finds what the loop of compute() stops at.
LEMMA TargetLemma ==
  ASSUME NEW path \in Path, path # <<>>
  PROVE  \E n \in 1 .. Len(path) : Target(path) = path[n] /\ IsTarget(path, n)
<1> DEFINE far == {i \in 1 .. Len(path) : Out(path[i])}
<1>1. Len(path) \in Nat /\ Len(path) > 0
  BY PathLemma
<1>2. CASE far = {}
  <2>1. Target(path) = path[Len(path)]
    BY <1>2 DEF Target
  <2>2. IsTarget(path, Len(path))
    BY <1>1, <1>2 DEF IsTarget
  <2> QED
    BY <1>1, <2>1, <2>2
<1>3. CASE far # {}
  <2> DEFINE n == CHOOSE i \in far : \A j \in far : i <= j
  <2>1. \E i \in far : \A j \in far : i <= j
    <3>1. far \in SUBSET Nat
      BY <1>1
    <3> QED
      BY <1>3, <3>1, LeastNatural
  <2>2. n \in far /\ \A j \in far : n <= j
    BY <2>1
  <2>3. Target(path) = path[n]
    BY <1>3 DEF Target
  <2> HIDE DEF n
  <2>4. IsTarget(path, n)
    BY <1>1, <2>2 DEF IsTarget
  <2> QED
    BY <2>2, <2>3, <2>4
<1> QED
  BY <1>2, <1>3

-----------------------------------------------------------------------------
(* The command for a target *)

LEMMA SignLemma ==
  ASSUME NEW n \in Int
  PROVE  /\ Sign(n) \in {-1, 0, 1}
         /\ Sign(n) = 0 <=> n = 0
         /\ Sign(n) = 1 <=> n > 0
         /\ Sign(n) = -1 <=> n < 0
BY DEF Sign

\* Commands with a number for a yaw rate, ...
Proper(cmd) ==
  /\ cmd \in Command
  /\ cmd.linear \in 0 .. MaxV
  /\ cmd.num \in Int
  /\ cmd.num * WDen <= WNum * cmd.den
  /\ -cmd.num * WDen <= WNum * cmd.den

\* ... and all that the chassis is given.
Bounded(cmd) ==
  /\ cmd \in Command
  /\ cmd.linear \in 0 .. MaxV
  /\ cmd.num = NaN \/ Proper(cmd)

LEMMA NumberLemma ==
  ASSUME NEW n \in Int
  PROVE  n # NaN
BY FloatAssumption DEF NonFinite

LEMMA FiniteLemma ==
  ASSUME NEW t \in Waypoint, Finite(t)
  PROVE  t.x \in Int /\ t.y \in Int
BY DEF Waypoint, Finite

LEMMA TurnOnlyLemma ==
  ASSUME NEW t \in Waypoint, Finite(t), Behind(t)
  PROVE  Proper(TurnOnly(t)) /\ Suits(t, TurnOnly(t))
<1> DEFINE s == IF t.y = 0 THEN Sign(-t.x) ELSE Sign(t.y)
<1>1. t.x \in Int /\ t.y \in Int /\ t.x <= 0
  BY FiniteLemma DEF Behind
<1>2. /\ s \in {-1, 0, 1}
      /\ t.y # 0 => s = Sign(t.y)
      /\ s = 0 <=> t.x = 0 /\ t.y = 0
  BY <1>1, SignLemma
<1>3. TurnOnly(t) = [linear |-> 0, num |-> WNum * s, den |-> WDen]
  BY DEF TurnOnly
<1> HIDE DEF s
<1>4. WNum \in Nat \ {0} /\ WDen \in Nat \ {0} /\ MaxV \in Nat
  BY PursuitAssumption
<1>5. WNum * WDen >= 0 /\ WNum * WDen \in Int
  BY <1>4
<1>6. WNum * s \in {WNum, 0, -WNum}
  BY <1>2, <1>4
<1>7. Sign(WNum * s) = s
  BY <1>2, <1>4 DEF Sign
<1>8. Proper(TurnOnly(t))
  BY <1>3, <1>4, <1>5, <1>6 DEF Proper, Command
<1>9. Suits(t, TurnOnly(t))
  <2>1. WNum * s = 0 <=> s = 0
    BY <1>2, <1>4
  <2>2. WNum * s # NaN
    <3>1. WNum * s \in Int
      BY <1>4, <1>6
    <3> QED
      BY <3>1, NumberLemma
  <2> QED
    BY <1>1, <1>2, <1>3, <1>7, <2>1, <2>2 DEF Suits
<1> QED
  BY <1>8, <1>9

LEMMA ClampLemma ==
  ASSUME NEW num \in Int, NEW den \in Nat \ {0}
  PROVE  LET turn == Clamped(num, den) IN
         /\ turn.num \in Int /\ turn.den \in Nat \ {0}
         /\ turn.num * WDen <= WNum * turn.den
         /\ -turn.num * WDen <= WNum * turn.den
         /\ Sign(turn.num) = Sign(num)
<1>1. WNum \in Nat \ {0} /\ WDen \in Nat \ {0}
  BY PursuitAssumption
<1>2. CASE num * WDen > WNum * den \/ -num * WDen > WNum * den
  <2>1. Clamped(num, den).num = WNum * Sign(num) /\ Clamped(num, den).den = WDen
    BY <1>2 DEF Clamped
  <2>2. Sign(num) \in {-1, 0, 1}
    BY SignLemma
  <2>3. WNum * Sign(num) \in {WNum, 0, -WNum} /\ Sign(WNum * Sign(num)) = Sign(num)
    BY <1>1, <2>2 DEF Sign
  <2>4. WNum * WDen >= 0 /\ WNum * WDen \in Int /\ WNum * Sign(num) \in Int
    BY <1>1, <2>3
  <2>5. /\ (WNum * Sign(num)) * WDen <= WNum * WDen
        /\ -(WNum * Sign(num)) * WDen <= WNum * WDen
    BY <1>1, <2>3, <2>4
  <2> QED
    BY <1>1, <2>1, <2>3, <2>4, <2>5
<1>3. CASE ~(num * WDen > WNum * den \/ -num * WDen > WNum * den)
  <2>1. Clamped(num, den).num = num /\ Clamped(num, den).den = den
    BY <1>3 DEF Clamped
  <2>2. num * WDen \in Int /\ -num * WDen \in Int /\ WNum * den \in Int
    BY <1>1
  <2>3. num * WDen <= WNum * den /\ -num * WDen <= WNum * den
    BY <1>3, <2>2
  <2> QED
    BY <2>1, <2>3
<1> QED
  BY <1>2, <1>3

LEMMA ArcLemma ==
  ASSUME NEW t \in Waypoint, Finite(t), ~Behind(t)
  PROVE  Proper(Arc(t)) /\ Suits(t, Arc(t))
<1> DEFINE num == Linear(t) * 2 * t.y
           turn == Clamped(num, SquaredDistance(t))
<1>1. t.x \in Int /\ t.y \in Int /\ t.x > 0 /\ MaxV \in Nat \ {0}
  <2>1. MaxV \in Nat \ {0}
    BY PursuitAssumption
  <2>2. t.x \in Int /\ t.y \in Int
    BY FiniteLemma
  <2> QED
    BY <2>1, <2>2 DEF Behind
<1>2. Linear(t) \in 1 .. MaxV
  BY <1>1 DEF Linear
<1>3. SquaredDistance(t) \in Nat \ {0}
  <2>1. t.x * t.x > 0 /\ t.y * t.y >= 0
    BY <1>1
  <2>2. t.x * t.x \in Int /\ t.y * t.y \in Int
    BY <1>1
  <2> QED
    BY <2>1, <2>2 DEF SquaredDistance
<1>4. num \in Int /\ Sign(num) = Sign(t.y)
  BY <1>1, <1>2 DEF Sign
<1>5. Arc(t) = [linear |-> Linear(t), num |-> turn.num, den |-> turn.den]
  BY DEF Arc
<1> HIDE DEF num
<1>6. /\ turn.num \in Int /\ turn.den \in Nat \ {0}
      /\ turn.num * WDen <= WNum * turn.den
      /\ -turn.num * WDen <= WNum * turn.den
      /\ Sign(turn.num) = Sign(num)
  BY <1>3, <1>4, ClampLemma
<1> HIDE DEF turn
<1>7. Proper(Arc(t))
  BY <1>1, <1>2, <1>5, <1>6 DEF Proper, Command
<1>8. Suits(t, Arc(t))
  BY <1>1, <1>2, <1>4, <1>5, <1>6, NumberLemma DEF Suits
<1> QED
  BY <1>7, <1>8

LEMMA NonFiniteLemma ==
  ASSUME NEW t
  PROVE  Bounded(NonFiniteCommand(t))
<1>1. WNum \in Nat \ {0} /\ WDen \in Nat \ {0} /\ MaxV \in Nat
  BY PursuitAssumption
<1>2. CASE t.x = MinusInf /\ t.y \notin NonFinite
  <2>1. NonFiniteCommand(t) = [linear |-> 0, num |-> WNum, den |-> WDen]
    BY <1>2 DEF NonFiniteCommand
  <2>2. -WNum * WDen <= WNum * WDen
    <3>1. WNum * WDen >= 0 /\ WNum * WDen \in Int
      BY <1>1
    <3> QED
      BY <1>1, <3>1
  <2> QED
    BY <1>1, <2>1, <2>2 DEF Bounded, Proper, Command
<1>3. CASE ~(t.x = MinusInf /\ t.y \notin NonFinite)
  BY <1>1, <1>3 DEF NonFiniteCommand, Bounded, Command
<1> QED
  BY <1>2, <1>3

LEMMA ComputeLemma ==
  ASSUME NEW path \in Path
  PROVE  /\ Bounded(Compute(path))
         /\ \/ path = <<>> /\ Compute(path) = Zero
            \/ \E n \in 1 .. Len(path) :
                 IsTarget(path, n) /\ (Finite(path[n]) => Suits(path[n], Compute(path)))
<1>1. CASE path = <<>>
  <2>1. Compute(path) = Zero
    BY <1>1 DEF Compute
  <2>2. Bounded(Zero)
    BY PursuitAssumption DEF Bounded, Proper, Zero, Command
  <2> QED
    BY <1>1, <2>1, <2>2
<1>2. CASE path # <<>>
  <2>1. PICK n \in 1 .. Len(path) : Target(path) = path[n] /\ IsTarget(path, n)
    BY <1>2, TargetLemma
  <2> DEFINE t == Target(path)
  <2>2. t \in Waypoint
    BY <2>1, PathLemma
  <2>3. Compute(path) = IF ~Finite(t) THEN NonFiniteCommand(t)
                        ELSE IF Behind(t) THEN TurnOnly(t) ELSE Arc(t)
    BY <1>2 DEF Compute
  <2> HIDE DEF t
  <2>4. CASE ~Finite(t)
    BY <2>1, <2>3, <2>4, NonFiniteLemma DEF t
  <2>5. CASE Finite(t)
    <3>1. Proper(Compute(path)) /\ Suits(t, Compute(path))
      BY <2>2, <2>3, <2>5, TurnOnlyLemma, ArcLemma
    <3>2. Bounded(Compute(path))
      BY <3>1 DEF Bounded, Proper
    <3> QED
      BY <2>1, <3>1, <3>2 DEF t
  <2> QED
    BY <2>4, <2>5
<1> QED
  BY <1>1, <1>2

-----------------------------------------------------------------------------
(* The headings *)

Pose == [x : Int, y : Int, turn : 0 .. 3]

LEMMA QuarterTurns ==
  /\ Cos(0) = 1 /\ Cos(1) = 0 /\ Cos(2) = -1 /\ Cos(3) = 0
  /\ Sin(0) = 0 /\ Sin(1) = 1 /\ Sin(2) = 0 /\ Sin(3) = -1
BY DEF Cos, Sin

LEMMA MovedType ==
  ASSUME NEW p \in Pose, NEW d \in Pose
  PROVE  Moved(p, d) \in Pose
<1>1. Cos(p.turn) \in Int /\ Sin(p.turn) \in Int
  BY QuarterTurns DEF Pose
<1>2. FromPose(p, d).x \in Int /\ FromPose(p, d).y \in Int
  BY <1>1 DEF FromPose, Pose
<1>3. (p.turn + d.turn) % 4 \in 0 .. 3
  BY DEF Pose
<1> QED
  BY <1>2, <1>3 DEF Moved, Pose

\* A rigid motion after another is a rigid motion.
LEMMA MovedAssociative ==
  ASSUME NEW p \in Pose, NEW q \in Pose, NEW r \in Pose
  PROVE  Moved(Moved(p, q), r) = Moved(p, Moved(q, r))
<1> DEFINE pq == Moved(p, q)
           qr == Moved(q, r)
<1>1. pq \in Pose /\ qr \in Pose
  BY MovedType
<1>2. /\ pq.x = p.x + Cos(p.turn) * q.x - Sin(p.turn) * q.y
      /\ pq.y = p.y + Sin(p.turn) * q.x + Cos(p.turn) * q.y
      /\ pq.turn = (p.turn + q.turn) % 4
      /\ qr.x = q.x + Cos(q.turn) * r.x - Sin(q.turn) * r.y
      /\ qr.y = q.y + Sin(q.turn) * r.x + Cos(q.turn) * r.y
      /\ qr.turn = (q.turn + r.turn) % 4
  BY DEF Moved, FromPose
<1> HIDE DEF pq, qr
<1>3. /\ p.turn \in 0 .. 3 /\ q.turn \in 0 .. 3 /\ r.turn \in 0 .. 3
      /\ p.x \in Int /\ p.y \in Int /\ q.x \in Int /\ q.y \in Int /\ r.x \in Int /\ r.y \in Int
  BY DEF Pose
<1>4. (pq.turn + r.turn) % 4 = (p.turn + qr.turn) % 4
  BY <1>2, <1>3
<1>5. /\ pq.x + Cos(pq.turn) * r.x - Sin(pq.turn) * r.y =
            p.x + Cos(p.turn) * qr.x - Sin(p.turn) * qr.y
      /\ pq.y + Sin(pq.turn) * r.x + Cos(pq.turn) * r.y =
            p.y + Sin(p.turn) * qr.x + Cos(p.turn) * qr.y
  <2>1. CASE p.turn = 0
    <3>1. pq.turn = q.turn
      BY <1>2, <1>3, <2>1
    <3> QED
      BY <1>2, <1>3, <2>1, <3>1, QuarterTurns
  <2>2. CASE p.turn = 1
    <3>1. \/ q.turn = 0 /\ pq.turn = 1
          \/ q.turn = 1 /\ pq.turn = 2
          \/ q.turn = 2 /\ pq.turn = 3
          \/ q.turn = 3 /\ pq.turn = 0
      BY <1>2, <1>3, <2>2
    <3> QED
      BY <1>2, <1>3, <2>2, <3>1, QuarterTurns
  <2>3. CASE p.turn = 2
    <3>1. \/ q.turn = 0 /\ pq.turn = 2
          \/ q.turn = 1 /\ pq.turn = 3
          \/ q.turn = 2 /\ pq.turn = 0
          \/ q.turn = 3 /\ pq.turn = 1
      BY <1>2, <1>3, <2>3
    <3> QED
      BY <1>2, <1>3, <2>3, <3>1, QuarterTurns
  <2>4. CASE p.turn = 3
    <3>1. \/ q.turn = 0 /\ pq.turn = 3
          \/ q.turn = 1 /\ pq.turn = 0
          \/ q.turn = 2 /\ pq.turn = 1
          \/ q.turn = 3 /\ pq.turn = 2
      BY <1>2, <1>3, <2>4
    <3> QED
      BY <1>2, <1>3, <2>4, <3>1, QuarterTurns
  <2> QED
    BY <1>3, <2>1, <2>2, <2>3, <2>4
<1>6. /\ Moved(pq, r) =
            [x |-> pq.x + Cos(pq.turn) * r.x - Sin(pq.turn) * r.y,
             y |-> pq.y + Sin(pq.turn) * r.x + Cos(pq.turn) * r.y,
             turn |-> (pq.turn + r.turn) % 4]
      /\ Moved(p, qr) =
            [x |-> p.x + Cos(p.turn) * qr.x - Sin(p.turn) * qr.y,
             y |-> p.y + Sin(p.turn) * qr.x + Cos(p.turn) * qr.y,
             turn |-> (p.turn + qr.turn) % 4]
  BY DEF Moved, FromPose
<1>7. Moved(pq, r) = Moved(p, qr)
  BY <1>4, <1>5, <1>6
<1> QED
  BY <1>7 DEF pq, qr

-----------------------------------------------------------------------------
(* The loop that adds up the steps, by the least t where it would go wrong *)

Unfolds(f, ds, n) == f = [t \in 1 .. n |-> IF t = 1 THEN ds[1] ELSE Moved(f[t - 1], ds[t])]

LEMMA PosesExist ==
  ASSUME NEW ds, NEW n \in Nat
  PROVE  \E f : Unfolds(f, ds, n)
<1> DEFINE Bad == {k \in 0 .. n : ~ \E f : Unfolds(f, ds, k)}
<1> SUFFICES ASSUME Bad # {}
             PROVE  FALSE
  OBVIOUS
<1>1. PICK k \in Bad : \A j \in Bad : k <= j
  <2>1. Bad \in SUBSET Nat
    OBVIOUS
  <2> QED
    BY <2>1, LeastNatural
<1>2. k \in 0 .. n /\ ~ \E f : Unfolds(f, ds, k)
  BY <1>1
<1>3. CASE k = 0
  <2> DEFINE f == [t \in 1 .. 0 |-> ds[1]]
  <2>1. Unfolds(f, ds, 0)
    BY DEF Unfolds
  <2> QED
    BY <1>2, <1>3, <2>1
<1>4. CASE k > 0
  <2>1. k - 1 \in 0 .. n /\ k - 1 \notin Bad
    BY <1>1, <1>2, <1>4
  <2>2. PICK f : Unfolds(f, ds, k - 1)
    BY <2>1
  <2> DEFINE g == [t \in 1 .. k |-> IF t = 1 THEN ds[1] ELSE Moved(f[t - 1], ds[t])]
  <2>3. \A t \in 1 .. (k - 1) : g[t] = f[t]
    BY <1>2, <2>2 DEF Unfolds
  <2>4. \A t \in 1 .. k : t # 1 => t - 1 \in 1 .. (k - 1)
    BY <1>2
  <2>5. Unfolds(g, ds, k)
    BY <2>3, <2>4 DEF Unfolds
  <2> QED
    BY <1>2, <2>5
<1> QED
  BY <1>2, <1>3, <1>4

LEMMA PosesUnfold ==
  ASSUME NEW n \in Nat, NEW ds, DOMAIN ds = 1 .. n
  PROVE  Unfolds(DeltaToPose(ds), ds, n)
<1>1. DeltaToPose(ds) = CHOOSE f : Unfolds(f, ds, n)
  BY DEF DeltaToPose, Unfolds
<1> QED
  BY <1>1, PosesExist

LEMMA PosesType ==
  ASSUME NEW n \in Nat, NEW ds \in [1 .. n -> Pose]
  PROVE  DeltaToPose(ds) \in [1 .. n -> Pose]
<1> DEFINE pose == DeltaToPose(ds)
           Bad == {t \in 1 .. n : pose[t] \notin Pose}
<1>1. pose = [t \in 1 .. n |-> IF t = 1 THEN ds[1] ELSE Moved(pose[t - 1], ds[t])]
  BY PosesUnfold DEF Unfolds
<1> HIDE DEF pose
<1>2. Bad = {}
  <2> SUFFICES ASSUME Bad # {}
               PROVE  FALSE
    OBVIOUS
  <2>1. PICK t \in Bad : \A j \in Bad : t <= j
    <3>1. Bad \in SUBSET Nat
      OBVIOUS
    <3> QED
      BY <3>1, LeastNatural
  <2>2. t \in 1 .. n /\ pose[t] \notin Pose
    BY <2>1
  <2>3. CASE t = 1
    BY <1>1, <2>2, <2>3
  <2>4. CASE t > 1
    <3>1. t - 1 \in 1 .. n /\ t - 1 \notin Bad
      BY <2>1, <2>2, <2>4
    <3>2. pose[t] = Moved(pose[t - 1], ds[t])
      BY <1>1, <2>2, <2>4
    <3> QED
      BY <2>2, <3>1, <3>2, MovedType
  <2> QED
    BY <2>2, <2>3, <2>4
<1>3. pose \in [1 .. n -> Pose]
  BY <1>1, <1>2
<1> QED
  BY <1>3 DEF pose

\* What follows the first step is the path of the others, seen from where it led.
LEMMA PosesRigid ==
  ASSUME NEW n \in Nat, NEW ds \in [1 .. n -> Pose],
         NEW rest \in [1 .. (n - 1) -> Pose],
         \A t \in 2 .. n : rest[t - 1] = ds[t]
  PROVE  \A t \in 2 .. n : DeltaToPose(ds)[t] = Moved(ds[1], DeltaToPose(rest)[t - 1])
<1> DEFINE f == DeltaToPose(ds)
           g == DeltaToPose(rest)
           Bad == {t \in 2 .. n : f[t] # Moved(ds[1], g[t - 1])}
<1> SUFFICES ASSUME Bad # {}
             PROVE  FALSE
  OBVIOUS
<1>1. PICK t \in Bad : \A j \in Bad : t <= j
  <2>1. Bad \in SUBSET Nat
    OBVIOUS
  <2> QED
    BY <2>1, LeastNatural
<1>2. t \in 2 .. n /\ f[t] # Moved(ds[1], g[t - 1])
  BY <1>1
<1>3. /\ f = [i \in 1 .. n |-> IF i = 1 THEN ds[1] ELSE Moved(f[i - 1], ds[i])]
      /\ f \in [1 .. n -> Pose]
  BY PosesUnfold, PosesType DEF Unfolds
<1>4. /\ g = [i \in 1 .. (n - 1) |-> IF i = 1 THEN rest[1] ELSE Moved(g[i - 1], rest[i])]
      /\ g \in [1 .. (n - 1) -> Pose]
  <2>1. n - 1 \in Nat
    BY <1>2
  <2> QED
    BY <2>1, PosesUnfold, PosesType DEF Unfolds
<1>5. f[t] = Moved(f[t - 1], ds[t])
  BY <1>2, <1>3
<1>6. CASE t = 2
  <2>1. f[1] = ds[1] /\ g[1] = ds[2]
    BY <1>2, <1>3, <1>4, <1>6
  <2> QED
    BY <1>2, <1>5, <1>6, <2>1
<1>7. CASE t > 2
  <2>1. t - 1 \in 2 .. n /\ t - 1 \notin Bad
    BY <1>1, <1>2, <1>7
  <2>2. f[t - 1] = Moved(ds[1], g[t - 2])
    BY <2>1
  <2>3. g[t - 1] = Moved(g[t - 2], ds[t])
    BY <1>2, <1>4, <1>7
  <2>4. ds[1] \in Pose /\ g[t - 2] \in Pose /\ ds[t] \in Pose
    BY <1>2, <1>4, <1>7
  <2>5. f[t] = Moved(ds[1], g[t - 1])
    BY <1>5, <2>2, <2>3, <2>4, MovedAssociative
  <2> QED
    BY <1>2, <2>5
<1> QED
  BY <1>2, <1>6, <1>7

-----------------------------------------------------------------------------
(* The system *)

LEMMA TailOfSteps ==
  ASSUME NEW n \in Nat \ {0}, NEW ds \in [1 .. n -> Pose]
  PROVE  /\ Len(ds) = n /\ ds \in Seq(Pose) /\ ds # <<>>
         /\ Tail(ds) \in [1 .. (n - 1) -> Pose]
         /\ \A t \in 2 .. n : Tail(ds)[t - 1] = ds[t]
<1>1. ds \in Seq(Pose) /\ Len(ds) = n
  OBVIOUS
<1>2. ds # <<>>
  BY <1>1
<1>3. Tail(ds) \in Seq(Pose) /\ Len(Tail(ds)) = n - 1
  BY <1>1, <1>2
<1>4. Tail(ds) \in [1 .. (n - 1) -> Pose]
  <2> DEFINE q == Tail(ds)
  <2>1. q \in Seq(Pose) /\ Len(q) = n - 1
    BY <1>3
  <2> HIDE DEF q
  <2>2. q \in [1 .. (n - 1) -> Pose]
    BY <2>1
  <2> QED
    BY <2>2 DEF q
<1>5. \A t \in 2 .. n : Tail(ds)[t - 1] = ds[t]
  BY <1>1, <1>2
<1> QED
  BY <1>1, <1>2, <1>4, <1>5

LEMMA PositionsPath ==
  ASSUME NEW n \in 1 .. MaxPoses, NEW ds \in [1 .. n -> Pose]
  PROVE  Positions(ds) \in Path
<1> DEFINE pose == DeltaToPose(ds)
<1>1. n \in Nat /\ MaxPoses \in Nat
  BY PursuitAssumption
<1>2. pose \in [1 .. n -> Pose]
  BY <1>1, PosesType
<1> HIDE DEF pose
<1>3. Positions(ds) = [t \in 1 .. n |-> [x |-> pose[t].x, y |-> pose[t].y]]
  BY DEF Positions, pose
<1>4. Positions(ds) \in [1 .. n -> Waypoint]
  BY <1>2, <1>3 DEF Pose, Waypoint
<1> QED
  BY <1>1, <1>4 DEF Path

LEMMA PositionsRigid ==
  ASSUME NEW n \in Nat \ {0}, NEW ds \in [1 .. n -> Pose]
  PROVE  /\ Positions(ds)[1] = [x |-> ds[1].x, y |-> ds[1].y]
         /\ \A t \in 2 .. n : Positions(ds)[t] = FromPose(ds[1], Positions(Tail(ds))[t - 1])
<1> DEFINE f == DeltaToPose(ds)
           g == DeltaToPose(Tail(ds))
<1>1. /\ Tail(ds) \in [1 .. (n - 1) -> Pose]
      /\ \A t \in 2 .. n : Tail(ds)[t - 1] = ds[t]
  BY TailOfSteps
<1>2. \A t \in 2 .. n : f[t] = Moved(ds[1], g[t - 1])
  BY <1>1, PosesRigid
<1>3. f[1] = ds[1]
  BY PosesUnfold DEF Unfolds
<1>4. Positions(ds) = [t \in 1 .. n |-> [x |-> f[t].x, y |-> f[t].y]]
  BY DEF Positions
<1>5. Positions(Tail(ds)) = [t \in 1 .. (n - 1) |-> [x |-> g[t].x, y |-> g[t].y]]
  BY <1>1 DEF Positions
<1> HIDE DEF f, g
<1>6. ASSUME NEW t \in 2 .. n
      PROVE  Positions(ds)[t] = FromPose(ds[1], Positions(Tail(ds))[t - 1])
  <2>1. /\ Positions(ds)[t] = [x |-> f[t].x, y |-> f[t].y]
        /\ Positions(Tail(ds))[t - 1] = [x |-> g[t - 1].x, y |-> g[t - 1].y]
    BY <1>4, <1>5
  <2>2. f[t] = Moved(ds[1], g[t - 1])
    BY <1>2
  <2> QED
    BY <2>1, <2>2 DEF Moved, FromPose
<1>7. Positions(ds)[1] = [x |-> ds[1].x, y |-> ds[1].y]
  BY <1>3, <1>4
<1> QED
  BY <1>6, <1>7

\* The latest path is a path, and that of the prediction behind it if there is one.
IInv ==
  /\ latest \in Path
  /\ Bounded(twist)
  /\ delta \in {<<>>} \cup [1 .. Horizon -> Step]
  /\ delta # <<>> => latest = Positions(delta)

LEMMA InvariantHolds == SteeringSpec => []IInv
<1>0. <<>> \in Path
  BY PursuitAssumption DEF Path
<1>1. SteeringInit => IInv
  BY <1>0, PursuitAssumption DEF SteeringInit, Init, IInv, Bounded, Proper, Zero, Command
<1>2. IInv /\ [SteeringNext]_steeringVars => IInv'
  <2> SUFFICES ASSUME IInv, [SteeringNext]_steeringVars
               PROVE  IInv'
    OBVIOUS
  <2>1. CASE OnDelta
    <3>1. delta' \in [1 .. Horizon -> Pose] /\ Horizon \in 1 .. MaxPoses
      BY <2>1, SteeringAssumption DEF OnDelta, Pose
    <3>2. Positions(delta') \in Path
      BY <3>1, PositionsPath
    <3> QED
      BY <2>1, <3>2 DEF OnDelta, IInv
  <2>2. CASE OnPath /\ delta' = <<>>
    BY <1>0, <2>2, ArrivingAssumption DEF OnPath, IInv
  <2>3. CASE Tick /\ UNCHANGED delta
    BY <2>3, ComputeLemma DEF Tick, IInv
  <2>4. CASE UNCHANGED steeringVars
    BY <2>4 DEF steeringVars, vars, IInv
  <2> QED
    BY <2>1, <2>2, <2>3, <2>4 DEF SteeringNext
<1> QED
  BY <1>1, <1>2, PTL DEF SteeringSpec

\* Every path that arrives is one, and every command is well formed; its
\* denominator in particular is never zero (compute).
THEOREM TypeCorrect == SteeringSpec => []TypeOK
<1>1. IInv => TypeOK
  BY DEF IInv, Bounded, TypeOK
<1> QED
  BY <1>1, InvariantHolds, PTL

\* No path makes compute() exceed max_v or max_w or drive backward.
THEOREM CommandsStayInBounds == SteeringSpec => []CommandBounded
<1>1. IInv => CommandBounded
  BY DEF IInv, Bounded, Proper, CommandBounded
<1> QED
  BY <1>1, InvariantHolds, PTL

\* However many steps the network predicts and however they turn, the adapter
\* strings them together as one rigid motion after another (_delta_to_pose_np).
THEOREM PathsAreRigid == SteeringSpec => []PathIsRigid
<1>1. IInv => PathIsRigid
  <2> SUFFICES ASSUME IInv, delta # <<>>
               PROVE  /\ latest[1] = [x |-> delta[1].x, y |-> delta[1].y]
                      /\ \A t \in 2 .. Len(delta) :
                           latest[t] = FromPose(delta[1], Positions(Tail(delta))[t - 1])
    BY DEF PathIsRigid
  <2>1. Horizon \in Nat \ {0} /\ delta \in [1 .. Horizon -> Pose]
    BY PursuitAssumption, SteeringAssumption DEF IInv, Pose
  <2>2. Len(delta) = Horizon
    BY <2>1, TailOfSteps
  <2> QED
    BY <2>1, <2>2, PositionsRigid DEF IInv
<1> QED
  BY <1>1, InvariantHolds, PTL

\* Each new command suits the waypoint that the lookahead picks, on the paths
\* the adapter adds up too.
THEOREM CommandsSuitTarget == SteeringSpec => AimsAtTarget
<1>1. IInv /\ [SteeringNext]_steeringVars =>
        [twist' # twist =>
          \/ latest = <<>> /\ twist' = Zero
          \/ \E n \in 1 .. Len(latest) :
               IsTarget(latest, n) /\ (Finite(latest[n]) => Suits(latest[n], twist'))]_vars
  <2> SUFFICES ASSUME IInv, [SteeringNext]_steeringVars, twist' # twist
               PROVE  \/ latest = <<>> /\ twist' = Zero
                      \/ \E n \in 1 .. Len(latest) :
                           IsTarget(latest, n) /\ (Finite(latest[n]) => Suits(latest[n], twist'))
    OBVIOUS
  <2>1. Tick
    BY DEF SteeringNext, OnPath, OnDelta, steeringVars, vars
  <2> QED
    BY <2>1, ComputeLemma DEF Tick, IInv
<1> QED
  BY <1>1, InvariantHolds, PTL DEF SteeringSpec, AimsAtTarget
=============================================================================
