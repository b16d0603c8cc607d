-------------------------- MODULE DeploymentProofs --------------------------
(***************************************************************************)
(* Theorems about Deployment and the EdgeLaunch in it, for any machines    *)
(* and ports, command lines of any length and any number of commands of    *)
(* the operator.                                                           *)
(***************************************************************************)
EXTENDS Deployment, FiniteSetTheorems, WellFoundedInduction, TLAPS

(* The loop of cmd_run.  FoldLeft takes the options out of the set of their   *)
(* positions, the last one first; what it computes is shown by the least      *)
(* number of options for which it would go wrong.                             *)

LEMMA LeastNatural ==
  ASSUME NEW T \in SUBSET Nat, T # {}
  PROVE  \E x \in T : \A y \in T : x <= y
<1> DEFINE R == OpToRel(<, Nat)
<1>1. IsWellFoundedOn(R, Nat)
  BY NatLessThanWellFounded
<1>2. \A x, y \in Nat : <<x, y>> \in R <=> x < y
  BY DEF OpToRel
<1> HIDE DEF R
<1>3. PICK x \in T : \A y \in T : ~(<<y, x>> \in R)
  BY <1>1, WFMin
<1>4. \A y \in T : ~(y < x)
  BY <1>2, <1>3
<1>5. \A y \in T : x <= y
  BY <1>4
<1> QED
  BY <1>5

Folds(f, s, n) ==
  f = [t \in SUBSET (1 .. n) |->
         IF t = {} THEN NoLocals ELSE ParseOption(f[t \ {Max(t)}], s[Max(t)])]

LEMMA LoopIsFold ==
  ASSUME NEW s, NEW n \in Nat, DOMAIN s = 1 .. n
  PROVE  FoldLeft(ParseOption, NoLocals, s) = (CHOOSE f : Folds(f, s, n))[1 .. n]
BY DEF FoldLeft, MapThenFoldSet, Folds

LEMMA MaxLemma ==
  ASSUME NEW k \in Nat, NEW t \in SUBSET (1 .. k), t # {}
  PROVE  Max(t) \in t /\ \A i \in t : Max(t) >= i
<1> DEFINE T == {k - i : i \in t}
<1>1. T \in SUBSET Nat /\ T # {}
  <2>1. \A i \in t : k - i \in Nat
    OBVIOUS
  <2> QED
    BY <2>1
<1>2. PICK x \in T : \A y \in T : x <= y
  BY <1>1, LeastNatural
<1>3. PICK m \in t : x = k - m
  BY <1>2
<1>4. \A i \in t : m >= i
  <2> TAKE i \in t
  <2>1. k - m <= k - i
    BY <1>2, <1>3
  <2>2. i \in 1 .. k /\ m \in 1 .. k
    OBVIOUS
  <2> QED
    BY <2>1, <2>2
<1> QED
  BY <1>4 DEF Max

LEMMA RestLemma ==
  ASSUME NEW k \in Nat, NEW t \in SUBSET (1 .. k), t # {}
  PROVE  Max(t) \in 1 .. k /\ t \ {Max(t)} \in SUBSET (1 .. (k - 1))
<1> DEFINE m == Max(t)
<1>1. m \in t /\ \A i \in t : m >= i
  BY MaxLemma
<1> HIDE DEF m
<1>2. \A i \in t \ {m} : i \in 1 .. (k - 1)
  <2> TAKE i \in t \ {m}
  <2>1. i \in 1 .. k /\ m \in 1 .. k /\ m >= i /\ i # m
    BY <1>1
  <2> QED
    BY <2>1
<1> QED
  BY <1>1, <1>2 DEF m

LEMMA FoldExists ==
  ASSUME NEW s, NEW n \in Nat
  PROVE  \E f : Folds(f, s, n)
<1> DEFINE Bad == {k \in 0 .. n : ~ \E f : Folds(f, s, k)}
<1> SUFFICES ASSUME Bad # {}
             PROVE  FALSE
  OBVIOUS
<1>1. PICK k \in Bad : \A j \in Bad : k <= j
  <2>1. Bad \in SUBSET Nat
    OBVIOUS
  <2> QED
    BY <2>1, LeastNatural
<1>2. k \in 0 .. n /\ ~ \E f : Folds(f, s, k)
  BY <1>1
<1>3. CASE k = 0
  <2> DEFINE f == [t \in SUBSET (1 .. 0) |-> NoLocals]
  <2>1. 1 .. 0 = {}
    OBVIOUS
  <2>2. Folds(f, s, 0)
    BY <2>1 DEF Folds
  <2> QED
    BY <1>2, <1>3, <2>2
<1>4. CASE k > 0
  <2>1. k - 1 \in 0 .. n /\ k - 1 \notin Bad
    BY <1>1, <1>2, <1>4
  <2>2. PICK f : Folds(f, s, k - 1)
    BY <2>1
  <2> DEFINE Turn(h, t) == IF t = {} THEN NoLocals
                           ELSE ParseOption(h[t \ {Max(t)}], s[Max(t)])
             g == [t \in SUBSET (1 .. k) |-> Turn(f, t)]
  <2>3. \A t \in SUBSET (1 .. (k - 1)) : g[t] = f[t]
    <3>1. SUBSET (1 .. (k - 1)) \subseteq SUBSET (1 .. k)
      BY <1>2
    <3>2. f = [t \in SUBSET (1 .. (k - 1)) |-> Turn(f, t)]
      BY <2>2 DEF Folds
    <3> HIDE DEF Turn
    <3> QED
      BY <3>1, <3>2
  <2>4. \A t \in SUBSET (1 .. k) : t # {} => t \ {Max(t)} \in SUBSET (1 .. (k - 1))
    BY <1>2, RestLemma
  <2>5. \A t \in SUBSET (1 .. k) : Turn(f, t) = Turn(g, t)
    <3> HIDE DEF g
    <3> QED
      BY <2>3, <2>4
  <2>6. g = [t \in SUBSET (1 .. k) |-> Turn(g, t)]
    <3> HIDE DEF Turn
    <3> QED
      BY <2>5
  <2>7. Folds(g, s, k)
    BY <2>6 DEF Folds
  <2> QED
    BY <1>2, <2>7
<1> QED
  BY <1>2, <1>3, <1>4

Locals == [mode : {"none", "--remote", "--real", "--sim"}, device : {"none", "--cpu", "--gpu"},
           host : HostArg, goesOn : BOOLEAN]

LEMMA ParseType ==
  /\ NoLocals \in Locals
  /\ \A l \in Locals, o \in Option : ParseOption(l, o) \in Locals
<1>1. EmptyArg \in HostArg
  BY DEF EmptyArg, HostArg
<1>2. NoLocals \in Locals
  BY <1>1 DEF NoLocals, Locals
<1>3. ASSUME NEW l \in Locals, NEW o \in Option PROVE ParseOption(l, o) \in Locals
  <2>1. o.value \in HostArg
    BY <1>1 DEF Option
  <2>2. [l EXCEPT !.goesOn = FALSE] \in Locals
    BY DEF Locals
  <2>3. CASE o.word \in {"--remote", "--real", "--sim"}
    BY <2>2, <2>3 DEF ParseOption, Locals
  <2>4. CASE o.word \in {"--cpu", "--gpu"}
    BY <2>2, <2>4 DEF ParseOption, Locals
  <2>5. CASE o.word = "--host"
    BY <2>1, <2>2, <2>5 DEF ParseOption, Locals
  <2>6. CASE o.word \notin {"--remote", "--real", "--sim", "--cpu", "--gpu", "--host"}
    BY <2>2, <2>6 DEF ParseOption
  <2> QED
    BY <2>3, <2>4, <2>5, <2>6
<1> QED
  BY <1>2, <1>3

\* Whatever the options, the loop leaves well formed locals.
LEMMA LoopType ==
  ASSUME NEW s \in OptionList
  PROVE  FoldLeft(ParseOption, NoLocals, s) \in Locals
<1>1. PICK n \in Nat : s \in [1 .. n -> Option]
  BY ScriptAssumption DEF OptionList, BoundedSeq, SeqOf
<1> DEFINE f == CHOOSE g : Folds(g, s, n)
<1>2. FoldLeft(ParseOption, NoLocals, s) = f[1 .. n]
  BY <1>1, LoopIsFold
<1>3. f = [t \in SUBSET (1 .. n) |->
             IF t = {} THEN NoLocals ELSE ParseOption(f[t \ {Max(t)}], s[Max(t)])]
  BY FoldExists DEF Folds
<1> HIDE DEF f
<1> DEFINE Bad == {k \in 0 .. n : \E t \in SUBSET (1 .. k) : f[t] \notin Locals}
<1>4. Bad = {}
  <2> SUFFICES ASSUME Bad # {}
               PROVE  FALSE
    OBVIOUS
  <2>1. PICK k \in Bad : \A j \in Bad : k <= j
    <3>1. Bad \in SUBSET Nat
      OBVIOUS
    <3> QED
      BY <3>1, LeastNatural
  <2>2. k \in 0 .. n
    BY <2>1
  <2>3. PICK t \in SUBSET (1 .. k) : f[t] \notin Locals
    BY <2>1
  <2>4. t \in SUBSET (1 .. n) /\ t # {}
    BY <1>3, <2>2, <2>3, ParseType
  <2>5. k \in Nat /\ k > 0
    <3>1. k # 0
      <4>1. 1 .. 0 = {}
        OBVIOUS
      <4> QED
        BY <2>3, <2>4, <4>1
    <3> QED
      BY <2>2, <3>1
  <2>6. k - 1 \in 0 .. n /\ k - 1 \notin Bad
    BY <2>1, <2>2, <2>5
  <2>7. \A u \in SUBSET (1 .. (k - 1)) : f[u] \in Locals
    BY <2>6
  <2>8. t \ {Max(t)} \in SUBSET (1 .. (k - 1)) /\ Max(t) \in 1 .. n
    <3>1. Max(t) \in 1 .. k /\ t \ {Max(t)} \in SUBSET (1 .. (k - 1))
      BY <2>3, <2>4, <2>5, RestLemma
    <3> QED
      BY <2>2, <3>1
  <2>9. s[Max(t)] \in Option
    BY <1>1, <2>8
  <2>10. f[t] = ParseOption(f[t \ {Max(t)}], s[Max(t)])
    BY <1>3, <2>4
  <2> QED
    BY <2>3, <2>7, <2>8, <2>9, <2>10, ParseType
<1>5. n \in 0 .. n /\ n \notin Bad
  BY <1>4
<1> QED
  BY <1>2, <1>5

-----------------------------------------------------------------------------
(* What the command starts *)

LEMMA PairType ==
  ASSUME NEW raw \in HostArg, NEW defaultHost \in {AnyHost, Absent},
         SplitHostport(raw, defaultHost).port # BadPort
  PROVE  LET split == SplitHostport(raw, defaultHost)
             pair == ReadPair(split)
         IN  /\ pair.host \in Host \cup Port \cup {AnyHost}
             /\ pair.port \in Port \cup {Absent}
             /\ defaultHost = AnyHost => pair.host \in Host \cup {AnyHost} /\ pair.port \in Port
             /\ defaultHost = Absent => pair.host \in Host \cup Port
BY ScriptAssumption DEF HostArg, SplitHostport, ReadPair

LEMMA WeightsFit ==
  /\ \A m \in Model : BackendLoads(m, Weights(m))
  /\ \A w : BackendLoads("dummy", w)
  /\ \A a : AdapterLoads(a, TRUE, Weights("asyncvla"))
BY DEF Model, BackendLoads, AdapterLoads, Weights, OmniVLAHeads, AsyncVLAHeads, Resolves, OnDisk

\* Programs with an address and with all the files they load.
SoundServer(p) == p \in Server /\ BackendLoads(p.backend, p.weights)
SoundEdge(p) == p \in Edge /\ AdapterLoads(p.adapter, TRUE, p.weights)

LEMMA EdgeSound ==
  ASSUME NEW m \in Model, NEW pair, pair.host \in Host \cup Port, pair.port \in Port \cup {Absent},
         NEW full \in BOOLEAN, NEW camera \in BOOLEAN
  PROVE  EdgeOnly(m, pair, full, camera) \in Edge
         /\ AdapterLoads(m, TRUE, EdgeOnly(m, pair, full, camera).weights)
BY WeightsFit DEF EdgeOnly, Edge, Model

LEMMA StartedSound ==
  ASSUME NEW p \in Started
  PROVE  \/ p.kind = "server" /\ SoundServer(p)
         \/ p.kind = "edge" /\ SoundEdge(p)
<1>1. PICK m \in Model, s \in OptionList, image \in BOOLEAN :
           p = CmdRun(m, s, image) /\ p # Nothing
  BY DEF Started
<1> DEFINE l == FoldLeft(ParseOption, NoLocals, s)
           split == SplitHostport(l.host, IF l.mode = "--remote" THEN AnyHost ELSE Absent)
           pair == ReadPair(split)
<1>2. l.host \in HostArg
  BY LoopType DEF Locals
<1>3. \/ l.mode = "--remote" /\ split.port # BadPort /\ p = RunRemote(m, pair)
      \/ l.mode = "--real" /\ split.port # BadPort /\ p = RunReal(m, pair, image)
      \/ l.mode = "--sim" /\ split.port # BadPort /\ p = RunSim(m, pair, image)
  BY <1>1 DEF CmdRun
<1> HIDE DEF l
<1>4. CASE l.mode = "--remote"
  <2>1. pair.host \in Host \cup {AnyHost} /\ pair.port \in Port
    BY <1>2, <1>3, <1>4, PairType
  <2>2. p = RunRemote(m, pair)
    BY <1>3, <1>4
  <2> HIDE DEF pair, split
  <2>3. p \in Server /\ p.kind = "server" /\ p.backend = m /\ p.weights = Weights(m)
    BY <2>1, <2>2 DEF RunRemote, Server, Backend, Model
  <2> QED
    BY <2>3, WeightsFit DEF SoundServer
<1>5. CASE l.mode \in {"--real", "--sim"}
  <2>1. pair.host \in Host \cup Port /\ pair.port \in Port \cup {Absent}
    BY <1>2, <1>3, <1>5, PairType
  <2> HIDE DEF pair, split
  <2>2. \E full, camera \in BOOLEAN : p = EdgeOnly(m, pair, full, camera)
    BY <1>3, <1>5 DEF RunReal, RunSim, MvpSim
  <2>3. PICK full \in BOOLEAN, camera \in BOOLEAN : p = EdgeOnly(m, pair, full, camera)
    BY <2>2
  <2>4. p \in Edge /\ p.kind = "edge" /\ p.adapter = m
    BY <2>1, <2>3, EdgeSound DEF EdgeOnly
  <2>5. AdapterLoads(p.adapter, TRUE, p.weights)
    BY <2>1, <2>3, <2>4, EdgeSound
  <2> QED
    BY <2>4, <2>5 DEF SoundEdge
<1> QED
  BY <1>3, <1>4, <1>5

-----------------------------------------------------------------------------
(* The launch process and the node *)

State == {"unconfigured", "inactive", "active", "finalized"}
Launched == {"configure", "activate"}

LEMMA OutcomesType == \A tr \in Transition : Outcomes(tr) \subseteq State
BY DEF Transition, Outcomes, Goal, CanRaise, State

LEMMA ServeType ==
  ASSUME TypeOK, NEW tr \in Transition, Serve(tr), lc # "off"
  PROVE  lc' \in State /\ events' \in Seq(State) /\ failed' \in BOOLEAN
<1>1. lc \in State /\ events \in Seq(State) /\ failed \in BOOLEAN
  BY DEF TypeOK, State
<1>2. CASE ~Possible(tr)
  BY <1>1, <1>2 DEF Serve
<1>3. CASE Possible(tr)
  <2>1. lc' \in State /\ events' = Append(events, lc') /\ failed' \in BOOLEAN
    BY <1>1, <1>3, OutcomesType DEF Serve
  <2> QED
    BY <1>1, <2>1
<1> QED
  BY <1>2, <1>3

LEMMA LaunchTypeStep == TypeOK /\ [Next]_vars => TypeOK'
<1> SUFFICES ASSUME TypeOK, [Next]_vars
             PROVE  TypeOK'
  OBVIOUS
<1>1. /\ lc \in State \cup {"off"} /\ launched \in Seq(Launched) /\ events \in Seq(State)
      /\ operator \in Transition \cup {"none"} /\ commands \in 0 .. MaxCommands
      /\ failed \in BOOLEAN
  BY DEF TypeOK, State, Launched
<1>2. CASE ProcessStarts
  <2>1. <<"configure">> \in Seq(Launched)
    BY DEF Launched
  <2> QED
    BY <1>1, <1>2, <2>1 DEF ProcessStarts, TypeOK, State, Launched
<1>3. CASE ServeLaunch
  <2>1. /\ Head(launched) \in Transition /\ Serve(Head(launched)) /\ lc # "off"
        /\ launched' \in Seq(Launched) /\ UNCHANGED <<operator, commands>>
    BY <1>1, <1>3 DEF ServeLaunch, Transition, Launched
  <2> QED
    BY <1>1, <2>1, ServeType DEF TypeOK, State, Launched
<1>4. CASE ServeOperator
  <2>1. CASE lc = "off"
    BY <1>1, <1>4, <2>1 DEF ServeOperator, Serve, Possible, Transition, TypeOK, State, Launched
  <2>2. CASE lc # "off"
    <3>1. operator \in Transition /\ Serve(operator) /\ operator' = "none"
          /\ UNCHANGED <<launched, commands>>
      BY <1>1, <1>4 DEF ServeOperator
    <3> QED
      BY <1>1, <2>2, <3>1, ServeType DEF TypeOK, State, Launched
  <2> QED
    BY <2>1, <2>2
<1>5. CASE Command
  BY <1>1, <1>5, LaunchAssumption DEF Command, TypeOK, State, Launched
<1>6. CASE OnStateTransition
  <2>1. events' \in Seq(State) /\ launched' \in Seq(Launched)
        /\ UNCHANGED <<lc, operator, commands, failed>>
    BY <1>1, <1>6 DEF OnStateTransition, Launched
  <2> QED
    BY <1>1, <2>1 DEF TypeOK, State, Launched
<1>7. CASE UNCHANGED vars
  BY <1>7 DEF vars, TypeOK
<1> QED
  BY <1>2, <1>3, <1>4, <1>5, <1>6, <1>7 DEF Next

LEMMA InitType == Init => TypeOK
<1>1. /\ <<>> \in Seq({"configure", "activate"})
      /\ <<>> \in Seq({"unconfigured", "inactive", "active", "finalized"})
      /\ 0 \in 0 .. MaxCommands
  BY LaunchAssumption
<1> QED
  BY <1>1, Zenon DEF Init, TypeOK

LEMMA LaunchStep == [DeployNext]_deployVars => [Next]_vars
BY DEF DeployNext, deployVars, LaunchMvp, StartServer, StartEdge, Serves, ServerEnds,
   Lifecycle, Receive, GoesStale, ActionTick

\* With servers, edge stacks and command lines around them the launch process
\* and the node behave as EdgeLaunch has it (edge_only.launch.py).
THEOREM DeploymentImplementsLaunch == DeploySpec => Spec
<1>1. DeployInit => Init
  BY DEF DeployInit
<1> QED
  BY <1>1, LaunchStep, PTL DEF DeploySpec, Spec

-----------------------------------------------------------------------------
(* The launch process comes to rest *)

Positions(s, x) == {i \in 1 .. Len(s) : s[i] = x}
Count(s, x) == Cardinality(Positions(s, x))

LEMMA CountType ==
  ASSUME NEW S, NEW s \in Seq(S), NEW x
  PROVE  IsFiniteSet(Positions(s, x)) /\ Count(s, x) \in Nat
<1>1. IsFiniteSet(1 .. Len(s))
  BY FS_Interval
<1>2. Positions(s, x) \in SUBSET (1 .. Len(s))
  BY DEF Positions
<1>3. IsFiniteSet(Positions(s, x))
  BY <1>1, <1>2, FS_Subset
<1> QED
  BY <1>3, FS_CardinalityType DEF Count

LEMMA CountEmpty == \A x : Count(<<>>, x) = 0
<1> TAKE x
<1>1. Positions(<<>>, x) = {}
  BY DEF Positions
<1> QED
  BY <1>1, FS_EmptySet DEF Count

LEMMA CountAppend ==
  ASSUME NEW S, NEW s \in Seq(S), NEW e \in S, NEW x
  PROVE  Count(Append(s, e), x) = Count(s, x) + (IF e = x THEN 1 ELSE 0)
<1> DEFINE n == Len(s) + 1
<1>1. IsFiniteSet(Positions(s, x)) /\ Count(s, x) \in Nat
  BY CountType
<1>2. n \notin Positions(s, x)
  BY DEF Positions
<1>3. CASE e = x
  <2>1. Positions(Append(s, e), x) = Positions(s, x) \cup {n}
    BY <1>3 DEF Positions
  <2> QED
    BY <1>1, <1>2, <1>3, <2>1, FS_AddElement DEF Count
<1>4. CASE e # x
  <2>1. Positions(Append(s, e), x) = Positions(s, x)
    BY <1>4 DEF Positions
  <2> QED
    BY <1>1, <1>4, <2>1 DEF Count
<1> QED
  BY <1>3, <1>4

LEMMA CountTail ==
  ASSUME NEW S, NEW s \in Seq(S), s # <<>>, NEW x
  PROVE  Count(Tail(s), x) = Count(s, x) - (IF Head(s) = x THEN 1 ELSE 0)
<1> DEFINE P == Positions(s, x)
           Q == Positions(Tail(s), x)
           f == [i \in Q |-> i + 1]
<1>1. IsFiniteSet(P) /\ IsFiniteSet(Q) /\ Count(s, x) \in Nat
  <2>1. Tail(s) \in Seq(S)
    OBVIOUS
  <2> QED
    BY <2>1, CountType
<1>2. Len(Tail(s)) = Len(s) - 1 /\ \A i \in 1 .. Len(s) - 1 : Tail(s)[i] = s[i + 1]
  OBVIOUS
<1>3. \A i \in Q : i \in Nat /\ i + 1 \in P \ {1}
  BY <1>2 DEF Positions
<1>4. \A j \in P \ {1} : \E i \in Q : f[i] = j
  <2> TAKE j \in P \ {1}
  <2>1. j \in 1 .. Len(s) /\ j # 1 /\ s[j] = x
    BY DEF Positions
  <2>2. j - 1 \in Q
    BY <1>2, <2>1 DEF Positions
  <2> QED
    BY <2>1, <2>2
<1>5. f \in Bijection(Q, P \ {1})
  <2>1. f \in [Q -> P \ {1}]
    BY <1>3
  <2>2. \A i, j \in Q : f[i] = f[j] => i = j
    BY <1>3
  <2> HIDE DEF f, P, Q
  <2> QED
    BY <1>4, <2>1, <2>2 DEF Bijection, Injection, Surjection, IsInjective
<1>6. Cardinality(P \ {1}) = Cardinality(Q)
  BY <1>1, <1>5, FS_Bijection DEF ExistsBijection
<1>7. Cardinality(P \ {1}) = IF 1 \in P THEN Cardinality(P) - 1 ELSE Cardinality(P)
  BY <1>1, FS_RemoveElement
<1>8. 1 \in P <=> Head(s) = x
  <2>1. 1 \in 1 .. Len(s) /\ Head(s) = s[1]
    OBVIOUS
  <2> QED
    BY <2>1 DEF Positions
<1> QED
  BY <1>1, <1>6, <1>7, <1>8 DEF Count

\* What is still to happen: a configuration asks for an event, that for an
\* activation, and that for another event.
OwedLaunched(l) == 4 * Count(l, "configure") + 2 * Count(l, "activate")
OwedEvents(e) == Len(e) + 2 * Count(e, "inactive")
OwedByOperator ==
  (IF operator = "none" THEN 0 ELSE 4) + 5 * (MaxCommands - commands)
  + (IF lc = "off" THEN 5 ELSE 0)
Owed == OwedLaunched(launched) + OwedEvents(events) + OwedByOperator

LEMMA OwedNatural ==
  /\ \A l \in Seq(Launched) : OwedLaunched(l) \in Nat
  /\ \A e \in Seq(State) : OwedEvents(e) \in Nat
<1>1. ASSUME NEW l \in Seq(Launched) PROVE OwedLaunched(l) \in Nat
  <2>1. Count(l, "configure") \in Nat /\ Count(l, "activate") \in Nat
    BY CountType
  <2> QED
    BY <2>1 DEF OwedLaunched
<1>2. ASSUME NEW e \in Seq(State) PROVE OwedEvents(e) \in Nat
  <2>1. Len(e) \in Nat /\ Count(e, "inactive") \in Nat
    BY CountType
  <2> QED
    BY <2>1 DEF OwedEvents
<1> QED
  BY <1>1, <1>2

\* Serving a request makes one event at most, and one of inactive only if the
\* request was not an activation.
LEMMA ServeOwes ==
  ASSUME TypeOK, NEW tr \in Transition, Serve(tr)
  PROVE  /\ OwedEvents(events') \in Nat
         /\ OwedEvents(events') <= OwedEvents(events) + (IF tr = "activate" THEN 1 ELSE 3)
         /\ lc' = lc \/ lc' # "off"
<1>0. events \in Seq(State) /\ OwedEvents(events) \in Nat
  BY OwedNatural DEF TypeOK, State
<1>1. CASE ~Possible(tr)
  <2>1. lc' = lc /\ events' = events
    BY <1>1 DEF Serve
  <2> QED
    BY <1>0, <2>1
<1>2. CASE Possible(tr)
  <2>1. lc' \in State /\ events' = Append(events, lc') /\ (tr = "activate" => lc' # "inactive")
    BY <1>2, OutcomesType DEF Serve, Outcomes, Goal, CanRaise
  <2>3. Len(events') = Len(events) + 1 /\ Len(events) \in Nat
    BY <1>0, <2>1
  <2>4. /\ Count(events', "inactive") =
             Count(events, "inactive") + (IF lc' = "inactive" THEN 1 ELSE 0)
        /\ Count(events, "inactive") \in Nat
    BY <1>0, <2>1, CountAppend, CountType
  <2>5. OwedEvents(events') = OwedEvents(events) + 1 + (IF lc' = "inactive" THEN 2 ELSE 0)
    BY <2>3, <2>4 DEF OwedEvents
  <2>6. lc' # "off"
    BY <2>1 DEF State
  <2> QED
    BY <1>0, <2>1, <2>5, <2>6
<1> QED
  BY <1>1, <1>2

LEMMA OwedTail ==
  /\ \A l \in Seq(Launched) \ {<<>>} :
        OwedLaunched(Tail(l)) = OwedLaunched(l) - (IF Head(l) = "configure" THEN 4 ELSE 2)
  /\ \A e \in Seq(State) \ {<<>>} :
        OwedEvents(Tail(e)) = OwedEvents(e) - (IF Head(e) = "inactive" THEN 3 ELSE 1)
<1>1. ASSUME NEW l \in Seq(Launched) \ {<<>>}
      PROVE  OwedLaunched(Tail(l)) = OwedLaunched(l) - (IF Head(l) = "configure" THEN 4 ELSE 2)
  <2>1. /\ Count(Tail(l), "configure") = Count(l, "configure") - (IF Head(l) = "configure" THEN 1 ELSE 0)
        /\ Count(Tail(l), "activate") = Count(l, "activate") - (IF Head(l) = "activate" THEN 1 ELSE 0)
        /\ Count(l, "configure") \in Nat /\ Count(l, "activate") \in Nat
    BY CountTail, CountType
  <2>2. Head(l) \in {"configure", "activate"}
    BY DEF Launched
  <2> QED
    BY <2>1, <2>2 DEF OwedLaunched
<1>2. ASSUME NEW e \in Seq(State) \ {<<>>}
      PROVE  OwedEvents(Tail(e)) = OwedEvents(e) - (IF Head(e) = "inactive" THEN 3 ELSE 1)
  <2>1. /\ Count(Tail(e), "inactive") = Count(e, "inactive") - (IF Head(e) = "inactive" THEN 1 ELSE 0)
        /\ Count(e, "inactive") \in Nat
        /\ Len(Tail(e)) = Len(e) - 1 /\ Len(e) \in Nat
    BY CountTail, CountType
  <2> QED
    BY <2>1 DEF OwedEvents
<1> QED
  BY <1>1, <1>2

LEMMA OwedStep ==
  ASSUME TypeOK, Next
  PROVE  Owed' < Owed
<1>1. /\ launched \in Seq(Launched) /\ OwedLaunched(launched) \in Nat
      /\ events \in Seq(State) /\ OwedEvents(events) \in Nat
      /\ commands \in 0 .. MaxCommands
  BY OwedNatural DEF TypeOK, Launched, State
<1>0. OwedByOperator \in Nat
  BY <1>1, LaunchAssumption DEF OwedByOperator
<1>2. CASE ProcessStarts
  <2>1. OwedLaunched(<<"configure">>) = 4
    <3>1. "configure" \in Launched /\ <<>> \in Seq(Launched)
      BY DEF Launched
    <3>2. Append(<<>>, "configure") = <<"configure">>
      OBVIOUS
    <3>3. /\ Count(Append(<<>>, "configure"), "configure") = 0 + 1
          /\ Count(Append(<<>>, "configure"), "activate") = 0 + 0
      <4>1. \A x : Count(Append(<<>>, "configure"), x) =
                     Count(<<>>, x) + (IF "configure" = x THEN 1 ELSE 0)
        BY <3>1, CountAppend
      <4> QED
        BY <4>1, CountEmpty
    <3> QED
      BY <3>2, <3>3 DEF OwedLaunched
  <2> QED
    BY <1>1, <1>2, <2>1, LaunchAssumption DEF ProcessStarts, Owed, OwedByOperator
<1>3. CASE ServeLaunch
  <2>1. Head(launched) \in Launched /\ Launched \subseteq Transition
    BY <1>1, <1>3 DEF ServeLaunch, Launched, Transition
  <2>2. /\ OwedEvents(events') \in Nat
        /\ OwedEvents(events') <=
             OwedEvents(events) + (IF Head(launched) = "activate" THEN 1 ELSE 3)
        /\ lc # "off" /\ lc' # "off"
    BY <1>3, <2>1, ServeOwes DEF ServeLaunch
  <2>3. OwedLaunched(launched') =
          OwedLaunched(launched) - (IF Head(launched) = "configure" THEN 4 ELSE 2)
    BY <1>1, <1>3, OwedTail DEF ServeLaunch
  <2>4. operator' = operator /\ commands' = commands
    BY <1>3 DEF ServeLaunch
  <2>5. \/ Head(launched) = "configure" /\ Head(launched) # "activate"
        \/ Head(launched) # "configure" /\ Head(launched) = "activate"
    BY <2>1 DEF Launched
  <2>6. /\ OwedLaunched(launched') + OwedEvents(events') \in Int
        /\ OwedLaunched(launched') + OwedEvents(events')
             < OwedLaunched(launched) + OwedEvents(events)
    BY <1>1, <2>2, <2>3, <2>5
  <2>7. OwedByOperator' = OwedByOperator
    BY <2>2, <2>4 DEF OwedByOperator
  <2> QED
    BY <1>0, <1>1, <2>6, <2>7 DEF Owed
<1>4. CASE ServeOperator
  <2>1. operator \in Transition /\ Serve(operator)
    BY <1>4 DEF ServeOperator, TypeOK
  <2>2. /\ OwedEvents(events') \in Nat /\ OwedEvents(events') <= OwedEvents(events) + 3
        /\ lc' = lc \/ lc' # "off"
    BY <1>1, <2>1, ServeOwes
  <2>3. /\ operator # "none" /\ operator' = "none"
        /\ launched' = launched /\ commands' = commands
    BY <1>4 DEF ServeOperator
  <2>4. OwedByOperator' \in Int /\ OwedByOperator' <= OwedByOperator - 4
    BY <1>1, <2>2, <2>3, LaunchAssumption DEF OwedByOperator
  <2> QED
    BY <1>0, <1>1, <2>2, <2>3, <2>4 DEF Owed
<1>5. CASE Command
  <2>1. OwedByOperator' \in Int /\ OwedByOperator' = OwedByOperator - 1
    <3>1. operator = "none" /\ operator' # "none"
      BY <1>5 DEF Command, Transition
    <3> QED
      BY <1>1, <1>5, <3>1, LaunchAssumption DEF Command, OwedByOperator
  <2> QED
    BY <1>0, <1>1, <1>5, <2>1 DEF Command, Owed
<1>6. CASE OnStateTransition
  <2>1. OwedEvents(events') = OwedEvents(events) - (IF Head(events) = "inactive" THEN 3 ELSE 1)
    BY <1>1, <1>6, OwedTail DEF OnStateTransition
  <2>2. OwedLaunched(launched') =
          OwedLaunched(launched) + (IF Head(events) = "inactive" THEN 2 ELSE 0)
    <3>1. /\ Count(Append(launched, "activate"), "configure") = Count(launched, "configure") + 0
          /\ Count(Append(launched, "activate"), "activate") = Count(launched, "activate") + 1
          /\ Count(launched, "configure") \in Nat /\ Count(launched, "activate") \in Nat
      <4>1. "activate" \in Launched
        BY DEF Launched
      <4> QED
        BY <1>1, <4>1, CountAppend, CountType
    <3>2. OwedLaunched(Append(launched, "activate")) = OwedLaunched(launched) + 2
      BY <3>1 DEF OwedLaunched
    <3>3. launched' = IF Head(events) = "inactive" THEN Append(launched, "activate")
                      ELSE launched
      BY <1>6 DEF OnStateTransition
    <3> QED
      BY <1>1, <3>2, <3>3
  <2>3. lc' = lc /\ operator' = operator /\ commands' = commands
    BY <1>6 DEF OnStateTransition
  <2>4. /\ OwedLaunched(launched') + OwedEvents(events') \in Int
        /\ OwedLaunched(launched') + OwedEvents(events')
             < OwedLaunched(launched) + OwedEvents(events)
    <3>1. Head(events) = "inactive" \/ Head(events) # "inactive"
      OBVIOUS
    <3> QED
      BY <1>1, <2>1, <2>2, <3>1
  <2>5. OwedByOperator' = OwedByOperator
    BY <2>3 DEF OwedByOperator
  <2> QED
    BY <1>0, <1>1, <2>4, <2>5 DEF Owed
<1> QED
  BY <1>2, <1>3, <1>4, <1>5, <1>6 DEF Next

\* The launch file never keeps the node going round: with every step fewer are
\* left, never less than none, and 5 for the start and 5 for each command of
\* the operator are enough whoever comes first, whether callbacks raise or not
\* (on_inactive, on_process_start).
THEOREM LaunchWindsDown ==
  Spec => [](Owed \in 0 .. 5 * MaxCommands + 5) /\ [][Owed' < Owed]_vars
<1> DEFINE Inv == TypeOK /\ Owed \in 0 .. 5 * MaxCommands + 5
<1>1. Init => Inv
  <2> SUFFICES ASSUME Init
               PROVE  Inv
    OBVIOUS
  <2>1. TypeOK
    BY InitType
  <2>2. OwedLaunched(<<>>) = 0 /\ OwedEvents(<<>>) = 0
    BY CountEmpty DEF OwedLaunched, OwedEvents
  <2>3. Owed = 5 * MaxCommands + 5
    BY <2>2, LaunchAssumption DEF Init, Owed, OwedByOperator
  <2> QED
    BY <2>1, <2>3, LaunchAssumption
<1>2. Inv /\ [Next]_vars => Inv'
  <2> SUFFICES ASSUME Inv, [Next]_vars
               PROVE  Inv'
    OBVIOUS
  <2>1. TypeOK'
    BY LaunchTypeStep
  <2>2. Owed' \in Nat
    <3>1. /\ OwedLaunched(launched') \in Nat /\ OwedEvents(events') \in Nat
          /\ commands' \in 0 .. MaxCommands
      BY <2>1, OwedNatural DEF TypeOK, Launched, State
    <3> QED
      BY <3>1, LaunchAssumption DEF Owed, OwedByOperator
  <2>3. Owed' <= Owed
    <3>1. CASE Next
      BY <2>2, <3>1, OwedStep
    <3>2. CASE UNCHANGED vars
      <4>1. Owed' = Owed
        BY <3>2 DEF vars, Owed, OwedByOperator
      <4> QED
        BY <4>1
    <3> QED
      BY <3>1, <3>2
  <2> QED
    BY <2>1, <2>2, <2>3, LaunchAssumption
<1>3. Inv /\ [Next]_vars => [Owed' < Owed]_vars
  BY OwedStep
<1> QED
  BY <1>1, <1>2, <1>3, PTL DEF Spec

-----------------------------------------------------------------------------
(* Type correctness, and programs that can load what they need *)

LEMMA LocalEdgeType ==
  ASSUME NEW adapter \in {"stub", "omnivla", "asyncvla"}, NEW full \in BOOLEAN
  PROVE  SoundEdge(LocalEdge(adapter, full)) /\ LocalEdge(adapter, full).adapter = adapter
<1>1. LocalEdge(adapter, full) \in Edge
  BY ScriptAssumption, DeploymentAssumption DEF LocalEdge, Edge, Model
<1>2. /\ LocalEdge(adapter, full).weights = Weights("asyncvla")
      /\ LocalEdge(adapter, full).adapter = adapter
  BY DEF LocalEdge
<1> QED
  BY <1>1, <1>2, WeightsFit DEF SoundEdge

LEMMA ServerMainType ==
  ASSUME NEW backend \in Backend
  PROVE  SoundServer(ServerMain(backend))
<1>1. ServerMain(backend) \in Server
  BY ScriptAssumption DEF ServerMain, Server, Backend, Model
<1>2. /\ ServerMain(backend).backend = backend
      /\ ServerMain(backend).weights = Weights(IF backend = "asyncvla" THEN "asyncvla" ELSE "omnivla")
  BY DEF ServerMain
<1>3. BackendLoads(backend, Weights(IF backend = "asyncvla" THEN "asyncvla" ELSE "omnivla"))
  BY WeightsFit DEF Backend, Model
<1> QED
  BY <1>1, <1>2, <1>3 DEF SoundServer

LEMMA MvpType ==
  ASSUME NEW m \in Mvp
  PROVE  SoundServer(m.server) /\ SoundEdge(m.edge)
<1>1. PICK full \in BOOLEAN : m \in {MvpLocal(full), MvpOmnivla(full), MvpAsyncvla(full)}
  BY DEF Mvp
<1>2. PICK backend \in Backend, adapter \in {"stub", "omnivla", "asyncvla"} :
           m.server = ServerMain(backend) /\ m.edge = LocalEdge(adapter, full)
  BY <1>1 DEF MvpLocal, MvpOmnivla, MvpAsyncvla, Backend
<1> QED
  BY <1>2, LocalEdgeType, ServerMainType

\* Whatever has been started has the files it loads.
Programs ==
  /\ server # NoProgram => SoundServer(server)
  /\ edge # NoProgram => SoundEdge(edge)

PathKind == {"none", "stop", "fixed", "meant", "misread"}

LEMMA PredictType ==
  \A a \in {"stub", "omnivla", "asyncvla"}, b \in Backend : PredictPath(a, Embedding(b)) \in PathKind
BY DEF PredictPath, Embedding, StubPath, OmniVLAPath, AsyncVLAPath, PathKind, Backend,
   DummyInfer, OmniVLAInfer, AsyncVLAInfer, ActionDim, FeatureDim

\* on_configure builds the adapter: no later state does without it.
Equipped ==
  /\ ticking => edge # NoProgram
  /\ lc # "off" => edge # NoProgram
  /\ lc \in {"inactive", "active"} => CanBuildAdapter

DeployInv == DeployTypeOK /\ Programs /\ Equipped

LEMMA ProgramsStep ==
  ASSUME Programs, [DeployNext]_deployVars
  PROVE  Programs'
<1>1. CASE LaunchMvp
  BY <1>1, MvpType DEF LaunchMvp, Programs
<1>2. CASE StartServer
  <2>1. server' \in {p \in Started : p.kind = "server"} \cup {ServerMain("dummy")}
        /\ edge' = edge
    BY <1>2 DEF StartServer
  <2>2. SoundServer(server')
    BY <2>1, StartedSound, ServerMainType DEF Backend
  <2> QED
    BY <2>1, <2>2 DEF Programs
<1>3. CASE StartEdge
  <2>1. edge' \in Started /\ edge'.kind = "edge" /\ server' = server
    BY <1>3 DEF StartEdge
  <2>2. SoundEdge(edge')
    BY <2>1, StartedSound
  <2> QED
    BY <2>1, <2>2 DEF Programs
<1>4. CASE ServerEnds
  BY <1>4 DEF ServerEnds, Programs
<1>5. CASE UNCHANGED <<server, edge>>
  BY <1>5 DEF Programs
<1> QED
  BY <1>1, <1>2, <1>3, <1>4, <1>5 DEF DeployNext, deployVars, stack, Serves, Lifecycle, Receive,
     GoesStale, ActionTick

LEMMA EquippedStep ==
  ASSUME DeployInv, [DeployNext]_deployVars
  PROVE  Equipped'
<1>1. CASE LaunchMvp \/ StartEdge
  <2>1. edge = NoProgram /\ UNCHANGED <<lc, ticking>>
    BY <1>1 DEF LaunchMvp, StartEdge, vars
  <2> QED
    BY <2>1 DEF DeployInv, Equipped
<1>2. CASE Lifecycle(Next)
  <2>1. /\ edge # NoProgram /\ edge' = edge /\ Next
        /\ lc = "unconfigured" /\ lc' = "inactive" => CanBuildAdapter
    BY <1>2 DEF Lifecycle
  <2>2. lc' \in {"inactive", "active"} =>
          lc \in {"inactive", "active"} \/ (lc = "unconfigured" /\ lc' = "inactive")
    <3>1. ASSUME NEW tr \in Transition, Serve(tr)
          PROVE  lc' \in {"inactive", "active"} =>
                   lc \in {"inactive", "active"} \/ (lc = "unconfigured" /\ lc' = "inactive")
      BY <3>1 DEF Serve, Possible, Outcomes, Goal, CanRaise, Transition
    <3>2. launched # <<>> => Head(launched) \in Transition
      BY DEF DeployInv, DeployTypeOK, TypeOK, Transition
    <3>3. operator # "none" => operator \in Transition
      BY DEF DeployInv, DeployTypeOK, TypeOK
    <3> QED
      BY <2>1, <3>1, <3>2, <3>3 DEF Next, ProcessStarts, ServeLaunch, ServeOperator, Command,
         OnStateTransition
  <2>3. CanBuildAdapter' = CanBuildAdapter
    BY <2>1 DEF CanBuildAdapter
  <2> QED
    BY <2>1, <2>2, <2>3 DEF DeployInv, Equipped
<1>3. CASE UNCHANGED <<edge, lc, ticking>>
  BY <1>3 DEF DeployInv, Equipped, CanBuildAdapter
<1> QED
  BY <1>1, <1>2, <1>3 DEF DeployNext, deployVars, stack, vars, StartServer, Serves, ServerEnds,
     Receive, GoesStale, ActionTick

LEMMA DeployTypeStep ==
  ASSUME DeployInv, [DeployNext]_deployVars, Programs', TypeOK'
  PROVE  DeployTypeOK'
<1>1. /\ serving \in BOOLEAN /\ ticking \in BOOLEAN
      /\ emb \in Backend \cup {NoBackend} /\ path \in PathKind
  BY DEF DeployInv, DeployTypeOK, PathKind
<1>0. server' \in Server \cup {NoProgram} /\ edge' \in Edge \cup {NoProgram}
  BY DEF Programs, SoundServer, SoundEdge
<1> SUFFICES /\ serving' \in BOOLEAN /\ ticking' \in BOOLEAN
             /\ emb' \in Backend \cup {NoBackend} /\ path' \in PathKind
  BY <1>0 DEF DeployTypeOK, PathKind
<1>2. CASE LaunchMvp \/ StartServer \/ StartEdge \/ Serves \/ ServerEnds \/ GoesStale
           \/ UNCHANGED deployVars
  BY <1>1, <1>2 DEF LaunchMvp, StartServer, StartEdge, Serves, ServerEnds, GoesStale,
     deployVars, stack
<1>3. CASE Lifecycle(Next)
  BY <1>1, <1>3 DEF Lifecycle
<1>4. CASE Receive
  <2>1. server.backend \in Backend
    BY <1>4 DEF Receive, Connected, Paired, DeployInv, Programs, SoundServer, Server
  <2> QED
    BY <1>1, <1>4, <2>1 DEF Receive
<1>5. CASE ActionTick
  <2>1. edge.adapter \in {"stub", "omnivla", "asyncvla"}
    BY <1>5 DEF ActionTick, DeployInv, Equipped, Programs, SoundEdge, Edge
  <2>2. path' \in PathKind
    BY <1>1, <1>5, <2>1, PredictType DEF ActionTick, PathKind
  <2> QED
    BY <1>1, <1>5, <2>2 DEF ActionTick
<1> QED
  BY <1>2, <1>3, <1>4, <1>5 DEF DeployNext

LEMMA DeployInductive == DeploySpec => []DeployInv
<1>1. DeployInit => DeployInv
  <2> SUFFICES ASSUME DeployInit
               PROVE  DeployInv
    OBVIOUS
  <2>1. TypeOK
    BY InitType DEF DeployInit
  <2>2. Programs /\ Equipped
    BY DEF DeployInit, Init, Programs, Equipped
  <2>3. DeployTypeOK
    BY <2>1 DEF DeployInit, DeployTypeOK
  <2> QED
    BY <2>1, <2>2, <2>3 DEF DeployInv
<1>2. DeployInv /\ [DeployNext]_deployVars => DeployInv'
  <2> SUFFICES ASSUME DeployInv, [DeployNext]_deployVars
               PROVE  DeployInv'
    OBVIOUS
  <2>1. Programs'
    BY ProgramsStep DEF DeployInv
  <2>2. Equipped'
    BY EquippedStep
  <2>3. TypeOK'
    BY LaunchStep, LaunchTypeStep DEF DeployInv, DeployTypeOK
  <2>4. DeployTypeOK'
    BY <2>1, <2>3, DeployTypeStep
  <2> QED
    BY <2>1, <2>2, <2>4 DEF DeployInv
<1> QED
  BY <1>1, <1>2, PTL DEF DeploySpec

\* Whatever the command lines, the launch files and the order of the two sides,
\* every program has an address of the right kind, the cached embedding is of a
\* backend there is and the last path is one an adapter or the node makes
\* (cmd_run, the launch files, _action_tick).
THEOREM DeployTypeCorrect == DeploySpec => []DeployTypeOK
<1>1. DeployInv => DeployTypeOK
  BY DEF DeployInv
<1> QED
  BY <1>1, DeployInductive, PTL

\* No command line and no launch file starts a program whose checkpoint files
\* the download scripts did not leave under the names and steps it looks for
\* (run.sh, _resolve_path); and a node that has come to inactive or active has
\* an adapter that loaded, through every cleanup, error and second stack
\* (on_configure).
THEOREM StartedCanLoad == DeploySpec => [](Programs /\ Equipped)
<1>1. DeployInv => Programs /\ Equipped
  BY DEF DeployInv
<1> QED
  BY <1>1, DeployInductive, PTL
=============================================================================
