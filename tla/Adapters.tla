------------------------------ MODULE Adapters ------------------------------
(***************************************************************************)
(* What the backends (raspicat_vla_remote/backends) put into an embedding  *)
(* and what the adapters (raspicat_vla_edge/adapters) take it for.  The    *)
(* message between them tells the number of tokens and the width of one,   *)
(* but not what the numbers mean.                                          *)
(*                                                                         *)
(* An embedding is the width of a token and what it means.  A path is      *)
(* fixed, meant (it leads where the model wanted) or misread (it is built  *)
(* from numbers that mean something else); stop is an exception, for which *)
(* the edge node publishes the empty path.                                 *)
(***************************************************************************)
EXTENDS Naturals

\* ACTION_DIM (x, y, cos, sin), and the width AsyncVLA's projector and the dummy
\* have by default.
ActionDim == 4
FeatureDim == 1024

DummyInfer == [dim |-> FeatureDim, means |-> "constants"]

\* Predicted actions, reshaped to NUM_ACTIONS_CHUNK rows.
OmniVLAInfer == [dim |-> ActionDim, means |-> "waypoints"]

\* The projection of the hidden states, with no action head.
AsyncVLAInfer == [dim |-> FeatureDim, means |-> "features"]

StubPath(e) == "fixed"

\* Faulty: rejects four columns.
OmniVLAPathNarrow(e) ==
  IF e.dim <= ActionDim THEN "stop" ELSE IF e.means = "waypoints" THEN "meant" ELSE "misread"

\* The first four columns of however many.
OmniVLAPath(e) ==
  IF e.dim < ActionDim THEN "stop" ELSE IF e.means = "waypoints" THEN "meant" ELSE "misread"

\* Edge_adapter is built for features of 1024 and cannot take others.
AsyncVLAPath(e) ==
  IF e.dim # FeatureDim THEN "stop" ELSE IF e.means = "features" THEN "meant" ELSE "misread"

-----------------------------------------------------------------------------
(* The checkpoint files both sides load: a module and the training step. *)

\* What the two download scripts leave in the directories they fill.
OnDisk(dir) ==
  CASE dir = "AsyncVLA_release" ->
         {"action_head", "action_proj", "pose_projector", "shead"} \X {750000}
    [] dir = "omnivla-original" -> {"action_head", "proprio_projector"} \X {120000}

\* Faulty: no second name for the pose projector.
ResolvesFirstName(module, w) == <<module, w.step>> \in OnDisk(w.dir)

\* _resolve_path finds a file, in the directory and with the step of w.
Resolves(module, w) ==
  \/ <<module, w.step>> \in OnDisk(w.dir)
  \/ module = "pose_projector" /\ <<"proprio_projector", w.step>> \in OnDisk(w.dir)

\* What the constructors load beside the backbone.
OmniVLAHeads == {"pose_projector", "action_head"}
AsyncVLAHeads == {"pose_projector", "action_head", "action_proj"}

\* _build_backend: the constructor gets all it loads.
BackendLoads(backend, w) ==
  /\ backend = "omnivla" => \A module \in OmniVLAHeads : Resolves(module, w)
  /\ backend = "asyncvla" => \A module \in AsyncVLAHeads : Resolves(module, w)

\* That of AsyncVLAEdgeAdapter, which looks for its file by itself, and needs
\* torch and the packages of the model.
AdapterLoads(adapter, packages, w) ==
  adapter = "asyncvla" => packages /\ <<"shead", w.step>> \in OnDisk(w.dir)

-----------------------------------------------------------------------------
Embedding(backend) ==
  CASE backend = "dummy" -> DummyInfer
    [] backend = "omnivla" -> OmniVLAInfer
    [] backend = "asyncvla" -> AsyncVLAInfer

PredictPath(adapter, e) ==
  CASE adapter = "stub" -> StubPath(e)
    [] adapter = "omnivla" -> OmniVLAPath(e)
    [] adapter = "asyncvla" -> AsyncVLAPath(e)
=============================================================================
