---------------------------- MODULE GoalPipeline ----------------------------
(***************************************************************************)
(* The way of a goal from its ROS message to the model: the proto message  *)
(* the edge node sends (edge_node.py), the arguments the server gives to   *)
(* infer() (server.py), the batch that both real backends build from them  *)
(* (omnivla_data_transform.py), and whether infer() gets an action chunk   *)
(* out of the model.  One goal is followed, step by step.                  *)
(*                                                                         *)
(* Of a text it matters whether it is empty, the placeholder 'xxxx', or an *)
(* instruction, and how many tokens its prompt takes; of image bytes,      *)
(* whether they can be decoded; of a pose, the position and whether there  *)
(* is a yaw; of the pixels, which pictures they are.  None is NoValue.     *)
(***************************************************************************)
EXTENDS Integers, Sequences

CONSTANTS
  Instruction,  \* texts that say something
  Position,     \* (x, y) of a goal pose
  Origin,       \* the position (0, 0)
  Tokens,       \* Tokens[text]: length of the prompt before the action chunk
  ChunkTokens,  \* NUM_ACTIONS_CHUNK * ACTION_DIM: a token for every number
  ModelMax,     \* model_max_length of the tokenizer
  NoValue

VARIABLES
  at,    \* how far the goal has come: ros, wire, infer, model, reply; or
         \* refused (not sent), failed (infer() has raised)
  ros,   \* the ROS message, as the user sent it
  wire,  \* the proto message
  args,  \* the goal arguments of infer()
  batch  \* what the model is given

vars == <<at, ros, wire, args, batch>>

Text == Instruction \cup {"empty", "xxxx"}
Bytes == {"jpeg", "broken"}
Pose == [xy : Position, yaw : {"zero", "some"}]

\* None is told apart from what the fields hold.
ASSUME GoalValueAssumption ==
  /\ NoValue \notin Pose \cup Text \cup Bytes
  /\ Instruction \cap {"empty", "xxxx"} = {}
  /\ Origin \in Position

ASSUME TokenAssumption ==
  /\ Tokens \in [Instruction -> Nat]
  /\ ChunkTokens \in Nat \ {0} /\ ModelMax \in Nat

PoseMode == 0
TextMode == 1
ImageMode == 2

\* GoalSpec.msg has every field, whatever the mode.
RosGoal == [mode : 0 .. 3, pose : Pose, text : Text, image : Bytes]

\* _ros_goal_to_proto: the mode picks one field; the yaw is not extracted.
Known(g) == g.mode \in {PoseMode, TextMode, ImageMode}

RosGoalToProto(g) ==
  CASE g.mode = PoseMode  -> [mode |-> g.mode, pose |-> [g.pose EXCEPT !.yaw = "zero"]]
    [] g.mode = TextMode  -> [mode |-> g.mode, text |-> g.text]
    [] g.mode = ImageMode -> [mode |-> g.mode, image |-> g.image]

\* Faulty: an unset pose is a pose.
ProtoGoalToPoseAlways(p) ==
  LET unset == [xy |-> CHOOSE xy \in Position : TRUE, yaw |-> "zero"] IN
  CASE p.mode = PoseMode  -> [pose |-> p.pose, text |-> "empty", image |-> NoValue]
    [] p.mode = TextMode  -> [pose |-> unset, text |-> p.text, image |-> NoValue]
    [] p.mode = ImageMode -> [pose |-> unset, text |-> "empty", image |-> NoValue]

\* _proto_goal_to_python: an image that cannot be decoded is None.  (No edge
\* node sends a fourth mode; it would give None throughout.)
ProtoGoalToPython(p) ==
  CASE p.mode = PoseMode  -> [pose |-> p.pose, text |-> "empty", image |-> NoValue]
    [] p.mode = TextMode  -> [pose |-> NoValue, text |-> p.text, image |-> NoValue]
    [] p.mode = ImageMode ->
         [pose |-> NoValue, text |-> "empty",
          image |-> IF p.image = "jpeg" THEN p.image ELSE NoValue]

\* The kinds of goal infer() finds in its arguments, ...
Present(a) ==
  {k \in {"lang", "pose", "image"} :
     \/ k = "lang" /\ a.text # "empty"
     \/ k = "pose" /\ a.pose # NoValue
     \/ k = "image" /\ a.image # NoValue}

\* Faulty: 5 and 6 swapped.
DetermineModalityIdSwapped(has) ==
  CASE has = {"pose"} -> 4
    [] has = {"pose", "image"} -> 6
    [] has = {"image"} -> 5
    [] has = {"lang", "pose"} -> 8
    [] OTHER -> 7

\* ... and the number determine_modality_id gives to them.  No caller has a
\* satellite image, which leaves out 0 to 3; 7 is also the fallback.
DetermineModalityId(has) ==
  CASE has = {"pose"} -> 4
    [] has = {"pose", "image"} -> 5
    [] has = {"image"} -> 6
    [] has = {"lang", "pose"} -> 8
    [] OTHER -> 7

\* Faulty: the placeholder is an instruction.
PromptWithPlaceholder(text) == IF text = "empty" THEN NoValue ELSE text

\* _build_conversation: NoValue stands for 'No language instruction'.
Prompt(text) == IF text \in {"empty", "xxxx"} THEN NoValue ELSE text

\* Faulty: pose_dim is 2, and the heading is left out.
PackPosition(pose) ==
  [xy |-> IF pose = NoValue THEN Origin ELSE pose.xy, heading |-> <<0, 0>>]

\* _goal_pose_cos_sin with the pose_dim 4 of the model: (x, y, cos, sin), and
\* zeros without a pose.  Of a yaw other than zero it only matters that its
\* cosine and sine are not both 0.
GoalPoseCosSin(pose) ==
  IF pose = NoValue
  THEN [xy |-> Origin, heading |-> <<0, 0>>]
  ELSE [xy |-> pose.xy, heading |-> IF pose.yaw = "zero" THEN <<1, 0>> ELSE <<0, 1>>]

\* Tokens before the action chunk; the placeholder's prompt has none to speak of.
PromptTokens(text) == IF text \in Instruction THEN Tokens[text] ELSE 0

\* Faulty: the beginning of a long prompt is cut off.
CutTheBeginning(text) ==
  {i \in 1 .. PromptTokens(text) + ChunkTokens :
     i > PromptTokens(text) + ChunkTokens - ModelMax}

\* The tokens that are left of prompt and chunk: [:, :model_max] cuts the end,
\* where the chunk is.
TokensKept(text) ==
  {i \in 1 .. PromptTokens(text) + ChunkTokens : i <= ModelMax}

\* Faulty, though the docstring and a test have it: without a goal image there
\* are the pixels of the current image only.
PixelsOfCurrentAlone(image) ==
  IF image = NoValue THEN <<"current">> ELSE <<"current", image>>

\* Current and goal image, three channels each, one after the other; without a
\* goal image its channels are zeros.
Pixels(image) == <<"current", IF image = NoValue THEN "zeros" ELSE image>>

\* build_inference_batch.
InferenceBatch(a) ==
  [modality |-> DetermineModalityId(Present(a)),
   prompt |-> Prompt(a.text), kept |-> TokensKept(a.text),
   pose |-> GoalPoseCosSin(a.pose), pixels |-> Pixels(a.image)]

\* num_images_in_input: the model splits the pixels into that many images.
ImagesInInput == 2

\* infer() selects the hidden states at the action tokens (the labels mask all
\* that is before) and reshapes them into a chunk.  Not one left cannot be
\* reshaped; some left may pass for fewer features per action, which the action
\* head, code of the model, does not take.
ChunkIsWhole(a, kept) ==
  \A i \in PromptTokens(a.text) + 1 .. PromptTokens(a.text) + ChunkTokens : i \in kept

-----------------------------------------------------------------------------
Init ==
  /\ at = "ros" /\ ros \in RosGoal
  /\ wire = NoValue /\ args = NoValue /\ batch = NoValue

\* _send_observation_tick: an unknown mode raises, and nothing is sent.
ConvertOnEdge ==
  /\ at = "ros"
  /\ \/ Known(ros) /\ wire' = RosGoalToProto(ros) /\ at' = "wire"
     \/ ~Known(ros) /\ UNCHANGED wire /\ at' = "refused"
  /\ UNCHANGED <<ros, args, batch>>

\* StreamInfer, before infer().
ConvertOnServer ==
  /\ at = "wire"
  /\ args' = ProtoGoalToPython(wire) /\ at' = "infer"
  /\ UNCHANGED <<ros, wire, batch>>

\* infer(), before the model is called.
BuildBatch ==
  /\ at = "infer"
  /\ batch' = InferenceBatch(args) /\ at' = "model"
  /\ UNCHANGED <<ros, wire, args>>

\* The rest of infer(); StreamInfer yields the reply, or ends the stream with
\* INTERNAL.
RunModel ==
  /\ at = "model"
  /\ at' = IF Len(batch.pixels) = ImagesInInput /\ ChunkIsWhole(args, batch.kept)
           THEN "reply" ELSE "failed"
  /\ UNCHANGED <<ros, wire, args, batch>>

Next == ConvertOnEdge \/ ConvertOnServer \/ BuildBatch \/ RunModel

Spec == Init /\ [][Next]_vars

-----------------------------------------------------------------------------
\* infer() has given the batch to the model.
Built == at \in {"model", "reply", "failed"}

PoseTensor == [xy : Position, heading : {<<0, 0>>, <<1, 0>>, <<0, 1>>}]
NoPose == [xy |-> Origin, heading |-> <<0, 0>>]

TypeOK ==
  /\ at \in {"ros", "wire", "infer", "model", "reply", "failed", "refused"}
  /\ ros \in RosGoal
  /\ Built \/ at = "infer" => args \in
       [pose : Pose \cup {NoValue}, text : Text, image : {"jpeg", NoValue}]
  /\ Built => batch \in
       [modality : 4 .. 8, prompt : Instruction \cup {NoValue}, kept : SUBSET (1 .. ModelMax),
        pose : PoseTensor, pixels : {"current"} \X {"jpeg", "zeros"}]

\* The modality_id and the batch agree: a slot the number tells the model to
\* look at is filled, and one it tells it to ignore is zeros; a goal at the
\* origin is not taken for none.  Only a prompt may be missing where one is
\* expected.  The number never leaves out the second image: whatever the
\* modality, there are the pixels of as many images as the model splits them
\* into, the current one first (determine_modality_id against
\* build_inference_batch and _goal_pose_cos_sin, which decide independently).
BatchMatchesModality ==
  Built =>
    /\ Len(batch.pixels) = ImagesInInput /\ batch.pixels[1] = "current"
    /\ batch.pixels[2] # "zeros" <=> batch.modality \in {5, 6}
    /\ batch.pose # NoPose <=> batch.modality \in {4, 5, 8}
    /\ batch.prompt # NoValue => batch.modality \in {7, 8}

\* The model gets the goal the user chose and nothing else: the field the mode
\* names arrives, apart from the yaw, and the other fields of the message,
\* whatever they hold, do not (all three conversions).  What it answers, it
\* answers to the whole instruction: a prompt that is too long is not cut
\* short in silence but makes infer() raise.
ModelGetsChosenGoal ==
  /\ Built =>
       /\ batch.pose # NoPose <=> ros.mode = PoseMode
       /\ batch.pose # NoPose => batch.pose.xy = ros.pose.xy
       /\ batch.prompt # NoValue => ros.mode = TextMode /\ batch.prompt = ros.text
       /\ ros.mode = TextMode /\ ros.text \in Instruction => batch.prompt = ros.text
       /\ batch.pixels[2] = "jpeg" <=> ros.mode = ImageMode /\ ros.image = "jpeg"
  /\ at = "reply" /\ batch.prompt # NoValue =>
       1 .. Tokens[batch.prompt] \subseteq batch.kept
=============================================================================
