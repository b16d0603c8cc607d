------------------------- MODULE GoalPipelineProofs -------------------------
(***************************************************************************)
(* Proofs about GoalPipeline, for every set of texts and positions.        *)
(***************************************************************************)
EXTENDS GoalPipeline, TLAPS

\* Every stage's value is the conversion of the stage before, and a reply has
\* a whole chunk.
Converted ==
  /\ at \in {"wire", "infer"} \/ Built => Known(ros) /\ wire = RosGoalToProto(ros)
  /\ at = "infer" \/ Built => args = ProtoGoalToPython(wire)
  /\ Built => batch = InferenceBatch(args)
  /\ at = "reply" => ChunkIsWhole(args, batch.kept)

IInv ==
  /\ at \in {"ros", "wire", "infer", "model", "reply", "failed", "refused"}
  /\ ros \in RosGoal
  /\ Converted

LEMMA InitHolds == Init => IInv
BY DEF Init, IInv, Converted, Built

LEMMA StepPreserves == IInv /\ [Next]_vars => IInv'
<1> SUFFICES ASSUME IInv, [Next]_vars
             PROVE  IInv'
  OBVIOUS
<1>1. CASE ConvertOnEdge
  BY <1>1 DEF ConvertOnEdge, IInv, Converted, Built
<1>2. CASE ConvertOnServer
  BY <1>2 DEF ConvertOnServer, IInv, Converted, Built
<1>3. CASE BuildBatch
  BY <1>3 DEF BuildBatch, IInv, Converted, Built
<1>4. CASE RunModel
  BY <1>4 DEF RunModel, IInv, Converted, Built, ChunkIsWhole, PromptTokens
<1>5. CASE UNCHANGED vars
  BY <1>5 DEF vars, IInv, Converted, Built, ChunkIsWhole, PromptTokens
<1> QED
  BY <1>1, <1>2, <1>3, <1>4, <1>5 DEF Next

LEMMA InvariantHolds == Spec => []IInv
BY InitHolds, StepPreserves, PTL DEF Spec

\* What infer() is given for a goal of each mode.
LEMMA ArgsByMode ==
  ASSUME IInv, at = "infer" \/ Built
  PROVE  \/ /\ ros.mode = PoseMode
            /\ args.pose = [ros.pose EXCEPT !.yaw = "zero"]
            /\ args.text = "empty" /\ args.image = NoValue
         \/ /\ ros.mode = TextMode
            /\ args.pose = NoValue /\ args.text = ros.text /\ args.image = NoValue
         \/ /\ ros.mode = ImageMode
            /\ args.pose = NoValue /\ args.text = "empty"
            /\ args.image = IF ros.image = "jpeg" THEN "jpeg" ELSE NoValue
<1> USE DEF PoseMode, TextMode, ImageMode
<1>1. /\ Known(ros) /\ wire = RosGoalToProto(ros) /\ args = ProtoGoalToPython(wire)
  BY DEF IInv, Converted
<1>2. CASE ros.mode = PoseMode
  <2>1. wire.mode = 0
    BY <1>1, <1>2 DEF RosGoalToProto
  <2>2. wire.pose = [ros.pose EXCEPT !.yaw = "zero"]
    BY <1>1, <1>2 DEF RosGoalToProto
  <2>3. args = [pose |-> wire.pose, text |-> "empty", image |-> NoValue]
    BY <1>1, <2>1 DEF ProtoGoalToPython
  <2> QED
    BY <1>2, <2>2, <2>3
<1>3. CASE ros.mode = TextMode
  <2>1. wire.mode = 1 /\ wire.text = ros.text
    BY <1>1, <1>3 DEF RosGoalToProto
  <2>2. args = [pose |-> NoValue, text |-> wire.text, image |-> NoValue]
    BY <1>1, <2>1 DEF ProtoGoalToPython
  <2> QED
    BY <1>3, <2>1, <2>2
<1>4. CASE ros.mode = ImageMode
  <2>1. wire.mode = 2 /\ wire.image = ros.image
    BY <1>1, <1>4 DEF RosGoalToProto
  <2>2. args.pose = NoValue /\ args.text = "empty"
    BY <1>1, <2>1 DEF ProtoGoalToPython
  <2>3. CASE ros.image = "jpeg"
    <3>1. args.image = "jpeg"
      BY <1>1, <2>1, <2>3 DEF ProtoGoalToPython
    <3> QED
      BY <1>4, <2>2, <2>3, <3>1
  <2>4. CASE ros.image # "jpeg"
    <3>1. args.image = NoValue
      BY <1>1, <2>1, <2>4 DEF ProtoGoalToPython
    <3> QED
      BY <1>4, <2>2, <2>4, <3>1
  <2> QED
    BY <2>3, <2>4
<1> QED
  BY <1>1, <1>2, <1>3, <1>4 DEF Known

\* A pose is told apart from no pose by its heading.
LEMMA PoseIsSeen ==
  ASSUME NEW a, a.pose # NoValue => a.pose \in Pose
  PROVE  /\ InferenceBatch(a).pose # NoPose <=> a.pose # NoValue
         /\ a.pose # NoValue => InferenceBatch(a).pose.xy = a.pose.xy
<1> DEFINE t == InferenceBatch(a).pose
<1>1. t = GoalPoseCosSin(a.pose)
  BY DEF InferenceBatch
<1>2. CASE a.pose = NoValue
  BY <1>1, <1>2 DEF GoalPoseCosSin, NoPose
<1>3. CASE a.pose # NoValue
  <2>1. t.xy = a.pose.xy /\ (t.heading = <<1, 0>> \/ t.heading = <<0, 1>>)
    BY <1>1, <1>3 DEF GoalPoseCosSin
  <2>2. <<1, 0>> # <<0, 0>> /\ <<0, 1>> # <<0, 0>>
    OBVIOUS
  <2>3. NoPose.heading = <<0, 0>>
    BY DEF NoPose
  <2>4. t # NoPose
    BY <2>1, <2>2, <2>3
  <2> QED
    BY <1>3, <2>1, <2>4
<1> QED
  BY <1>2, <1>3

\* The pixels are always those of two images, and tell which the second is.
LEMMA TwoImages ==
  ASSUME NEW a, a.image \in {"jpeg", NoValue}
  PROVE  LET pixels == InferenceBatch(a).pixels IN
         /\ Len(pixels) = ImagesInInput /\ pixels[1] = "current"
         /\ pixels[2] # "zeros" <=> a.image # NoValue
         /\ pixels[2] = "jpeg" <=> a.image # NoValue
<1>1. InferenceBatch(a).pixels = Pixels(a.image)
  BY DEF InferenceBatch
<1>2. NoValue # "jpeg"
  BY GoalValueAssumption DEF Bytes
<1>3. CASE a.image = NoValue
  BY <1>1, <1>2, <1>3 DEF Pixels, ImagesInInput
<1>4. CASE a.image = "jpeg"
  BY <1>1, <1>2, <1>4 DEF Pixels, ImagesInInput
<1> QED
  BY <1>3, <1>4

\* A chunk that is whole leaves the prompt whole: the end is cut first.
LEMMA WholePrompt ==
  ASSUME NEW a, a.text \in Instruction, ChunkIsWhole(a, TokensKept(a.text))
  PROVE  1 .. Tokens[a.text] \subseteq TokensKept(a.text)
<1> DEFINE n == Tokens[a.text]
<1>1. n \in Nat /\ PromptTokens(a.text) = n /\ ChunkTokens \in Nat /\ ChunkTokens > 0
      /\ ModelMax \in Nat
  BY TokenAssumption DEF PromptTokens
<1>2. TokensKept(a.text) = {i \in 1 .. n + ChunkTokens : i <= ModelMax}
  BY <1>1 DEF TokensKept
<1>3. \A i \in n + 1 .. n + ChunkTokens : i \in TokensKept(a.text)
  BY <1>1 DEF ChunkIsWhole
<1> HIDE DEF n
<1>4. n + ChunkTokens \in n + 1 .. n + ChunkTokens
  BY <1>1
<1>5. n + ChunkTokens <= ModelMax
  BY <1>2, <1>3, <1>4
<1>6. 1 .. n \subseteq TokensKept(a.text)
  BY <1>1, <1>2, <1>5
<1> QED
  BY <1>6 DEF n

\* Type correctness: what each conversion yields is what the next one takes.
THEOREM TypeCorrect == Spec => []TypeOK
<1>1. IInv => TypeOK
  <2> SUFFICES ASSUME IInv
               PROVE  TypeOK
    OBVIOUS
  <2>1. ros \in RosGoal /\ ros.pose \in Pose /\ ros.text \in Text
        /\ [ros.pose EXCEPT !.yaw = "zero"] \in Pose
    BY DEF IInv, RosGoal, Pose
  <2>2. ASSUME at = "infer" \/ Built
        PROVE  args \in [pose : Pose \cup {NoValue}, text : Text, image : {"jpeg", NoValue}]
    <3>1. args = [pose |-> args.pose, text |-> args.text, image |-> args.image]
      BY <2>2 DEF IInv, Converted, ProtoGoalToPython, RosGoalToProto, Known,
                  PoseMode, TextMode, ImageMode
    <3>2. /\ args.pose \in Pose \cup {NoValue} /\ args.text \in Text
          /\ args.image \in {"jpeg", NoValue}
      BY <2>1, <2>2, ArgsByMode DEF Text
    <3> QED
      BY <3>1, <3>2
  <2>3. ASSUME Built
        PROVE  batch \in [modality : 4 .. 8, prompt : Instruction \cup {NoValue},
                           kept : SUBSET (1 .. ModelMax), pose : PoseTensor,
                           pixels : {"current"} \X {"jpeg", "zeros"}]
    <3>1. batch = InferenceBatch(args)
      BY <2>3 DEF IInv, Converted
    <3>2. DetermineModalityId(Present(args)) \in 4 .. 8
      BY DEF DetermineModalityId
    <3>3. Prompt(args.text) \in Instruction \cup {NoValue}
      BY <2>2, <2>3 DEF Prompt, Text
    <3>4. TokensKept(args.text) \in SUBSET (1 .. ModelMax)
      <4>1. PromptTokens(args.text) \in Nat
        BY TokenAssumption DEF PromptTokens
      <4> QED
        BY <4>1, TokenAssumption DEF TokensKept
    <3>5. GoalPoseCosSin(args.pose) \in PoseTensor
      BY <2>2, <2>3, GoalValueAssumption DEF GoalPoseCosSin, PoseTensor, Pose
    <3>6. Pixels(args.image) \in {"current"} \X {"jpeg", "zeros"}
      BY <2>2, <2>3 DEF Pixels
    <3> QED
      BY <3>1, <3>2, <3>3, <3>4, <3>5, <3>6 DEF InferenceBatch
  <2> QED
    BY <2>1, <2>2, <2>3 DEF TypeOK, IInv
<1> QED
  BY <1>1, InvariantHolds, PTL

\* The model is given the goal the user chose and nothing of the message's
\* other fields (the three conversions together), and its answers are answers
\* to the whole of an instruction.
THEOREM ChosenGoalArrives == Spec => []ModelGetsChosenGoal
<1>1. IInv => ModelGetsChosenGoal
  <2> SUFFICES ASSUME IInv, Built
               PROVE  ModelGetsChosenGoal
    BY DEF ModelGetsChosenGoal, Built
  <2>1. /\ ros \in RosGoal /\ batch = InferenceBatch(args)
        /\ batch.prompt = Prompt(args.text)
        /\ batch.kept = TokensKept(args.text)
    BY DEF IInv, Converted, InferenceBatch
  <2>2. [ros.pose EXCEPT !.yaw = "zero"] \in Pose /\ ros.pose.xy = [ros.pose EXCEPT !.yaw = "zero"].xy
    BY <2>1 DEF RosGoal, Pose
  <2>3. /\ ros.mode \in {0, 1, 2}
        /\ args.pose # NoValue <=> ros.mode = 0
        /\ ros.mode = 0 => args.pose = [ros.pose EXCEPT !.yaw = "zero"]
        /\ args.text # "empty" => ros.mode = 1
        /\ ros.mode = 1 => args.text = ros.text
        /\ args.image # NoValue <=> ros.mode = 2 /\ ros.image = "jpeg"
    BY <2>2, ArgsByMode, GoalValueAssumption DEF Bytes, PoseMode, TextMode, ImageMode
  <2>4. batch.prompt # NoValue => ros.mode = 1 /\ batch.prompt = ros.text
    BY <2>1, <2>3 DEF Prompt
  <2>5. ros.mode = 1 /\ ros.text \in Instruction => batch.prompt = ros.text
    BY <2>1, <2>3, GoalValueAssumption DEF Prompt
  <2>6. /\ batch.pose # NoPose <=> args.pose # NoValue
        /\ args.pose # NoValue => batch.pose.xy = args.pose.xy
    BY <2>1, <2>2, <2>3, PoseIsSeen
  <2>7. batch.pose # NoPose => batch.pose.xy = ros.pose.xy
    BY <2>2, <2>3, <2>6
  <2>8. ASSUME at = "reply", batch.prompt # NoValue
        PROVE  1 .. Tokens[batch.prompt] \subseteq batch.kept
    <3>1. ros.mode = 1 /\ ros.text \in Text
      BY <2>1, <2>4, <2>8 DEF RosGoal
    <3>2. args.text \in Instruction /\ batch.prompt = args.text
      BY <2>1, <2>3, <2>8, <3>1 DEF Prompt, Text
    <3>3. ChunkIsWhole(args, TokensKept(args.text))
      BY <2>1, <2>8 DEF IInv, Converted
    <3> QED
      BY <2>1, <3>2, <3>3, WholePrompt
  <2>9. batch.pixels[2] = "jpeg" <=> args.image # NoValue
    <3>1. args.image \in {"jpeg", NoValue}
      BY ArgsByMode
    <3> QED
      BY <2>1, <3>1, TwoImages
  <2> QED
    BY <2>1, <2>3, <2>4, <2>5, <2>6, <2>7, <2>8, <2>9
       DEF ModelGetsChosenGoal, PoseMode, TextMode, ImageMode
<1> QED
  BY <1>1, InvariantHolds, PTL

\* The modality_id fits the batch: the slots it names are the ones filled
\* (determine_modality_id and build_inference_batch).
THEOREM ModalityFitsBatch == Spec => []BatchMatchesModality
<1>1. IInv => BatchMatchesModality
  <2> SUFFICES ASSUME IInv, Built
               PROVE  BatchMatchesModality
    BY DEF BatchMatchesModality
  <2>1. /\ batch = InferenceBatch(args)
        /\ batch.prompt = Prompt(args.text)
        /\ batch.modality = DetermineModalityId(Present(args))
    BY DEF IInv, Converted, InferenceBatch
  <2>2. ~(args.text # "empty" /\ args.image # NoValue)
    BY ArgsByMode
  <2>3. /\ "lang" \in Present(args) <=> args.text # "empty"
        /\ "pose" \in Present(args) <=> args.pose # NoValue
        /\ "image" \in Present(args) <=> args.image # NoValue
        /\ Present(args) \subseteq {"lang", "pose", "image"}
    BY DEF Present
  <2>4. /\ args.text # "empty" /\ args.pose # NoValue => Present(args) = {"lang", "pose"}
        /\ args.text # "empty" /\ args.pose = NoValue => Present(args) = {"lang"}
    BY <2>2, <2>3
  <2>5. args.text = "empty" =>
          Present(args) = (IF args.pose # NoValue THEN {"pose"} ELSE {})
                            \cup (IF args.image # NoValue THEN {"image"} ELSE {})
    BY <2>2, <2>3
  <2>6. /\ args.image # NoValue <=> batch.modality \in {5, 6}
        /\ args.pose # NoValue <=> batch.modality \in {4, 5, 8}
        /\ args.text # "empty" => batch.modality \in {7, 8}
    <3>1. CASE args.text # "empty" /\ args.pose # NoValue
      <4>1. batch.modality = 8
        BY <3>1, <2>1, <2>4 DEF DetermineModalityId
      <4> QED
        BY <3>1, <2>2, <4>1
    <3>2. CASE args.text # "empty" /\ args.pose = NoValue
      <4>1. batch.modality = 7
        BY <3>2, <2>1, <2>4 DEF DetermineModalityId
      <4> QED
        BY <3>2, <2>2, <4>1
    <3>3. CASE args.text = "empty" /\ args.pose # NoValue /\ args.image = NoValue
      <4>1. batch.modality = 4
        BY <3>3, <2>1, <2>5 DEF DetermineModalityId
      <4> QED
        BY <3>3, <4>1
    <3>4. CASE args.text = "empty" /\ args.pose # NoValue /\ args.image # NoValue
      <4>1. batch.modality = 5
        BY <3>4, <2>1, <2>5 DEF DetermineModalityId
      <4> QED
        BY <3>4, <4>1
    <3>5. CASE args.text = "empty" /\ args.pose = NoValue /\ args.image # NoValue
      <4>1. batch.modality = 6
        BY <3>5, <2>1, <2>5 DEF DetermineModalityId
      <4> QED
        BY <3>5, <4>1
    <3>6. CASE args.text = "empty" /\ args.pose = NoValue /\ args.image = NoValue
      <4>1. batch.modality = 7
        BY <3>6, <2>1, <2>5 DEF DetermineModalityId
      <4> QED
        BY <3>6, <4>1
    <3> QED
      BY <3>1, <3>2, <3>3, <3>4, <3>5, <3>6
  <2>7. args.pose # NoValue => args.pose \in Pose
    <3>1. ros \in RosGoal
      BY DEF IInv
    <3>2. [ros.pose EXCEPT !.yaw = "zero"] \in Pose
      BY <3>1 DEF RosGoal, Pose
    <3> QED
      BY <3>2, ArgsByMode
  <2>8. batch.pose # NoPose <=> args.pose # NoValue
    BY <2>1, <2>7, PoseIsSeen
  <2>9. /\ Len(batch.pixels) = ImagesInInput /\ batch.pixels[1] = "current"
        /\ batch.pixels[2] # "zeros" <=> args.image # NoValue
    <3>1. args.image \in {"jpeg", NoValue}
      BY ArgsByMode
    <3> QED
      BY <2>1, <3>1, TwoImages
  <2> QED
    BY <2>1, <2>6, <2>8, <2>9 DEF BatchMatchesModality, Prompt
<1> QED
  BY <1>1, InvariantHolds, PTL
=============================================================================
