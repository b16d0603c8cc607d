----------------------------- MODULE RunScript -----------------------------
(***************************************************************************)
(* The command `run` of docker/run.sh: from its arguments to the program   *)
(* that is started in a container, a model server (--remote) or the edge   *)
(* stack (--real, --sim), or to nothing.                                   *)
(*                                                                         *)
(* The value of --host is HOST[:PORT], kept as a pair.  Absent stands for  *)
(* the empty string and for a part that is left out; BadPort for a port    *)
(* that is empty, out of range or not a number.                            *)
(***************************************************************************)
EXTENDS Naturals, SequencesExt

CONSTANTS
  Host,         \* names of machines
  AnyHost,      \* 0.0.0.0
  Port,         \* valid ports
  DefaultPort,  \* GRPC_PORT
  BadPort,
  Absent,
  MaxOptions    \* bound on the options of one command

ASSUME ScriptAssumption ==
  /\ DefaultPort \in Port /\ MaxOptions \in Nat
  /\ Absent \notin Host \cup Port \cup {AnyHost} /\ BadPort \notin Port \cup {Absent}

Model == {"asyncvla", "omnivla"}

HostArg == [host : Host \cup {Absent}, port : Port \cup {Absent, BadPort}]
EmptyArg == [host |-> Absent, port |-> Absent]

\* Every word is an option with a value, which only that of --host has; a
\* --host that ends the line has lost its.
Option ==
  [word : {"--remote", "--real", "--sim", "--cpu", "--gpu", "--help", "unknown", "lone --host"},
   value : {EmptyArg}] \cup [word : {"--host"}, value : HostArg]

OptionList == BoundedSeq(Option, MaxOptions)

\* The local variables of cmd_run, and whether it goes on.
NoLocals == [mode |-> "none", device |-> "none", host |-> EmptyArg, goesOn |-> TRUE]

\* One turn of the loop.  Of repeated options the last one counts; --help and
\* errors end the command whatever was before.
ParseOption(l, o) ==
  CASE ~l.goesOn -> l
    [] l.goesOn /\ o.word \in {"--remote", "--real", "--sim"} -> [l EXCEPT !.mode = o.word]
    [] l.goesOn /\ o.word \in {"--cpu", "--gpu"} -> [l EXCEPT !.device = o.word]
    [] l.goesOn /\ o.word = "--host" -> [l EXCEPT !.host = o.value]
    [] OTHER -> [l EXCEPT !.goesOn = FALSE]

\* split_hostport prints host and port with a blank between them.
SplitHostport(raw, defaultHost) ==
  [host |-> IF raw.host = Absent THEN defaultHost ELSE raw.host,
   port |-> IF raw.port = Absent THEN DefaultPort ELSE raw.port]

\* Its caller reads two words: without a host the port is the first.
ReadPair(pair) ==
  IF pair.host = Absent THEN [host |-> pair.port, port |-> Absent] ELSE pair

Nothing == [kind |-> "nothing"]

\* WEIGHTS_DIR and RESUME_STEP.
Weights(model) ==
  CASE model = "asyncvla" -> [dir |-> "AsyncVLA_release", step |-> 750000]
    [] model = "omnivla" -> [dir |-> "omnivla-original", step |-> 120000]

\* server_main of the same name, bound to an address.
RunRemote(model, pair) ==
  [kind |-> "server", backend |-> model, host |-> pair.host, port |-> pair.port,
   weights |-> Weights(model)]

\* edge_only.launch.py: adapter and address from the command line, the weights
\* of the AsyncVLA adapter by default.
EdgeOnly(model, pair, full, camera) ==
  [kind |-> "edge", adapter |-> model, host |-> pair.host, port |-> pair.port,
   full |-> full, camera |-> camera, weights |-> Weights("asyncvla")]

\* mvp_sim.launch.py: the same with the images of the simulated robot and the
\* same weights.
MvpSim(model, pair) == EdgeOnly(model, pair, TRUE, TRUE)

\* Without the image of the real robot, that of the tests is taken.  The robot
\* has a camera.
RunReal(model, pair, image) == EdgeOnly(model, pair, image, TRUE)

\* Without the image of the simulator there is nobody who sends images.
RunSim(model, pair, image) ==
  IF image THEN MvpSim(model, pair) ELSE EdgeOnly(model, pair, FALSE, FALSE)

\* image: the image that belongs to the mode has been built.
CmdRun(model, options, image) ==
  LET l == FoldLeft(ParseOption, NoLocals, options)
      split == SplitHostport(l.host, IF l.mode = "--remote" THEN AnyHost ELSE Absent)
      pair == ReadPair(split)
      hostGiven == l.host # EmptyArg /\ pair.host # Absent
      sound == l.goesOn /\ split.port # BadPort
  IN CASE sound /\ l.mode = "--remote" /\ l.device # "none" /\ image -> RunRemote(model, pair)
       [] sound /\ l.mode = "--real" /\ hostGiven -> RunReal(model, pair, image)
       [] sound /\ l.mode = "--sim" /\ hostGiven -> RunSim(model, pair, image)
       [] OTHER -> Nothing

\* What the command can start.
Started ==
  {CmdRun(model, options, image) : model \in Model, options \in OptionList, image \in BOOLEAN}
    \ {Nothing}
=============================================================================
