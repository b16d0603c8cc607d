----------------------------- MODULE Deployment -----------------------------
(***************************************************************************)
(* From commands to a robot that follows paths: the model server           *)
(* (server_main.py) on one machine and the edge stack on another, or both  *)
(* on one (the mvp launch files), started by docker/run.sh or by hand in   *)
(* any order; the server stopped and started again, with another model     *)
(* perhaps; the launch process bringing up the edge node (EdgeLaunch).     *)
(*                                                                         *)
(* Goals, images and the freshness of embeddings are left to EdgeNode: here *)
(* embeddings come as long as the node is connected and stay for some time *)
(* after.                                                                  *)
(***************************************************************************)
EXTENDS EdgeLaunch, RunScript, Adapters

CONSTANTS
  CloudHost,  \* the machine of the server
  NoProgram,  \* not started
  NoBackend   \* no embedding

ASSUME DeploymentAssumption == CloudHost \in Host

VARIABLES
  server,   \* the server's backend and address, or NoProgram
  serving,  \* FALSE while the server loads its model
  edge,     \* what the edge stack was started with, or NoProgram
  ticking,  \* the node's timers exist
  emb,      \* the backend of the cached embedding
  path      \* the last path: none, stop, fixed, meant, misread

stack == <<server, serving, edge, ticking, emb, path>>
deployVars == <<vars, stack>>

Backend == {"dummy", "omnivla", "asyncvla"}

Server == [kind : {"server"}, backend : Backend, host : Host \cup {AnyHost}, port : Port,
           weights : {Weights(m) : m \in Model}]
Edge == [kind : {"edge"}, adapter : {"stub", "omnivla", "asyncvla"},
         host : Host \cup Port, port : Port \cup {Absent}, full : BOOLEAN, camera : BOOLEAN,
         weights : {Weights(m) : m \in Model}]

DeployTypeOK ==
  /\ TypeOK
  /\ server \in Server \cup {NoProgram} /\ serving \in BOOLEAN
  /\ edge \in Edge \cup {NoProgram}
  /\ ticking \in BOOLEAN
  /\ emb \in Backend \cup {NoBackend}
  /\ path \in {"none", "stop", "fixed", "meant", "misread"}

DeployInit ==
  /\ Init
  /\ server = NoProgram /\ serving = FALSE /\ edge = NoProgram
  /\ ticking = FALSE /\ emb = NoBackend /\ path = "none"

-----------------------------------------------------------------------------
(* Programs *)

\* server_main with the backend of a name, on the default address.  Its default
\* weights are OmniVLA's; the launch file of AsyncVLA gives others.
ServerMain(backend) ==
  [kind |-> "server", backend |-> backend, host |-> AnyHost, port |-> DefaultPort,
   weights |-> Weights(IF backend = "asyncvla" THEN "asyncvla" ELSE "omnivla")]

LocalEdge(adapter, full) ==
  [kind |-> "edge", adapter |-> adapter, host |-> CloudHost, port |-> DefaultPort,
   full |-> full, camera |-> TRUE, weights |-> Weights("asyncvla")]

\* The launch files that start both; that of the dummy leaves the adapter to
\* edge_params.yaml.
MvpLocal(full) == [server |-> ServerMain("dummy"), edge |-> LocalEdge("stub", full)]
MvpOmnivla(full) == [server |-> ServerMain("omnivla"), edge |-> LocalEdge("omnivla", full)]
MvpAsyncvla(full) == [server |-> ServerMain("asyncvla"), edge |-> LocalEdge("asyncvla", full)]

Mvp == UNION {{MvpLocal(full), MvpOmnivla(full), MvpAsyncvla(full)} : full \in BOOLEAN}

LaunchMvp ==
  /\ server = NoProgram /\ edge = NoProgram
  /\ \E m \in Mvp : server' = m.server /\ edge' = m.edge
  /\ UNCHANGED <<vars, serving, ticking, emb, path>>

\* run.sh, or server_main with the dummy, which run.sh has no word for.
StartServer ==
  /\ server = NoProgram
  /\ server' \in {p \in Started : p.kind = "server"} \cup {ServerMain("dummy")}
  /\ UNCHANGED <<vars, serving, edge, ticking, emb, path>>

StartEdge ==
  /\ edge = NoProgram
  /\ edge' \in {p \in Started : p.kind = "edge"}
  /\ UNCHANGED <<vars, server, serving, ticking, emb, path>>

\* The model is loaded before the address is bound.
Serves ==
  /\ server # NoProgram /\ ~serving
  /\ server.host \in {AnyHost, CloudHost}
  /\ BackendLoads(server.backend, server.weights)
  /\ serving' = TRUE
  /\ UNCHANGED <<vars, server, edge, ticking, emb, path>>

\* No checkpoint, no device, an address of another machine; or SIGTERM.
ServerEnds ==
  /\ server # NoProgram
  /\ server' = NoProgram /\ serving' = FALSE
  /\ UNCHANGED <<vars, edge, ticking, emb, path>>

-----------------------------------------------------------------------------
(* The edge node *)

CanBuildAdapter == AdapterLoads(edge.adapter, edge.full, edge.weights)

\* A step of EdgeLaunch.  Activation makes the timers and deactivation destroys
\* them; shutdown leaves them.  Configuration makes a cache, cleanup drops it.
Lifecycle(step) ==
  /\ edge # NoProgram
  /\ step
  /\ lc = "unconfigured" /\ lc' = "inactive" => CanBuildAdapter
  /\ ticking' = CASE lc' = "active" -> TRUE
                  [] lc' = "inactive" -> FALSE
                  [] OTHER -> ticking
  /\ emb' = IF lc' = "unconfigured" THEN NoBackend ELSE emb
  /\ UNCHANGED <<server, serving, edge, path>>

\* The edge has images, and the address of the server.
Paired ==
  /\ server # NoProgram /\ edge # NoProgram /\ edge.camera
  /\ edge.host = CloudHost /\ edge.port = server.port

Connected == serving /\ Paired

Receive ==
  /\ lc = "active" /\ Connected
  /\ emb # server.backend
  /\ emb' = server.backend
  /\ UNCHANGED <<vars, server, serving, edge, ticking, path>>

\* The hard timeout.
GoesStale ==
  /\ emb # NoBackend /\ ~(lc = "active" /\ Connected)
  /\ emb' = NoBackend
  /\ UNCHANGED <<vars, server, serving, edge, ticking, path>>

\* Faulty: the fixed path needs no embedding.
ActionTickFixed ==
  /\ ticking
  /\ path' = IF emb = NoBackend THEN (IF edge.adapter = "stub" THEN "fixed" ELSE "stop")
             ELSE PredictPath(edge.adapter, Embedding(emb))
  /\ UNCHANGED <<vars, server, serving, edge, ticking, emb>>

ActionTick ==
  /\ ticking
  /\ path' = IF emb = NoBackend THEN "stop" ELSE PredictPath(edge.adapter, Embedding(emb))
  /\ UNCHANGED <<vars, server, serving, edge, ticking, emb>>

-----------------------------------------------------------------------------
DeployNext ==
  \/ LaunchMvp \/ StartServer \/ StartEdge \/ Serves \/ ServerEnds
  \/ Lifecycle(Next) \/ Receive \/ GoesStale \/ ActionTick

DeploySpec == DeployInit /\ [][DeployNext]_deployVars

\* The launch process and the node go on as in EdgeLaunch, a server that finds
\* its weights has loaded them at some time and then answers, time passes and
\* timers fire.  Nobody has to start anything.
DeployFairSpec ==
  /\ DeploySpec
  /\ WF_deployVars(Lifecycle(ProcessStarts)) /\ WF_deployVars(Lifecycle(ServeLaunch))
  /\ WF_deployVars(Lifecycle(ServeOperator)) /\ WF_deployVars(Lifecycle(OnStateTransition))
  /\ WF_deployVars(Serves) /\ WF_deployVars(Receive) /\ WF_deployVars(GoesStale) /\ WF_deployVars(ActionTick)

-----------------------------------------------------------------------------
\* A server and an edge of the same name, whether run.sh or a launch file started
\* them, in whichever order, and whatever server there was before, end up with a
\* robot on the paths its model means, if they stay and the edge has the server's
\* address: arguments, launch files, names of checkpoint files, lifecycle, the
\* backend's shape and the adapter's expectation fit each other.  An operator
\* who deactivates the node, or cleans it up and configures it again, does not
\* change that, since the launch file activates it again.  The one other end is
\* a node left unconfigured or finalized, and only if an operator has asked for
\* a cleanup or a shutdown or a callback has raised, which that of AsyncVLA's
\* adapter does on every try where it cannot be built (cmd_run to predict_path).
PairSteers ==
  <>[](Paired /\ server.backend = edge.adapter) =>
    \/ <>[](path = "meant")
    \/ /\ <>(failed \/ operator \in {"cleanup", "shutdown"})
       /\ <>[](lc \in {"unconfigured", "finalized"})

\* A robot whose server is gone, or was never reached, stops for good unless
\* the node has been deactivated; with the adapter that ignores embeddings too,
\* and after a shutdown, which leaves the timers (_action_tick).
GoneServerStops == <>[](~Connected) => <>[](ticking => path = "stop")

\* What the script says of --real and --sim ("needs a host part"): an edge stack
\* is started with the name of a machine.
EdgeNeedsHost == edge # NoProgram => edge.host \in Host
=============================================================================
