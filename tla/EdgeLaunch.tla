----------------------------- MODULE EdgeLaunch -----------------------------
(***************************************************************************)
(* Who moves the edge node through its lifecycle: edge_only.launch.py (and *)
(* the mvp launch files, which do the same) configures the node when its   *)
(* process has started and activates it whenever it has become inactive;   *)
(* an operator sends transitions of his own (ros2 lifecycle set).          *)
(*                                                                         *)
(* Requests from the two reach the node in any order, one at a time from   *)
(* each; transition events reach the launch process in order.  What a      *)
(* transition does inside the node is the subject of module EdgeNode.      *)
(***************************************************************************)
EXTENDS Integers, Sequences

CONSTANT MaxCommands   \* bound on the operator's commands

ASSUME LaunchAssumption == MaxCommands \in Nat

VARIABLES
  lc,        \* lifecycle state of the node; "off" before its process starts
  launched,  \* requests the launch process is about to make, oldest first
  events,    \* goal states of transitions the launch process has not seen yet
  operator,  \* the operator's request in progress, or "none"
  commands,  \* how many commands the operator gave
  failed     \* history: a configure or activate callback raised

vars == <<lc, launched, events, operator, commands, failed>>

Transition == {"configure", "activate", "deactivate", "cleanup", "shutdown"}

TypeOK ==
  /\ lc \in {"off", "unconfigured", "inactive", "active", "finalized"}
  /\ launched \in Seq({"configure", "activate"})
  /\ events \in Seq({"unconfigured", "inactive", "active", "finalized"})
  /\ operator \in Transition \cup {"none"}
  /\ commands \in 0 .. MaxCommands
  /\ failed \in BOOLEAN

Init ==
  /\ lc = "off" /\ launched = <<>> /\ events = <<>>
  /\ operator = "none" /\ commands = 0 /\ failed = FALSE

\* OnProcessStart.
ProcessStarts ==
  /\ lc = "off"
  /\ lc' = "unconfigured" /\ launched' = <<"configure">>
  /\ UNCHANGED <<events, operator, commands, failed>>

Possible(tr) ==
  CASE tr = "configure"  -> lc = "unconfigured"
    [] tr = "activate"   -> lc = "inactive"
    [] tr = "deactivate" -> lc = "active"
    [] tr = "cleanup"    -> lc = "inactive"
    [] tr = "shutdown"   -> lc \in {"unconfigured", "inactive", "active"}

Goal(tr) ==
  CASE tr = "configure" -> "inactive"  [] tr = "activate" -> "active"
    [] tr = "deactivate" -> "inactive" [] tr = "cleanup"  -> "unconfigured"
    [] tr = "shutdown" -> "finalized"

CanRaise(tr) == tr \in {"configure", "activate"}

\* Faulty: an activation that raises leaves the node inactive, ...
OutcomesBackToStart(tr) ==
  {Goal(tr)} \cup (CASE tr = "configure" -> {"unconfigured"} [] tr = "activate" -> {"inactive"}
                     [] OTHER -> {})

\* ... or in the state of error processing.
OutcomesInError(tr) == {Goal(tr)} \cup (IF CanRaise(tr) THEN {"errorprocessing"} ELSE {})

\* on_configure and on_activate may raise; error processing then leaves the
\* node unconfigured or finalized.
Outcomes(tr) ==
  {Goal(tr)} \cup (IF CanRaise(tr) THEN {"unconfigured", "finalized"} ELSE {})

\* The node serves a request; an impossible one is refused.
Serve(tr) ==
  \/ ~Possible(tr) /\ UNCHANGED <<lc, events, failed>>
  \/ /\ Possible(tr)
     /\ lc' \in Outcomes(tr)
     /\ events' = Append(events, lc')
     /\ failed' = (failed \/ lc' # Goal(tr))

ServeLaunch ==
  /\ launched # <<>> /\ lc # "off"
  /\ Serve(Head(launched))
  /\ launched' = Tail(launched)
  /\ UNCHANGED <<operator, commands>>

ServeOperator ==
  /\ operator # "none"
  /\ Serve(operator)
  /\ operator' = "none"
  /\ UNCHANGED <<launched, commands>>

Command ==
  /\ lc # "off" /\ operator = "none" /\ commands < MaxCommands
  /\ operator' \in Transition
  /\ commands' = commands + 1
  /\ UNCHANGED <<lc, launched, events, failed>>

\* Faulty: looks for the wrong goal state.
OnStateTransitionToActive ==
  /\ events # <<>>
  /\ launched' = IF Head(events) = "active" THEN Append(launched, "activate") ELSE launched
  /\ events' = Tail(events)
  /\ UNCHANGED <<lc, operator, commands, failed>>

\* Faulty: a node that an operator has had in hand is left to him.
OnStateTransitionUntilCommand ==
  /\ events # <<>>
  /\ launched' = IF Head(events) = "inactive" /\ commands = 0
                 THEN Append(launched, "activate") ELSE launched
  /\ events' = Tail(events)
  /\ UNCHANGED <<lc, operator, commands, failed>>

\* OnStateTransition(goal_state='inactive'), whatever the start state.
OnStateTransition ==
  /\ events # <<>>
  /\ launched' = IF Head(events) = "inactive" THEN Append(launched, "activate") ELSE launched
  /\ events' = Tail(events)
  /\ UNCHANGED <<lc, operator, commands, failed>>

Next ==
  \/ ProcessStarts \/ ServeLaunch \/ ServeOperator \/ Command \/ OnStateTransition

Spec == Init /\ [][Next]_vars

-----------------------------------------------------------------------------
\* The launch file never keeps the node going round: once the operator has
\* given the last command everything comes to rest, although every entry into
\* inactive asks for another activation, which may fail (on_inactive).
ComesToRest == <>[](launched = <<>> /\ events = <<>> /\ operator = "none")

\* Inactive is no state to stay in: whoever brings the node there, an operator
\* who wants it deactivated included, it is soon on its way to another state
\* (on_inactive, which ignores the start state).
InactiveDoesNotLast == lc = "inactive" ~> lc # "inactive"
=============================================================================
