--------------------------- MODULE MCGoalPipeline ---------------------------
(***************************************************************************)
(* TLC instance of GoalPipeline: prompts that leave room for the chunk,    *)
(* that leave just enough, that cut it off, and that are themselves cut.   *)
(***************************************************************************)
EXTENDS GoalPipeline

MCTokens ==
  [text \in Instruction |->
     CASE text = "forward" -> 1
       [] text = "to the door" -> 2
       [] text = "past the stairs" -> 4
       [] text = "all around the house" -> 6]
=============================================================================
