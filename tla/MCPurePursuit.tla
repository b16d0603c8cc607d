--------------------------- MODULE MCPurePursuit ---------------------------
(* TLC instance of Steering: the default lookahead and max_v in units of    *)
(* 0.1 m, and half the default max_w, which the arcs do not reach.          *)
EXTENDS Steering
MCPoint ==
  [x : {-4, 0, 3}, y : {-4, 0, 3}] \cup
  {[x |-> 1, y |-> 3], [x |-> 5, y |-> 1], [x |-> 5, y |-> 0],
   [x |-> Inf, y |-> 0], [x |-> MinusInf, y |-> 3], [x |-> Inf, y |-> Inf],
   [x |-> 3, y |-> NaN], [x |-> NaN, y |-> NaN]}
MCArriving == UNION {[1 .. n -> MCPoint] : n \in 1 .. 2}
MCStep ==
  [x : {3}, y : {0}, turn : 0 .. 3] \cup
  {[x |-> 0, y |-> -4, turn |-> 1], [x |-> 1, y |-> 1, turn |-> 2]}
=============================================================================
