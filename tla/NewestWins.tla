----------------------------- MODULE NewestWins -----------------------------
(***************************************************************************)
(* What the embedding cache promises the edge node, with no lock, no       *)
(* clock and no notion of arrival order.  Replies are offered in any       *)
(* order, by any thread, any number of times.  Of everything offered since *)
(* the last invalidation, the view shows the newest reply above the        *)
(* floor, and nothing when there is none.                                  *)
(***************************************************************************)
EXTENDS Integers

CONSTANT Frame   \* the frame_ids that can be offered, natural numbers

VARIABLES
  offered,   \* frame_ids offered since the last invalidation
  floor,     \* frame_ids up to this one are refused; -1 refuses none
  view       \* the frame_id shown, or -1 for none

vars == <<offered, floor, view>>

IsNewest(v, S) ==
  \/ S = {} /\ v = -1
  \/ v \in S /\ \A x \in S : x <= v

Admitted(S, fl) == {x \in S : x > fl}

Init == offered = {} /\ floor = -1 /\ view = -1

Offer(f) ==
  /\ offered' = offered \cup {f}
  /\ IsNewest(view', Admitted(offered', floor))
  /\ UNCHANGED floor

Forget(fl) ==
  /\ offered' = {}
  /\ floor' = fl
  /\ view' = -1

Next == (\E f \in Frame : Offer(f)) \/ (\E fl \in Frame \cup {floor} : Forget(fl))

Spec == Init /\ [][Next]_vars
=============================================================================
