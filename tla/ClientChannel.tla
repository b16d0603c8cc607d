---------------------------- MODULE ClientChannel ----------------------------
(***************************************************************************)
(* What a VLAClient promises its owner, and what the owner may do to it:   *)
(* ChannelOps as a state machine.  Observations carry increasing frame     *)
(* numbers; the reply to one carries the number of that one.  VLAClient    *)
(* implements it (ActsAsChannel), and all that EdgeNode does with a client *)
(* of its own is a step of it (UsesChannel).                               *)
(***************************************************************************)
EXTENDS ChannelOps

VARIABLES
  ch,     \* the channel
  newest  \* the last frame number given to send()

cvars == <<ch, newest>>

\* The numbers belong to the owner and may have been given to other clients before.
Init == ch = NewChannel /\ newest \in Nat

Start == ch' = Started(ch) /\ UNCHANGED newest

Stop == ch' = StopRequested(ch) /\ UNCHANGED newest

Send ==
  /\ newest' = newest + 1
  /\ ch' \in {ch, Sent(ch, [frame |-> newest'])}

\* The callback may return within the step.
Receive ==
  /\ \E obs \in ch.pending :
       /\ CanReceive(ch, obs)
       /\ LET taken == Received(ch, obs, obs) IN ch' \in {taken, HandedOver(taken)}
  /\ UNCHANGED newest

HandOver == ch.inHand # NoReply /\ ch' = HandedOver(ch) /\ UNCHANGED newest

Lose == (\E S \in SUBSET ch.pending : ch' = Kept(ch, S)) /\ UNCHANGED newest

Exit == CanExit(ch) /\ ch' = Exited(ch) /\ UNCHANGED newest

Next == Start \/ Stop \/ Send \/ Receive \/ HandOver \/ Lose \/ Exit

Spec == Init /\ [][Next]_cvars
=============================================================================
