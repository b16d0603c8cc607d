--------------------------- MODULE EmbeddingCache ---------------------------
(***************************************************************************)
(* The embedding cache under concurrent callers: receiver threads that     *)
(* take a reply, stamp it, and put it some time later (edge_node.py        *)
(* _on_embedding_received), and a node thread that invalidates.  Any       *)
(* thread may bring any frame_id at any moment, twice if it likes, which   *)
(* is what reconnections and leftover client threads can produce.          *)
(***************************************************************************)
EXTENDS CacheOps

CONSTANTS
  Receiver,   \* the threads that call put()
  MaxFrame    \* bound: frame_ids are 0 .. MaxFrame

ASSUME MaxFrameAssumption == MaxFrame \in Nat

VARIABLES
  cache,     \* the shared EmbeddingCache
  inHand,    \* inHand[t]: the stamped reply thread t is about to put
  offered    \* history: frame_ids put since the last invalidation

vars == <<cache, inHand, offered>>

Frame == 0 .. MaxFrame
Embedding == [frame : Frame, age : 0 .. HardTimeout]

TypeOK ==
  /\ cache \in [latest : Embedding \cup {NoEmbedding}, floor : Frame \cup {NoFloor}]
  /\ inHand \in [Receiver -> Embedding \cup {NoEmbedding}]
  /\ offered \subseteq Frame

Init ==
  /\ cache = EmptyCache
  /\ inHand = [t \in Receiver |-> NoEmbedding]
  /\ offered = {}

\* The reply is stamped with the current time before the cache is touched.
Stamp(t) ==
  /\ inHand[t] = NoEmbedding
  /\ \E f \in Frame : inHand' = [inHand EXCEPT ![t] = [frame |-> f, age |-> 0]]
  /\ UNCHANGED <<cache, offered>>

PutStamped(t) ==
  /\ inHand[t] # NoEmbedding
  /\ cache' = Put(cache, inHand[t])
  /\ offered' = offered \cup {inHand[t].frame}
  /\ inHand' = [inHand EXCEPT ![t] = NoEmbedding]

Drop ==
  /\ cache' = Invalidate(cache)
  /\ offered' = {}
  /\ UNCHANGED inHand

DropTo(f) ==
  /\ cache' = InvalidateTo(cache, f)
  /\ offered' = {}
  /\ UNCHANGED inHand

\* Time passes for the held embedding and for every reply in hand.
Tick ==
  /\ cache' = Aged(cache)
  /\ inHand' = [t \in Receiver |-> Older(inHand[t])]
  /\ UNCHANGED offered

Next ==
  \/ \E t \in Receiver : Stamp(t) \/ PutStamped(t)
  \/ Drop
  \/ \E f \in Frame : DropTo(f)
  \/ Tick

Spec == Init /\ [][Next]_vars

-----------------------------------------------------------------------------
\* The cache implements its abstract promise: whatever the arrival order, it
\* shows the newest reply offered since the last invalidation that is above
\* the floor (put() and invalidate() of embedding_cache.py).
Promise == INSTANCE NewestWins WITH view <- cache.latest.frame, floor <- cache.floor
ShowsNewest == Promise!Spec

Severity(s) ==
  CASE s = "OK" -> 0 [] s = "DEGRADED" -> 1 [] s = "STALE" -> 2 [] OTHER -> 3

\* An embedding never gets younger: while the cache keeps showing the same
\* frame, its status only degrades.  A duplicate or late reply for that frame
\* must not renew it, or a dead remote could look alive (put(), status()).
NeverRejuvenated ==
  [][cache'.latest.frame = cache.latest.frame
       => Severity(Status(cache')) >= Severity(Status(cache))]_vars

\* The two readers agree at both thresholds: get_fresh() returns an embedding
\* exactly when status() reports OK.
FreshIffOK == GetFresh(cache) # NoEmbedding <=> Status(cache) = "OK"
=============================================================================
