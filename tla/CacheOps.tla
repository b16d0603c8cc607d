------------------------------ MODULE CacheOps ------------------------------
(***************************************************************************)
(* The EmbeddingCache of raspicat_vla_edge/embedding_cache.py as a value,  *)
(* and its operations as functions on that value.  Each operation of the   *)
(* class runs entirely under the cache's lock, so one function application *)
(* in an action is one call.                                               *)
(*                                                                         *)
(* Of an embedding the cache looks at two things only: the frame_id, and   *)
(* the time since reception.  The code stores recv_time_ns and compares    *)
(* monotonic_ns() - recv_time_ns with two thresholds; here an embedding    *)
(* carries that difference as its "age", which stops growing at            *)
(* HardTimeout because no comparison tells larger ages apart.              *)
(***************************************************************************)
EXTENDS Integers

CONSTANTS
  MaxAge,       \* embedding_max_age_sec, in ticks of the model's clock
  HardTimeout   \* embedding_hard_timeout_sec, in the same ticks

\* EmbeddingCache.__init__ raises ValueError when the thresholds are swapped.
ASSUME ThresholdAssumption ==
  /\ MaxAge \in Nat
  /\ HardTimeout \in Nat
  /\ MaxAge <= HardTimeout

\* `self._floor is None`: below every frame_id, which are unsigned.
NoFloor == -1

\* `self._latest is None`.
NoEmbedding == [frame |-> -1]

EmptyCache == [latest |-> NoEmbedding, floor |-> NoFloor]

\* Faulty variants, which the checked properties must reject, are kept beside
\* what they vary.  Here: put() renews the frame it already holds, ...
AcceptsSameFrame(c, e) ==
  /\ e.frame > c.floor
  /\ c.latest = NoEmbedding \/ e.frame >= c.latest.frame

\* ... or forgets the floor.
AcceptsBelowFloor(c, e) == c.latest = NoEmbedding \/ e.frame > c.latest.frame

\* The two rules of put(): above the floor, and newer than what is held.
Accepts(c, e) ==
  /\ e.frame > c.floor
  /\ c.latest = NoEmbedding \/ e.frame > c.latest.frame

Put(c, e) == IF Accepts(c, e) THEN [c EXCEPT !.latest = e] ELSE c

\* Faulty: refuses one frame too many.
InvalidateToNext(c, f) == [latest |-> NoEmbedding, floor |-> f + 1]

\* invalidate(floor=f); the floor is overwritten, not raised.
InvalidateTo(c, f) == [latest |-> NoEmbedding, floor |-> f]

\* invalidate() with no argument leaves the floor in place.
Invalidate(c) == InvalidateTo(c, c.floor)

\* Faulty: no hard timeout.
StatusNeverStale(c) ==
  CASE c.latest = NoEmbedding -> "WAITING_REMOTE"
    [] c.latest # NoEmbedding /\ c.latest.age >= MaxAge -> "DEGRADED"
    [] OTHER -> "OK"

Status(c) ==
  CASE c.latest = NoEmbedding -> "WAITING_REMOTE"
    [] c.latest # NoEmbedding /\ c.latest.age >= HardTimeout -> "STALE"
    [] c.latest # NoEmbedding /\ c.latest.age \in MaxAge .. (HardTimeout - 1) -> "DEGRADED"
    [] OTHER -> "OK"

\* Faulty: off by one at the threshold.
GetFreshAtLimit(c) ==
  IF c.latest = NoEmbedding \/ c.latest.age > MaxAge THEN NoEmbedding ELSE c.latest

GetFresh(c) ==
  IF c.latest = NoEmbedding \/ c.latest.age >= MaxAge THEN NoEmbedding ELSE c.latest

\* One tick of time.monotonic_ns(), as seen through _age_ns_locked().
Older(e) ==
  IF e = NoEmbedding \/ e.age >= HardTimeout THEN e ELSE [e EXCEPT !.age = @ + 1]

Aged(c) == [c EXCEPT !.latest = Older(@)]
=============================================================================
