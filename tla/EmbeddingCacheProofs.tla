------------------------ MODULE EmbeddingCacheProofs ------------------------
(***************************************************************************)
(* Theorems about EmbeddingCache for any number of receivers, any frame    *)
(* numbers and any thresholds.                                             *)
(***************************************************************************)
EXTENDS EmbeddingCache, TLAPS

Cache == [latest : Embedding \cup {NoEmbedding}, floor : Frame \cup {NoFloor}]

\* put() keeps the cache well formed, and only ever replaces what is shown by
\* a newer reply above the floor.
LEMMA PutLemma ==
  ASSUME NEW c \in Cache, NEW e \in Embedding
  PROVE  /\ Put(c, e) \in Cache
         /\ Put(c, e).floor = c.floor
         /\ \/ Put(c, e).latest = e /\ e.frame > c.floor /\ e.frame > c.latest.frame
            \/ /\ Put(c, e).latest = c.latest
               /\ e.frame <= c.floor \/ e.frame <= c.latest.frame
BY MaxFrameAssumption DEF Cache, Embedding, Frame, Put, Accepts, NoEmbedding, NoFloor

\* Growing older changes nothing but the age, which never shrinks.
LEMMA OlderLemma ==
  ASSUME NEW e \in Embedding \cup {NoEmbedding}
  PROVE  /\ Older(e) \in Embedding \cup {NoEmbedding}
         /\ Older(e).frame = e.frame
         /\ e = NoEmbedding <=> Older(e) = NoEmbedding
         /\ e # NoEmbedding => Older(e).age >= e.age
BY ThresholdAssumption DEF Embedding, Older, NoEmbedding

\* Frame numbers are unsigned, the frame of an absent embedding is not.
LEMMA EmptyLemma ==
  ASSUME NEW e \in Embedding \cup {NoEmbedding}
  PROVE  /\ e.frame \in Frame \cup {-1}
         /\ e.frame = -1 <=> e = NoEmbedding
BY MaxFrameAssumption DEF Embedding, Frame, NoEmbedding

\* The cache and the replies in hand are well formed in every reachable state.
THEOREM TypeCorrect == Spec => []TypeOK
<1>1. Init => TypeOK
  BY DEF Init, TypeOK, EmptyCache
<1>2. TypeOK /\ [Next]_vars => TypeOK'
  <2> SUFFICES ASSUME TypeOK, [Next]_vars PROVE TypeOK'
    OBVIOUS
  <2> cache \in Cache
    BY DEF TypeOK, Cache
  <2>1. ASSUME NEW t \in Receiver, Stamp(t) PROVE TypeOK'
    BY <2>1, ThresholdAssumption DEF TypeOK, Stamp, Embedding
  <2>2. ASSUME NEW t \in Receiver, PutStamped(t) PROVE TypeOK'
    <3>1. inHand[t] \in Embedding
      BY <2>2 DEF TypeOK, PutStamped
    <3>2. cache' \in Cache
      BY <2>2, <3>1, PutLemma DEF PutStamped
    <3>3. inHand[t].frame \in Frame
      BY <3>1 DEF Embedding
    <3> QED
      BY <2>2, <3>2, <3>3 DEF TypeOK, PutStamped, Cache
  <2>3. CASE Drop
    BY <2>3 DEF TypeOK, Drop, Invalidate, InvalidateTo
  <2>4. ASSUME NEW f \in Frame, DropTo(f) PROVE TypeOK'
    BY <2>4 DEF TypeOK, DropTo, InvalidateTo
  <2>5. CASE Tick
    <3>1. Older(cache.latest) \in Embedding \cup {NoEmbedding}
      BY OlderLemma DEF TypeOK
    <3>2. \A t \in Receiver : Older(inHand[t]) \in Embedding \cup {NoEmbedding}
      BY OlderLemma DEF TypeOK
    <3> QED
      BY <2>5, <3>1, <3>2 DEF TypeOK, Tick, Aged
  <2>6. CASE UNCHANGED vars
    BY <2>6 DEF TypeOK, vars
  <2> QED
    BY <2>1, <2>2, <2>3, <2>4, <2>5, <2>6 DEF Next
<1> QED
  BY <1>1, <1>2, PTL DEF Spec

-----------------------------------------------------------------------------
\* What ties the cache to the history of offers.
ShowsNewestNow == Promise!IsNewest(cache.latest.frame, Promise!Admitted(offered, cache.floor))

\* Any replies, in any order and any number of times: the cache shows the
\* newest one above the floor since the last invalidation.
THEOREM CacheKeepsPromise == Spec => ShowsNewest
<1> USE DEF Promise!IsNewest, Promise!Admitted
<1>1. Init => Promise!Init /\ ShowsNewestNow
  BY DEF Init, EmptyCache, NoEmbedding, NoFloor, Promise!Init, ShowsNewestNow
<1>2. TypeOK /\ ShowsNewestNow /\ [Next]_vars => [Promise!Next]_(Promise!vars) /\ ShowsNewestNow'
  <2> SUFFICES ASSUME TypeOK, ShowsNewestNow, [Next]_vars
               PROVE  [Promise!Next]_(Promise!vars) /\ ShowsNewestNow'
    OBVIOUS
  <2> USE DEF ShowsNewestNow
  <2>0. /\ cache \in Cache
        /\ cache.latest \in Embedding \cup {NoEmbedding}
        /\ offered \subseteq Nat
        /\ cache.floor \in Int
    BY MaxFrameAssumption DEF TypeOK, Cache, Frame, NoFloor
  <2>1. ASSUME NEW t \in Receiver, Stamp(t) PROVE UNCHANGED Promise!vars /\ ShowsNewestNow'
    BY <2>1 DEF Stamp, Promise!vars
  <2>2. ASSUME NEW t \in Receiver, PutStamped(t) PROVE Promise!Next /\ ShowsNewestNow'
    <3> DEFINE e == inHand[t]
    <3>1. e \in Embedding /\ e.frame \in Frame /\ e.frame \in Nat
      BY <2>2, MaxFrameAssumption DEF TypeOK, PutStamped, Embedding, Frame
    <3>2. /\ cache' = Put(cache, e)
          /\ offered' = offered \cup {e.frame}
      BY <2>2 DEF PutStamped
    <3>3. cache'.floor = cache.floor
      BY <2>0, <3>1, <3>2, PutLemma
    <3>4. cache.latest.frame \in Int
      BY <2>0, EmptyLemma, MaxFrameAssumption DEF Frame
    <3>5. ShowsNewestNow'
      <4>1. CASE cache'.latest = e /\ e.frame > cache.floor /\ e.frame > cache.latest.frame
        BY <4>1, <2>0, <3>1, <3>2, <3>3, <3>4
      <4>2. CASE /\ cache'.latest = cache.latest
                 /\ e.frame <= cache.floor \/ e.frame <= cache.latest.frame
        BY <4>2, <2>0, <3>1, <3>2, <3>3, <3>4
      <4> QED
        BY <2>0, <3>1, <3>2, <4>1, <4>2, PutLemma
    <3>6. Promise!Offer(e.frame)
      BY <3>2, <3>3, <3>5 DEF Promise!Offer
    <3> QED
      BY <3>1, <3>5, <3>6 DEF Promise!Next
  <2>3. CASE Drop
    <3>1. Promise!Forget(cache.floor)
      BY <2>3 DEF Drop, Invalidate, InvalidateTo, NoEmbedding, Promise!Forget
    <3>2. ShowsNewestNow'
      BY <2>3 DEF Drop, Invalidate, InvalidateTo, NoEmbedding
    <3> QED
      BY <3>1, <3>2 DEF Promise!Next
  <2>4. ASSUME NEW f \in Frame, DropTo(f) PROVE Promise!Next /\ ShowsNewestNow'
    <3>0. cache' = [latest |-> NoEmbedding, floor |-> f]
      BY <2>0, <2>4 DEF DropTo, InvalidateTo, Cache
    <3>1. Promise!Forget(f)
      BY <2>4, <3>0 DEF DropTo, NoEmbedding, Promise!Forget
    <3>2. ShowsNewestNow'
      BY <2>4, <3>0 DEF DropTo, NoEmbedding
    <3> QED
      BY <3>1, <3>2 DEF Promise!Next
  <2>5. CASE Tick
    <3>1. cache'.latest.frame = cache.latest.frame /\ cache'.floor = cache.floor
      BY <2>0, <2>5, OlderLemma DEF Tick, Aged, Cache
    <3> QED
      BY <2>5, <3>1 DEF Tick, Promise!vars
  <2>6. CASE UNCHANGED vars
    BY <2>6 DEF vars, Promise!vars
  <2> QED
    BY <2>1, <2>2, <2>3, <2>4, <2>5, <2>6 DEF Next
<1> QED
  BY <1>1, <1>2, TypeCorrect, PTL DEF Spec, ShowsNewest, Promise!Spec

-----------------------------------------------------------------------------
\* Severity is a function of the age that never falls as the age grows.
LEMMA SeverityGrows ==
  ASSUME NEW c \in Cache, NEW d \in Cache,
         c.latest # NoEmbedding, d.latest # NoEmbedding, d.latest.age >= c.latest.age
  PROVE  Severity(Status(d)) >= Severity(Status(c))
<1>1. c.latest.age \in Nat /\ d.latest.age \in Nat
  BY ThresholdAssumption DEF Cache, Embedding
<1> QED
  BY <1>1, ThresholdAssumption DEF Severity, Status

\* While the same frame is shown, its status only gets worse.
THEOREM CacheNeverRejuvenates == Spec => NeverRejuvenated
<1>1. TypeOK /\ TypeOK' /\ [Next]_vars =>
        [cache'.latest.frame = cache.latest.frame
           => Severity(Status(cache')) >= Severity(Status(cache))]_vars
  <2> SUFFICES ASSUME TypeOK, TypeOK', Next, cache'.latest.frame = cache.latest.frame
               PROVE  Severity(Status(cache')) >= Severity(Status(cache))
    OBVIOUS
  <2>0. /\ cache \in Cache /\ cache' \in Cache
        /\ cache.latest \in Embedding \cup {NoEmbedding}
        /\ cache'.latest \in Embedding \cup {NoEmbedding}
    BY DEF TypeOK, Cache
  <2>1. CASE cache'.latest = cache.latest
    <3>1. Status(cache') = Status(cache)
      BY <2>1 DEF Status
    <3> QED
      BY <3>1 DEF Severity
  <2>2. CASE cache'.latest # cache.latest /\ cache.latest # NoEmbedding
    <3>1. cache'.latest # NoEmbedding
      BY <2>0, <2>2, EmptyLemma
    <3>2. ASSUME NEW t \in Receiver, PutStamped(t) PROVE FALSE
      <4>1. inHand[t] \in Embedding /\ cache' = Put(cache, inHand[t])
        BY <3>2 DEF TypeOK, PutStamped
      <4>2. inHand[t].frame > cache.latest.frame => inHand[t].frame # cache.latest.frame
        BY <2>0, <4>1, EmptyLemma, MaxFrameAssumption DEF Frame
      <4> QED
        BY <2>0, <2>2, <4>1, <4>2, PutLemma
    <3>3. Tick
      BY <2>2, <3>1, <3>2 DEF Next, Stamp, Drop, DropTo, Invalidate, InvalidateTo, NoEmbedding, TypeOK
    <3>4. cache'.latest = Older(cache.latest)
      BY <2>0, <3>3 DEF Tick, Aged, Cache
    <3> QED
      BY <2>0, <2>2, <3>1, <3>4, OlderLemma, SeverityGrows
  <2>3. CASE cache'.latest # cache.latest /\ cache.latest = NoEmbedding
    BY <2>0, <2>3, EmptyLemma
  <2> QED
    BY <2>1, <2>2, <2>3
<1> QED
  BY <1>1, TypeCorrect, PTL DEF Spec, NeverRejuvenated

\* At one and the same reading of the clock get_fresh() and status() agree, at
\* the age of the threshold too.
THEOREM CacheReadersAgree == Spec => []FreshIffOK
<1>1. ASSUME TypeOK PROVE FreshIffOK
  <2>1. CASE cache.latest = NoEmbedding
    BY <2>1 DEF FreshIffOK, GetFresh, Status
  <2>2. CASE cache.latest # NoEmbedding
    <3>1. cache.latest \in Embedding /\ cache.latest.age \in Nat
      BY <1>1, <2>2, ThresholdAssumption DEF TypeOK, Cache, Embedding
    <3> QED
      BY <2>2, <3>1, ThresholdAssumption DEF FreshIffOK, GetFresh, Status
  <2> QED
    BY <2>1, <2>2
<1> QED
  BY <1>1, TypeCorrect, PTL
=============================================================================
