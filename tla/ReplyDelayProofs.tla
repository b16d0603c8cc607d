-------------------------- MODULE ReplyDelayProofs --------------------------
(***************************************************************************)
(* Proofs about ReplyDelay, for every size of the queue and the window and *)
(* every value of the times.                                               *)
(***************************************************************************)
EXTENDS ReplyDelay, SequenceTheorems, TLAPS

\* How full the line is, and when the clock of a service runs.
Shape ==
  /\ onWire <= Len(pending)
  /\ Len(pending) - onWire <= QueueMax
  /\ ~up => onWire = 0
  /\ onWire = 0 => service = 0

\* Only frames that have been sent wait or are held.
Sent ==
  /\ \A i \in 1 .. Len(pending) : pending[i] <= frameCounter
  /\ cache.latest # NoEmbedding => cache.latest.frame <= frameCounter

\* The i-th in line can only be so old because there is room for that many
\* behind it, and each of those before it has been served in time.
LagPending ==
  \A i \in 1 .. Len(pending) :
    since[pending[i]] <= Wait(Room - i) + service + outage[pending[i]] + MaxGap

\* What is held lagged by no more than MaxLag when it came, and since then both
\* clocks run alike until the cache's stops at HardTimeout.
LagHeld ==
  cache.latest # NoEmbedding => since[cache.latest.frame] <= cache.latest.age + MaxLag

IInv == TypeOK /\ Shape /\ Sent /\ LagPending /\ LagHeld

-----------------------------------------------------------------------------
\* One place fewer in line is one service less.
LEMMA WaitStep ==
  ASSUME NEW m \in Nat, NEW n \in Nat, m < n
  PROVE  /\ Wait(m) \in Nat /\ Wait(n) \in Nat
         /\ Wait(m) + InferTime <= Wait(n)
<1>1. \A a \in Nat : Wait(a) \in Nat
  BY DelayAssumption DEF Wait
<1>2. PICK k \in Nat : n = m + 1 + k
  <2>1. n - m - 1 \in Nat /\ n = m + 1 + (n - m - 1)
    OBVIOUS
  <2> QED
    BY <2>1
<1>3. Wait(n) = Wait(m) + InferTime + Wait(k)
  BY <1>2, DelayAssumption DEF Wait
<1> QED
  BY <1>1, <1>3, DelayAssumption

LEMMA Bounds == MaxLag \in Nat /\ MaxSince \in Nat /\ Room \in Nat
<1>1. Room \in Nat
  BY DelayAssumption DEF Room
<1>2. Wait(Room) \in Nat
  BY <1>1, DelayAssumption DEF Wait
<1> QED
  BY <1>1, <1>2, ThresholdAssumption, DelayAssumption DEF MaxLag, MaxSince

\* Sums are put in order here, away from everything else.
LEMMA SumGrows ==
  ASSUME NEW s \in Int, NEW a \in Int, NEW b \in Int, NEW r \in Int, NEW m \in Int,
         s <= a + r + m, a <= b
  PROVE  s <= b + r + m
OBVIOUS

LEMMA SumTicks ==
  ASSUME NEW t \in Int, NEW s \in Int, NEW a \in Int, NEW r \in Int, NEW m \in Int,
         t <= s + 1, s <= a + r + m
  PROVE  t <= (a + 1) + r + m
OBVIOUS

LEMMA InitHolds == Init => IInv
<1> SUFFICES ASSUME Init
             PROVE  IInv
  OBVIOUS
<1>1. pending = <<>> /\ pending \in Seq(Frame) /\ Len(pending) = 0
  BY EmptySeq DEF Init
<1>2. TypeOK
  <2>1. 0 \in 0 .. MaxSince /\ 0 \in 0 .. MaxDown /\ 0 \in 0 .. MaxGap /\ 0 \in 0 .. MaxFrame
        /\ 0 \in 0 .. Window /\ 0 \in 0 .. InferTime
    BY Bounds, DelayAssumption
  <2>2. since \in [Frame -> 0 .. MaxSince] /\ outage \in [Frame -> 0 .. MaxDown]
    BY <2>1 DEF Init
  <2>3. cache \in [latest : [frame : Frame, age : 0 .. HardTimeout] \cup {NoEmbedding},
                   floor : {NoFloor}]
    BY DEF Init, EmptyCache
  <2> QED
    BY <1>1, <2>1, <2>2, <2>3 DEF Init, TypeOK
<1>3. Shape /\ Sent /\ LagPending /\ LagHeld
  BY <1>1, DelayAssumption
     DEF Init, EmptyCache, Shape, Sent, LagPending, LagHeld
<1> QED
  BY <1>2, <1>3 DEF IInv

\* put() leaves the cache alone or holds the reply; the floor is never set here.
LEMMA PutCases ==
  ASSUME TypeOK, NEW f \in Frame
  PROVE  LET e == [frame |-> f, age |-> 0] IN
         \/ Put(cache, e) = cache
         \/ Put(cache, e) = [latest |-> e, floor |-> cache.floor]
BY DEF TypeOK, Put

\* When every item of the new line was, in the old one, at its place or further
\* back, and further back if the clock of the service has been set to zero,
\* nobody in it lags too much.
LEMMA MovedUp ==
  ASSUME IInv, pending' \in Seq(Frame), since' = since, outage' = outage,
         service' \in 0 .. InferTime, Len(pending') <= Room,
         NEW k \in Nat, k = 0 => service' >= service,
         \A i \in 1 .. Len(pending') :
           \E j \in 1 .. Len(pending) :
             j >= i + k /\ pending'[i] = pending[j]
  PROVE  LagPending'
<1> SUFFICES ASSUME NEW i \in 1 .. Len(pending')
             PROVE  since[pending'[i]] <=
                      Wait(Room - i) + service' + outage[pending'[i]] + MaxGap
  BY DEF LagPending
<1>1. PICK j \in 1 .. Len(pending) : j >= i + k /\ pending'[i] = pending[j]
  OBVIOUS
<1> DEFINE f == pending[j]
<1>2. f \in Frame /\ Len(pending) \in Nat /\ Len(pending) <= Room
  <2>1. pending \in Seq(Frame)
    BY DEF IInv, TypeOK
  <2>2. onWire \in 0 .. Window /\ Len(pending) - onWire <= QueueMax
    BY DEF IInv, TypeOK, Shape
  <2> QED
    BY <2>1, <2>2, DelayAssumption, ElementOfSeq, LenProperties DEF Room
<1>3. since[f] \in Nat /\ outage[f] \in Nat /\ service \in 0 .. InferTime
  BY <1>2, Bounds, DelayAssumption DEF IInv, TypeOK
<1>4. since[f] <= Wait(Room - j) + service + outage[f] + MaxGap
  BY DEF IInv, LagPending
<1>5. Room - j \in Nat /\ Room - i \in Nat /\ Room - j <= Room - i
  BY <1>1, <1>2, Bounds
<1> DEFINE a == Wait(Room - j) + service
           b == Wait(Room - i) + service'
           r == outage[f]
<1>6. a \in Int /\ b \in Int /\ a <= b
  <2>1. Wait(Room - i) \in Int /\ Wait(Room - j) \in Int
    BY <1>5, DelayAssumption DEF Wait
  <2>2. service \in Int /\ service' \in Int /\ service <= InferTime /\ service' >= 0
    BY <1>3, DelayAssumption
  <2>3. CASE j = i
    <3>1. service' >= service
      BY <1>1, <2>3
    <3> QED
      BY <2>1, <2>2, <2>3, <3>1
  <2>4. CASE j # i
    <3>1. Room - j < Room - i
      BY <1>1, <1>2, <2>4, Bounds
    <3>2. Wait(Room - j) + InferTime <= Wait(Room - i)
      BY <1>5, <3>1, WaitStep
    <3> QED
      BY <2>1, <2>2, <3>2, DelayAssumption
  <2> QED
    BY <2>3, <2>4
<1>7. since[f] <= a + r + MaxGap /\ since[f] \in Int /\ r \in Int
  BY <1>3, <1>4
<1> HIDE DEF a, b, r
<1>8. since[f] <= b + r + MaxGap
  <2>1. MaxGap \in Int
    BY DelayAssumption
  <2> QED
    BY <1>6, <1>7, <2>1, SumGrows
<1>9. since[f] <= Wait(Room - i) + service' + outage[f] + MaxGap
  BY <1>8, Zenon DEF b, r
<1>10. pending'[i] = f
  BY <1>1
<1> QED
  BY <1>9, <1>10 DEF f

-----------------------------------------------------------------------------
LEMMA StepSend == IInv /\ Send => IInv'
<1> SUFFICES ASSUME IInv, Send
             PROVE  IInv'
  OBVIOUS
<1> DEFINE g == frameCounter + 1
           new == IF Len(pending) - onWire < QueueMax THEN Append(pending, g) ELSE pending
<1>1. /\ frameCounter < MaxFrame /\ frameCounter' = g
      /\ since' = [since EXCEPT ![g] = imageAge]
      /\ pending' = new
      /\ UNCHANGED <<cache, imageAge, onWire, service, up, orphans, outage>>
  BY DEF Send
<1>2. /\ TypeOK /\ Shape /\ Sent /\ LagPending /\ LagHeld
  BY DEF IInv
<1>3. frameCounter \in Nat /\ g \in Frame /\ pending \in Seq(Frame) /\ Len(pending) \in Nat
  BY <1>1, <1>2, DelayAssumption, LenProperties DEF TypeOK, Frame
<1>4. /\ Append(pending, g) \in Seq(Frame) /\ Len(Append(pending, g)) = Len(pending) + 1
      /\ \A i \in 1 .. Len(pending) : Append(pending, g)[i] = pending[i]
      /\ Append(pending, g)[Len(pending) + 1] = g
  BY <1>3, AppendProperties
<1>5. imageAge \in 0 .. MaxGap /\ imageAge \in 0 .. MaxSince
  <2>1. imageAge \in 0 .. MaxGap /\ MaxGap <= MaxSince
    <3>1. Wait(Room) \in Nat
      BY Bounds, DelayAssumption DEF Wait
    <3> QED
      BY <1>2, <3>1, ThresholdAssumption, DelayAssumption DEF TypeOK, MaxSince, MaxLag
  <2>2. MaxGap \in Nat /\ MaxSince \in Nat
    BY Bounds, DelayAssumption
  <2> HIDE DEF MaxSince
  <2> QED
    BY <2>1, <2>2
<1>6. /\ since' \in [Frame -> 0 .. MaxSince] /\ since'[g] = imageAge
      /\ \A f \in Frame : f # g => since'[f] = since[f]
  BY <1>1, <1>2, <1>3, <1>5 DEF TypeOK
<1>7. TypeOK'
  <2>1. frameCounter' \in 0 .. MaxFrame
    BY <1>1, <1>3, DelayAssumption
  <2>2. pending' \in Seq(Frame)
    BY <1>1, <1>3, <1>4
  <2> QED
    BY <1>1, <1>2, <1>6, <2>1, <2>2 DEF TypeOK
<1>8. Shape'
  <2>1. onWire \in Nat /\ onWire <= Len(pending) /\ Len(pending) - onWire <= QueueMax
        /\ (~up => onWire = 0) /\ (onWire = 0 => service = 0)
    BY <1>2, DelayAssumption DEF TypeOK, Shape
  <2>2. onWire <= Len(pending') /\ Len(pending') - onWire <= QueueMax
    BY <1>1, <1>3, <1>4, <2>1, DelayAssumption
  <2> QED
    BY <1>1, <2>1, <2>2 DEF Shape
<1>9. Sent'
  <2>1. ASSUME NEW i \in 1 .. Len(pending')
        PROVE  pending'[i] <= g
    <3>1. CASE i \in 1 .. Len(pending)
      <4>1. pending'[i] = pending[i] /\ pending[i] <= frameCounter
        BY <1>1, <1>2, <1>4, <3>1 DEF Sent
      <4>2. pending[i] \in Frame
        BY <1>3, <3>1, ElementOfSeq
      <4>3. pending[i] \in Nat
        BY <4>2, DelayAssumption DEF Frame
      <4> QED
        BY <1>3, <4>1, <4>3
    <3>2. CASE i \notin 1 .. Len(pending)
      <4>1. pending'[i] = g
        BY <1>1, <1>3, <1>4, <3>2
      <4> QED
        BY <1>3, <4>1
    <3> QED
      BY <3>1, <3>2
  <2>2. cache.latest # NoEmbedding => cache.latest.frame <= g
    BY <1>2, <1>3 DEF Sent, TypeOK, Frame
  <2> QED
    BY <1>1, <2>1, <2>2 DEF Sent
<1>10. LagPending'
  <2> SUFFICES ASSUME NEW i \in 1 .. Len(pending')
               PROVE  since'[pending'[i]] <=
                        Wait(Room - i) + service + outage[pending'[i]] + MaxGap
    BY <1>1 DEF LagPending
  <2>1. CASE i \in 1 .. Len(pending)
    <3>1. pending'[i] = pending[i] /\ pending[i] \in Frame /\ pending[i] <= frameCounter
      BY <1>1, <1>2, <1>3, <1>4, <2>1, ElementOfSeq DEF Sent
    <3>2. pending[i] # g
      BY <1>3, <3>1 DEF Frame
    <3> QED
      BY <1>2, <1>6, <2>1, <3>1, <3>2 DEF LagPending
  <2>2. CASE i \notin 1 .. Len(pending)
    <3>1. /\ Len(pending) - onWire < QueueMax /\ pending' = Append(pending, g)
          /\ i = Len(pending) + 1 /\ pending'[i] = g
      BY <1>1, <1>3, <1>4, <2>2
    <3>2. Room - i \in Nat
      BY <1>2, <1>3, <3>1, DelayAssumption DEF Room, TypeOK
    <3>3. Wait(Room - i) \in Nat
      BY <3>2, DelayAssumption DEF Wait
    <3>4. service \in Nat /\ outage[g] \in Nat
      BY <1>2, <1>3, DelayAssumption DEF TypeOK
    <3> QED
      BY <1>5, <1>6, <3>1, <3>3, <3>4, DelayAssumption
  <2> QED
    BY <2>1, <2>2
<1>11. LagHeld'
  <2> SUFFICES ASSUME cache.latest # NoEmbedding
               PROVE  since'[cache.latest.frame] <= cache.latest.age + MaxLag
    BY <1>1 DEF LagHeld
  <2>1. cache.latest.frame \in Frame /\ cache.latest.frame # g
    BY <1>2, <1>3 DEF TypeOK, Sent, Frame
  <2> QED
    BY <1>2, <1>6, <2>1 DEF LagHeld
<1> QED
  BY <1>7, <1>8, <1>9, <1>10, <1>11 DEF IInv

LEMMA StepReceive == IInv /\ Receive => IInv'
<1> SUFFICES ASSUME IInv, Receive
             PROVE  IInv'
  OBVIOUS
<1>1. /\ onWire > 0
      /\ cache' = Put(cache, [frame |-> Head(pending), age |-> 0])
      /\ pending' = Tail(pending) /\ onWire' = onWire - 1 /\ service' = 0
      /\ UNCHANGED <<frameCounter, imageAge, up, orphans, since, outage>>
  BY DEF Receive
<1>2. TypeOK /\ Shape /\ Sent /\ LagPending /\ LagHeld
  BY DEF IInv
<1>3. pending \in Seq(Frame) /\ Len(pending) \in Nat /\ onWire \in 0 .. Window
  BY <1>2, LenProperties DEF TypeOK
<1>4. pending # <<>> /\ 1 \in 1 .. Len(pending)
  BY <1>1, <1>2, <1>3, EmptySeq, DelayAssumption DEF Shape
<1>5. /\ Tail(pending) \in Seq(Frame) /\ Len(Tail(pending)) = Len(pending) - 1
      /\ \A i \in 1 .. Len(Tail(pending)) : Tail(pending)[i] = pending[i + 1]
  BY <1>3, <1>4, HeadTailProperties
<1> DEFINE f == Head(pending)
           e == [frame |-> f, age |-> 0]
<1>6. f = pending[1] /\ f \in Frame
  BY <1>3, <1>4, ElementOfSeq
<1>7. cache' = cache \/ cache' = [latest |-> e, floor |-> cache.floor]
  BY <1>1, <1>2, <1>6, PutCases
<1>8. TypeOK'
  <2>1. e \in [frame : Frame, age : 0 .. HardTimeout]
    BY <1>6, ThresholdAssumption
  <2>2. cache' \in [latest : [frame : Frame, age : 0 .. HardTimeout] \cup {NoEmbedding},
                    floor : {NoFloor}]
    BY <1>2, <1>7, <2>1 DEF TypeOK
  <2> QED
    BY <1>1, <1>2, <1>3, <1>5, <2>2, DelayAssumption DEF TypeOK
<1>9. Shape'
  BY <1>1, <1>2, <1>3, <1>5, DelayAssumption DEF Shape, TypeOK
<1>10. Sent'
  <2>1. \A i \in 1 .. Len(pending') : pending'[i] <= frameCounter'
    <3> TAKE i \in 1 .. Len(pending')
    <3>1. i + 1 \in 1 .. Len(pending) /\ pending'[i] = pending[i + 1]
      BY <1>1, <1>3, <1>5
    <3> QED
      BY <1>1, <1>2, <3>1 DEF Sent
  <2>2. cache'.latest # NoEmbedding => cache'.latest.frame <= frameCounter'
    BY <1>1, <1>2, <1>4, <1>6, <1>7 DEF Sent
  <2> QED
    BY <2>1, <2>2 DEF Sent
<1>11. LagPending'
  <2>1. Len(pending') <= Room
    BY <1>1, <1>2, <1>3, <1>5, DelayAssumption DEF Shape, Room, TypeOK
  <2>2. ASSUME NEW i \in 1 .. Len(pending')
        PROVE  \E j \in 1 .. Len(pending) : j >= i + 1 /\ pending'[i] = pending[j]
    <3>1. i + 1 \in 1 .. Len(pending) /\ pending'[i] = pending[i + 1]
      BY <1>1, <1>3, <1>5
    <3> QED
      BY <3>1
  <2>3. service' \in 0 .. InferTime /\ pending' \in Seq(Frame)
    BY <1>1, <1>5, DelayAssumption
  <2> QED
    BY <1>1, <2>1, <2>2, <2>3, MovedUp
<1>12. LagHeld'
  <2>1. CASE cache' = cache
    BY <1>1, <1>2, <2>1 DEF LagHeld
  <2>2. CASE cache' = [latest |-> e, floor |-> cache.floor]
    <3>1. since[f] <= Wait(Room - 1) + service + outage[f] + MaxGap
      BY <1>2, <1>4, <1>6 DEF LagPending
    <3>2. service \in 0 .. InferTime /\ outage[f] \in 0 .. MaxDown /\ since[f] \in 0 .. MaxSince
      BY <1>2, <1>6 DEF TypeOK
    <3>3. Room - 1 \in Nat
      BY <1>1, <1>3, DelayAssumption DEF Room
    <3>4. Wait(Room - 1) \in Nat /\ Wait(Room) \in Nat /\ Wait(Room - 1) + InferTime <= Wait(Room)
      BY <3>3, WaitStep, Bounds
    <3>5. since[f] <= MaxLag
      BY <3>1, <3>2, <3>4, Bounds, DelayAssumption DEF MaxLag
    <3> QED
      BY <1>1, <2>2, <3>2, <3>5, Bounds DEF LagHeld
  <2> QED
    BY <1>7, <2>1, <2>2
<1> QED
  BY <1>8, <1>9, <1>10, <1>11, <1>12 DEF IInv

LEMMA StepStreamFails == IInv /\ StreamFails => IInv'
<1> SUFFICES ASSUME IInv, StreamFails
             PROVE  IInv'
  OBVIOUS
<1>1. /\ up' = FALSE /\ orphans' = TRUE
      /\ pending' = SubSeq(pending, onWire + 1, Len(pending))
      /\ onWire' = 0 /\ service' = 0
      /\ UNCHANGED <<cache, frameCounter, imageAge, since, outage>>
  BY DEF StreamFails
<1>2. TypeOK /\ Shape /\ Sent /\ LagPending /\ LagHeld
  BY DEF IInv
<1>3. /\ pending \in Seq(Frame) /\ Len(pending) \in Nat
      /\ onWire \in Nat /\ onWire <= Window /\ onWire <= Len(pending)
  BY <1>2, LenProperties, DelayAssumption DEF TypeOK, Shape
<1>4. /\ pending' \in Seq(Frame) /\ Len(pending') = Len(pending) - onWire
      /\ \A i \in 1 .. Len(pending') : pending'[i] = pending[i + onWire]
  <2>1. \A i \in onWire + 1 .. Len(pending) : pending[i] \in Frame
    BY <1>3, ElementOfSeq
  <2>2. /\ pending' \in Seq(Frame)
        /\ Len(pending') = IF onWire + 1 <= Len(pending)
                           THEN Len(pending) - (onWire + 1) + 1 ELSE 0
        /\ \A i \in 1 .. Len(pending) - (onWire + 1) + 1 :
             pending'[i] = pending[(onWire + 1) + i - 1]
    BY <1>1, <1>3, <2>1, SubSeqProperties
  <2>3. Len(pending') = Len(pending) - onWire
    BY <1>3, <2>2
  <2>4. ASSUME NEW i \in 1 .. Len(pending')
        PROVE  pending'[i] = pending[i + onWire]
    <3>1. (onWire + 1) + i - 1 = i + onWire /\ i \in 1 .. Len(pending) - (onWire + 1) + 1
      BY <1>3, <2>3
    <3> QED
      BY <2>2, <3>1
  <2> QED
    BY <2>2, <2>3, <2>4
<1>5. TypeOK' /\ Shape'
  <2>1. TypeOK'
    <3>1. 0 \in 0 .. Window /\ 0 \in 0 .. InferTime
      BY DelayAssumption
    <3>2. up' \in BOOLEAN /\ orphans' \in BOOLEAN
      BY <1>1
    <3> QED
      BY <1>1, <1>2, <1>4, <3>1, <3>2 DEF TypeOK
  <2>2. Shape'
    BY <1>1, <1>2, <1>3, <1>4, DelayAssumption DEF Shape
  <2> QED
    BY <2>1, <2>2
<1>6. ASSUME NEW i \in 1 .. Len(pending')
      PROVE  i + onWire \in 1 .. Len(pending) /\ pending'[i] = pending[i + onWire]
  BY <1>3, <1>4
<1>7. Sent'
  BY <1>1, <1>2, <1>6 DEF Sent
<1>8. LagPending'
  <2>1. onWire = 0 => service' >= service
    BY <1>1, <1>2 DEF Shape
  <2>2. Len(pending') <= Room /\ service' \in 0 .. InferTime
    BY <1>1, <1>2, <1>3, <1>4, DelayAssumption DEF Shape, Room
  <2>3. \A i \in 1 .. Len(pending') :
          \E j \in 1 .. Len(pending) : j >= i + onWire /\ pending'[i] = pending[j]
    BY <1>3, <1>6
  <2> QED
    BY <1>1, <1>3, <1>4, <2>1, <2>2, <2>3, MovedUp
<1>9. LagHeld'
  BY <1>1, <1>2 DEF LagHeld
<1> QED
  BY <1>5, <1>7, <1>8, <1>9 DEF IInv

LEMMA StepStaleFeed == IInv /\ StaleFeed => IInv'
<1> SUFFICES ASSUME IInv, StaleFeed
             PROVE  IInv'
  OBVIOUS
<1> DEFINE head == SubSeq(pending, 1, onWire)
           rest == SubSeq(pending, onWire + 2, Len(pending))
<1>1. /\ onWire < Len(pending) /\ pending' = head \o rest
      /\ UNCHANGED <<cache, frameCounter, imageAge, onWire, service, up, orphans, since, outage>>
  BY DEF StaleFeed
<1>2. TypeOK /\ Shape /\ Sent /\ LagPending /\ LagHeld
  BY DEF IInv
<1>3. /\ pending \in Seq(Frame) /\ Len(pending) \in Nat
      /\ onWire \in Nat /\ onWire <= Window
  BY <1>2, LenProperties, DelayAssumption DEF TypeOK
<1>4. /\ head \in Seq(Frame) /\ Len(head) = onWire
      /\ \A i \in 1 .. onWire : head[i] = pending[i]
  <2>1. \A i \in 1 .. onWire : pending[i] \in Frame
    BY <1>1, <1>3, ElementOfSeq
  <2>2. /\ head \in Seq(Frame) /\ Len(head) = IF 1 <= onWire THEN onWire - 1 + 1 ELSE 0
        /\ \A i \in 1 .. onWire - 1 + 1 : head[i] = pending[1 + i - 1]
    BY <1>3, <2>1, SubSeqProperties
  <2> QED
    BY <1>3, <2>2
<1>5. /\ rest \in Seq(Frame) /\ Len(rest) = Len(pending) - onWire - 1
      /\ \A i \in 1 .. Len(rest) : rest[i] = pending[i + onWire + 1]
  <2>1. \A i \in onWire + 2 .. Len(pending) : pending[i] \in Frame
    BY <1>3, ElementOfSeq
  <2>2. /\ rest \in Seq(Frame)
        /\ Len(rest) = IF onWire + 2 <= Len(pending)
                       THEN Len(pending) - (onWire + 2) + 1 ELSE 0
        /\ \A i \in 1 .. Len(pending) - (onWire + 2) + 1 :
             rest[i] = pending[(onWire + 2) + i - 1]
    BY <1>3, <2>1, SubSeqProperties
  <2> HIDE DEF rest
  <2>3. Len(rest) = Len(pending) - onWire - 1
    BY <1>1, <1>3, <2>2
  <2>4. ASSUME NEW i \in 1 .. Len(rest)
        PROVE  rest[i] = pending[i + onWire + 1]
    <3>1. (onWire + 2) + i - 1 = i + onWire + 1 /\ i \in 1 .. Len(pending) - (onWire + 2) + 1
      BY <1>3, <2>3
    <3> QED
      BY <2>2, <3>1
  <2> QED
    BY <2>2, <2>3, <2>4
<1> HIDE DEF head, rest
<1>6. /\ pending' \in Seq(Frame) /\ Len(pending') = Len(pending) - 1
      /\ \A i \in 1 .. Len(pending') :
           pending'[i] = IF i <= onWire THEN pending[i] ELSE pending[i + 1]
  <2>1. /\ head \o rest \in Seq(Frame)
        /\ Len(head \o rest) = Len(head) + Len(rest)
        /\ \A i \in 1 .. Len(head) + Len(rest) :
             (head \o rest)[i] = IF i <= Len(head) THEN head[i] ELSE rest[i - Len(head)]
    BY <1>4, <1>5, ConcatProperties
  <2>2. Len(pending') = Len(pending) - 1
    BY <1>1, <1>3, <1>4, <1>5, <2>1
  <2>3. ASSUME NEW i \in 1 .. Len(pending')
        PROVE  pending'[i] = IF i <= onWire THEN pending[i] ELSE pending[i + 1]
    <3>1. pending'[i] = IF i <= onWire THEN head[i] ELSE rest[i - onWire]
      BY <1>1, <1>3, <1>4, <1>5, <2>1, <2>2
    <3>2. CASE i <= onWire
      BY <1>4, <3>1, <3>2
    <3>3. CASE i > onWire
      <4>1. i - onWire \in 1 .. Len(rest) /\ (i - onWire) + onWire + 1 = i + 1
        BY <1>3, <1>5, <2>2, <3>3
      <4> QED
        BY <1>3, <1>5, <3>1, <3>3, <4>1
    <3> QED
      BY <1>3, <3>2, <3>3
  <2> QED
    BY <1>1, <2>1, <2>2, <2>3
<1>7. TypeOK' /\ Shape'
  <2>1. pending' \in Seq(Frame) /\ Len(pending') = Len(pending) - 1
    BY <1>6
  <2>2. TypeOK'
    BY <1>1, <1>2, <2>1 DEF TypeOK
  <2>3. onWire <= Len(pending') /\ Len(pending') - onWire <= QueueMax
    <3>1. Len(pending) - onWire <= QueueMax
      BY <1>2 DEF Shape
    <3> QED
      BY <1>1, <1>3, <2>1, <3>1, DelayAssumption
  <2>4. (~up => onWire = 0) /\ (onWire = 0 => service = 0)
    BY <1>2 DEF Shape
  <2> QED
    BY <1>1, <2>2, <2>3, <2>4 DEF Shape
<1>8. \A i \in 1 .. Len(pending') :
        \E j \in 1 .. Len(pending) : j >= i + 0 /\ pending'[i] = pending[j]
  <2> TAKE i \in 1 .. Len(pending')
  <2>1. i \in 1 .. Len(pending) /\ i + 1 \in 1 .. Len(pending)
    BY <1>3, <1>6
  <2>2. pending'[i] = pending[i] \/ pending'[i] = pending[i + 1]
    BY <1>6
  <2> QED
    BY <2>1, <2>2
<1>9. Sent'
  BY <1>1, <1>2, <1>8 DEF Sent
<1>10. LagPending'
  <2>1. Len(pending') <= Room /\ service' \in 0 .. InferTime /\ service' >= service
    BY <1>1, <1>2, <1>3, <1>6, DelayAssumption DEF Shape, Room, TypeOK
  <2> QED
    BY <1>1, <1>6, <1>8, <2>1, MovedUp
<1>11. LagHeld'
  BY <1>1, <1>2 DEF LagHeld
<1> QED
  BY <1>7, <1>9, <1>10, <1>11 DEF IInv

\* The clocks: whatever a tick does to the line, all ages grow by at most one.
LEMMA Clocks ==
  ASSUME IInv, TimePasses
  PROVE  /\ since' \in [Frame -> 0 .. MaxSince]
         /\ \A f \in Frame : since'[f] <= since[f] + 1
         /\ cache' \in [latest : [frame : Frame, age : 0 .. HardTimeout] \cup {NoEmbedding},
                        floor : {NoFloor}]
         /\ imageAge' \in 0 .. MaxGap
         /\ Sent' /\ LagHeld'
<1>1. /\ cache' = Aged(cache) /\ imageAge < MaxGap /\ imageAge' = imageAge + 1
      /\ since' = [f \in Frame |-> IF since[f] = MaxSince THEN MaxSince ELSE since[f] + 1]
      /\ UNCHANGED <<frameCounter, pending, onWire, up, orphans>>
  BY DEF TimePasses
<1>2. TypeOK /\ Sent /\ LagHeld
  BY DEF IInv
<1>3. ASSUME NEW f \in Frame
      PROVE  /\ since'[f] = IF since[f] = MaxSince THEN MaxSince ELSE since[f] + 1
             /\ since[f] \in 0 .. MaxSince /\ since'[f] \in 0 .. MaxSince
             /\ since'[f] <= since[f] + 1
  <2>1. since'[f] = IF since[f] = MaxSince THEN MaxSince ELSE since[f] + 1
    BY <1>1
  <2>2. since[f] \in 0 .. MaxSince
    BY <1>2 DEF TypeOK
  <2> QED
    BY <2>1, <2>2, Bounds
<1>4. since' \in [Frame -> 0 .. MaxSince]
  <2>1. since' = [f \in Frame |-> since'[f]]
    BY <1>1
  <2> QED
    BY <1>3, <2>1
<1>5. imageAge' \in 0 .. MaxGap
  BY <1>1, <1>2, DelayAssumption DEF TypeOK
<1> DEFINE e == cache.latest
<1>6. cache' = [latest |-> Older(e), floor |-> cache.floor] /\ cache.floor \in {NoFloor}
  BY <1>1, <1>2 DEF Aged, TypeOK
<1>7. CASE e = NoEmbedding
  <2>1. cache' = cache
    BY <1>2, <1>6, <1>7 DEF Older, TypeOK
  <2>2. Sent' /\ LagHeld'
    BY <1>1, <1>2, <1>7, <2>1 DEF Sent, LagHeld
  <2> QED
    BY <1>2, <1>3, <1>4, <1>5, <2>1, <2>2 DEF TypeOK
<1>8. CASE e # NoEmbedding
  <2>1. e \in [frame : Frame, age : 0 .. HardTimeout]
    BY <1>2, <1>8 DEF TypeOK
  <2>2. \/ e.age = HardTimeout /\ Older(e) = e
        \/ e.age < HardTimeout /\ Older(e) = [frame |-> e.frame, age |-> e.age + 1]
    BY <1>8, <2>1, ThresholdAssumption DEF Older
  <2>3. Older(e) \in [frame : Frame, age : 0 .. HardTimeout] /\ Older(e).frame = e.frame
    BY <2>1, <2>2, ThresholdAssumption
  <2>4. since[e.frame] <= e.age + MaxLag
    BY <1>2, <1>8 DEF LagHeld
  <2>5. since'[e.frame] <= Older(e).age + MaxLag
    <3>1. CASE e.age = HardTimeout /\ Older(e) = e
      <4>1. since'[e.frame] \in 0 .. MaxSince
        BY <1>3, <2>1
      <4> QED
        BY <3>1, <4>1, Bounds, ThresholdAssumption DEF MaxSince
    <3>2. CASE e.age < HardTimeout /\ Older(e) = [frame |-> e.frame, age |-> e.age + 1]
      <4>1. since'[e.frame] \in 0 .. MaxSince /\ since'[e.frame] <= since[e.frame] + 1
            /\ since[e.frame] \in 0 .. MaxSince
        BY <1>3, <2>1
      <4>2. Older(e).age = e.age + 1 /\ e.age \in 0 .. HardTimeout
        BY <2>1, <3>2
      <4> QED
        BY <2>4, <4>1, <4>2, Bounds, ThresholdAssumption
    <3> QED
      BY <2>2, <3>1, <3>2
  <2>6. LagHeld'
    BY <1>6, <2>3, <2>5 DEF LagHeld
  <2>7. Sent'
    BY <1>1, <1>2, <1>6, <1>8, <2>3 DEF Sent
  <2>8. cache' \in [latest : [frame : Frame, age : 0 .. HardTimeout] \cup {NoEmbedding},
                    floor : {NoFloor}]
    BY <1>6, <2>3
  <2> QED
    BY <1>3, <1>4, <1>5, <2>6, <2>7, <2>8
<1> QED
  BY <1>7, <1>8

LEMMA StepTickConnected == IInv /\ TickConnected => IInv'
<1> SUFFICES ASSUME IInv, TickConnected
             PROVE  IInv'
  OBVIOUS
<1>1. /\ up /\ TimePasses /\ outage' = outage
      /\ \/ pending = <<>> /\ service' = service
         \/ onWire > 0 /\ service < InferTime /\ service' = service + 1
      /\ UNCHANGED <<frameCounter, pending, onWire, up, orphans>>
  BY DEF TickConnected, TimePasses
<1>2. TypeOK /\ Shape /\ LagPending
  BY DEF IInv
<1>3. service' \in 0 .. InferTime /\ service \in 0 .. InferTime
  BY <1>1, <1>2, DelayAssumption DEF TypeOK
<1>4. TypeOK'
  BY <1>1, <1>2, <1>3, Clocks DEF TypeOK
<1>5. Shape'
  BY <1>1, <1>2 DEF Shape
<1>6. LagPending'
  <2> SUFFICES ASSUME NEW i \in 1 .. Len(pending)
               PROVE  since'[pending[i]] <=
                        Wait(Room - i) + service' + outage[pending[i]] + MaxGap
    BY <1>1 DEF LagPending
  <2>1. pending[i] \in Frame /\ pending # <<>> /\ Len(pending) \in Nat
    <3>1. pending \in Seq(Frame)
      BY <1>2 DEF TypeOK
    <3> QED
      BY <3>1, ElementOfSeq, EmptySeq, LenProperties
  <2>2. service' = service + 1
    BY <1>1, <2>1
  <2>3. since'[pending[i]] <= since[pending[i]] + 1
    BY <1>1, <2>1, Clocks
  <2>4. since[pending[i]] \in Int /\ since'[pending[i]] \in Int /\ outage[pending[i]] \in Int
    BY <1>1, <1>2, <2>1, Bounds, DelayAssumption, Clocks DEF TypeOK
  <2>5. Wait(Room - i) \in Int
    BY Bounds, DelayAssumption DEF Wait
  <2>6. since[pending[i]] <= Wait(Room - i) + service + outage[pending[i]] + MaxGap
    BY <1>2 DEF LagPending
  <2> DEFINE a == Wait(Room - i) + service
             r == outage[pending[i]]
  <2>7. a \in Int /\ r \in Int /\ Wait(Room - i) + service' = a + 1
    BY <1>3, <2>2, <2>4, <2>5, DelayAssumption
  <2>8. since[pending[i]] <= a + r + MaxGap
    BY <2>6
  <2> HIDE DEF a, r
  <2>9. since'[pending[i]] <= (a + 1) + r + MaxGap
    <3>1. MaxGap \in Int
      BY DelayAssumption
    <3> QED
      BY <2>3, <2>4, <2>7, <2>8, <3>1, SumTicks
  <2> QED
    BY <2>7, <2>9 DEF r
<1> QED
  BY <1>1, <1>4, <1>5, <1>6, Clocks DEF IInv

LEMMA StepTickDisconnected == IInv /\ TickDisconnected => IInv'
<1> SUFFICES ASSUME IInv, TickDisconnected
             PROVE  IInv'
  OBVIOUS
<1> DEFINE Waits(f) == \E i \in 1 .. Len(pending) : pending[i] = f
<1>1. /\ TimePasses /\ service' = service
      /\ \A i \in 1 .. Len(pending) : outage[pending[i]] < MaxDown
      /\ outage' = [f \in Frame |-> outage[f] + (IF Waits(f) THEN 1 ELSE 0)]
      /\ UNCHANGED <<frameCounter, pending, onWire, up, orphans>>
  BY DEF TickDisconnected, TimePasses
<1>2. TypeOK /\ Shape /\ LagPending
  BY DEF IInv
<1>3. ASSUME NEW f \in Frame
      PROVE  outage[f] + (IF Waits(f) THEN 1 ELSE 0) \in 0 .. MaxDown
  <2>1. outage[f] \in 0 .. MaxDown
    BY <1>2 DEF TypeOK
  <2>2. Waits(f) => outage[f] < MaxDown
    BY <1>1
  <2> QED
    BY <2>1, <2>2, DelayAssumption
<1>4. outage' \in [Frame -> 0 .. MaxDown]
  BY <1>1, <1>3
<1>5. TypeOK'
  BY <1>1, <1>2, <1>4, Clocks DEF TypeOK
<1>6. Shape'
  BY <1>1, <1>2 DEF Shape
<1>7. LagPending'
  <2> SUFFICES ASSUME NEW i \in 1 .. Len(pending)
               PROVE  since'[pending[i]] <=
                        Wait(Room - i) + service + outage'[pending[i]] + MaxGap
    BY <1>1 DEF LagPending
  <2>1. pending[i] \in Frame
    BY <1>2, ElementOfSeq DEF TypeOK
  <2>2. outage'[pending[i]] = outage[pending[i]] + 1
    BY <1>1, <2>1
  <2>3. since'[pending[i]] <= since[pending[i]] + 1
    BY <1>1, <2>1, Clocks
  <2>4. since[pending[i]] \in Int /\ since'[pending[i]] \in Int /\ outage[pending[i]] \in Int
    BY <1>1, <1>2, <2>1, Bounds, DelayAssumption, Clocks DEF TypeOK
  <2>5. Wait(Room - i) \in Int /\ service \in Int
    BY <1>2, Bounds, DelayAssumption DEF Wait, TypeOK
  <2>6. since[pending[i]] <= Wait(Room - i) + service + outage[pending[i]] + MaxGap
    BY <1>2 DEF LagPending
  <2> DEFINE a == Wait(Room - i) + service
             r == outage[pending[i]]
  <2>7. a \in Int /\ r \in Int /\ since[pending[i]] <= a + r + MaxGap
    BY <2>4, <2>5, <2>6
  <2> HIDE DEF a, r
  <2>8. since'[pending[i]] <= a + (r + 1) + MaxGap
    BY <2>3, <2>4, <2>7, DelayAssumption
  <2> QED
    BY <2>2, <2>8 DEF a, r
<1> QED
  BY <1>1, <1>5, <1>6, <1>7, Clocks DEF IInv

LEMMA StepPreserves == IInv /\ [Next]_vars => IInv'
<1> SUFFICES ASSUME IInv, [Next]_vars
             PROVE  IInv'
  OBVIOUS
<1>1. CASE OnImage
  BY <1>1, DelayAssumption
     DEF OnImage, IInv, TypeOK, Shape, Sent, LagPending, LagHeld
<1>2. CASE Feed
  <2>1. onWire' \in 0 .. Window /\ onWire' <= Len(pending) /\ onWire' # 0
        /\ Len(pending) - onWire' <= QueueMax
    <3>1. pending \in Seq(Frame) /\ onWire \in 0 .. Window
          /\ Len(pending) - onWire <= QueueMax
      BY DEF IInv, TypeOK, Shape
    <3>2. Len(pending) \in Nat
      BY <3>1, LenProperties
    <3> QED
      BY <1>2, <3>1, <3>2, DelayAssumption DEF Feed
  <2> QED
    BY <1>2, <2>1 DEF Feed, IInv, TypeOK, Shape, Sent, LagPending, LagHeld
<1>3. CASE Connect
  BY <1>3 DEF Connect, IInv, TypeOK, Shape, Sent, LagPending, LagHeld
<1>4. CASE UNCHANGED vars
  BY <1>4 DEF vars, IInv, TypeOK, Shape, Sent, LagPending, LagHeld
<1> QED
  BY <1>1, <1>2, <1>3, <1>4, StepSend, StepReceive, StepStreamFails, StepStaleFeed,
     StepTickConnected, StepTickDisconnected DEF Next

\* The values of the variables stay in their ranges.
THEOREM TypeCorrect == Spec => []TypeOK
<1>1. IInv => TypeOK
  BY DEF IInv
<1> QED
  BY <1>1, InitHolds, StepPreserves, PTL DEF Spec

\* However large the queue is made and the times are, an image acted upon is
\* younger than the hard timeout and the longest lag together; the lag itself
\* is nowhere measured (send, recv_time_ns in _on_embedding_received).
THEOREM StalenessIsBounded == Spec => []StalenessBound
<1>1. IInv => StalenessBound
  <2> SUFFICES ASSUME IInv, Usable
               PROVE  since[cache.latest.frame] < HardTimeout + MaxLag
    BY DEF StalenessBound
  <2>1. cache.latest # NoEmbedding /\ ~(cache.latest.age >= HardTimeout)
    <3>1. CASE cache.latest = NoEmbedding
      <4>1. Status(cache) = "WAITING_REMOTE"
        BY <3>1 DEF Status
      <4> QED
        BY <4>1 DEF Usable
    <3>2. CASE cache.latest # NoEmbedding /\ cache.latest.age >= HardTimeout
      <4>1. cache.latest.age \in 0 .. HardTimeout
        BY <3>2 DEF IInv, TypeOK
      <4>2. cache.latest.age \notin MaxAge .. (HardTimeout - 1)
        BY <3>2, <4>1, ThresholdAssumption
      <4>3. Status(cache) = "STALE"
        BY <3>2, <4>2 DEF Status
      <4> QED
        BY <4>3 DEF Usable
    <3> QED
      BY <3>1, <3>2
  <2>2. cache.latest.age \in 0 .. HardTimeout /\ cache.latest.frame \in Frame
    BY <2>1 DEF IInv, TypeOK
  <2>3. since[cache.latest.frame] \in Int
    BY <2>2, Bounds DEF IInv, TypeOK
  <2>4. since[cache.latest.frame] <= cache.latest.age + MaxLag
    BY <2>1 DEF IInv, LagHeld
  <2> QED
    BY <2>1, <2>2, <2>3, <2>4, Bounds, ThresholdAssumption
<1> QED
  BY <1>1, InitHolds, StepPreserves, PTL DEF Spec
=============================================================================
