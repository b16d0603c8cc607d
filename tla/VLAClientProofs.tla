--------------------------- MODULE VLAClientProofs ---------------------------
(***************************************************************************)
(* Proofs about VLAClient, for every size of the queue and every number of *)
(* observations and of request threads.                                    *)
(***************************************************************************)
EXTENDS VLAClient, SequenceTheorems, TLAPS

\* The queue and the open stream in the order of sending: what is on the stream
\* before what is in the queue, both after what has been delivered.
Order ==
  /\ \A i, j \in 1 .. Len(queue) :
       i < j /\ queue[i] # Sentinel /\ queue[j] # Sentinel => queue[i].frame < queue[j].frame
  /\ \A i, j \in 1 .. Len(sent) : i < j => sent[i].frame < sent[j].frame
  /\ \A i \in 1 .. Len(sent), j \in 1 .. Len(queue) :
       queue[j] # Sentinel => sent[i].frame < queue[j].frame
  /\ \A i \in 1 .. Len(sent) : delivered < sent[i].frame /\ sent[i].frame <= newest
  /\ \A j \in 1 .. Len(queue) :
       queue[j] # Sentinel => delivered < queue[j].frame /\ queue[j].frame <= newest

\* The run thread holds a reply exactly while it is inside the callback.
Hand == inHand = NoReply <=> pc # "callback"

IInv == TypeOK /\ Order /\ Hand

Item == Observation \cup {Sentinel}

LEMMA Values ==
  /\ Sentinel \notin Observation /\ NoReply \notin Observation
  /\ \A o \in Observation : o.frame \in Nat /\ o.frame <= MaxFrame
  /\ MaxFrame \in Nat /\ QueueMax \in Nat /\ MaxStale \in Nat
BY ClientAssumption DEF Observation, Sentinel, NoReply

\* Both sequences, with the facts the steps below need.
LEMMA Shapes ==
  ASSUME TypeOK
  PROVE  /\ queue \in Seq(Item) /\ Len(queue) \in Nat /\ Len(queue) <= QueueMax
         /\ sent \in Seq(Observation) /\ Len(sent) \in Nat
         /\ newest \in Nat /\ delivered \in Nat /\ delivered <= newest /\ newest <= MaxFrame
         /\ \A i \in 1 .. Len(sent) : sent[i] \in Observation /\ sent[i].frame \in Nat
         /\ \A i \in 1 .. Len(queue) :
              queue[i] # Sentinel => queue[i] \in Observation /\ queue[i].frame \in Nat
<1>1. queue \in Seq(Item) /\ sent \in Seq(Observation) /\ Len(queue) <= QueueMax
  BY DEF TypeOK, Item
<1>2. Len(queue) \in Nat /\ Len(sent) \in Nat
  BY <1>1, LenProperties
<1>3. \A i \in 1 .. Len(sent) : sent[i] \in Observation
  BY <1>1, ElementOfSeq
<1>4. \A i \in 1 .. Len(queue) : queue[i] \in Item
  BY <1>1, ElementOfSeq
<1>5. newest \in 0 .. MaxFrame /\ delivered \in 0 .. newest
  BY DEF TypeOK
<1> QED
  BY <1>1, <1>2, <1>3, <1>4, <1>5, Values DEF Item

\* An item leaves the queue.
LEMMA Taken ==
  ASSUME TypeOK, Order, queue # <<>>, queue' = Tail(queue)
  PROVE  /\ Head(queue) = queue[1] /\ 1 \in 1 .. Len(queue)
         /\ queue' \in Seq(Item) /\ Len(queue') = Len(queue) - 1 /\ Len(queue') \in Nat
         /\ \A i \in 1 .. Len(queue') : i + 1 \in 1 .. Len(queue) /\ queue'[i] = queue[i + 1]
<1>1. queue \in Seq(Item)
  BY Shapes
<1>2. /\ Tail(queue) \in Seq(Item) /\ Len(Tail(queue)) = Len(queue) - 1
      /\ \A i \in 1 .. Len(Tail(queue)) : Tail(queue)[i] = queue[i + 1]
  BY <1>1, HeadTailProperties
<1>3. Len(queue) \in Nat \ {0}
  BY <1>1, EmptySeq
<1> QED
  BY <1>1, <1>2, <1>3

LEMMA TakenKeepsOrder ==
  ASSUME TypeOK, Order, queue # <<>>, queue' = Tail(queue),
         sent' = sent, delivered' = delivered, newest' = newest
  PROVE  Order'
<1>1. Len(queue) \in Nat /\ Len(queue') = Len(queue) - 1
  BY Shapes, Taken
<1>2. \A i \in 1 .. Len(queue') : i + 1 \in 1 .. Len(queue) /\ queue'[i] = queue[i + 1]
  BY Taken
<1>3. ASSUME NEW i \in 1 .. Len(queue'), NEW j \in 1 .. Len(queue'),
             i < j, queue'[i] # Sentinel, queue'[j] # Sentinel
      PROVE  queue'[i].frame < queue'[j].frame
  <2>1. i + 1 < j + 1
    BY <1>1, <1>3
  <2> QED
    BY <1>2, <1>3, <2>1 DEF Order
<1>4. ASSUME NEW i \in 1 .. Len(sent), NEW j \in 1 .. Len(queue'), queue'[j] # Sentinel
      PROVE  sent[i].frame < queue'[j].frame
  BY <1>2, <1>4 DEF Order
<1>5. ASSUME NEW j \in 1 .. Len(queue'), queue'[j] # Sentinel
      PROVE  delivered < queue'[j].frame /\ queue'[j].frame <= newest
  BY <1>2, <1>5 DEF Order
<1>6. /\ \A i, j \in 1 .. Len(sent) : i < j => sent[i].frame < sent[j].frame
      /\ \A i \in 1 .. Len(sent) : delivered < sent[i].frame /\ sent[i].frame <= newest
  BY DEF Order
<1> QED
  BY <1>3, <1>4, <1>5, <1>6 DEF Order

\* An item joins the queue: a sentinel, or the next observation.
LEMMA Joined ==
  ASSUME TypeOK, Order, NEW e \in Item, queue' = Append(queue, e),
         sent' = sent, delivered' = delivered, newest' \in Nat, newest' >= newest,
         e # Sentinel => e.frame = newest' /\ newest' > newest
  PROVE  Order' /\ queue' \in Seq(Item) /\ Len(queue') = Len(queue) + 1
<1>1. /\ queue' \in Seq(Item) /\ Len(queue') = Len(queue) + 1
      /\ \A i \in 1 .. Len(queue) : queue'[i] = queue[i]
      /\ queue'[Len(queue) + 1] = e
  BY Shapes, AppendProperties
<1>2. \A i \in 1 .. Len(queue') : i \in 1 .. Len(queue) \/ i = Len(queue) + 1
  BY <1>1, Shapes
<1>3. ASSUME NEW j \in 1 .. Len(queue'), queue'[j] # Sentinel
      PROVE  delivered < queue'[j].frame /\ queue'[j].frame <= newest'
  <2>1. CASE j \in 1 .. Len(queue)
    BY <1>1, <1>3, <2>1, Shapes DEF Order
  <2>2. CASE j = Len(queue) + 1
    BY <1>1, <1>3, <2>2, Shapes
  <2> QED
    BY <1>2, <2>1, <2>2
<1>4. ASSUME NEW i \in 1 .. Len(queue'), NEW j \in 1 .. Len(queue'),
             i < j, queue'[i] # Sentinel, queue'[j] # Sentinel
      PROVE  queue'[i].frame < queue'[j].frame
  <2>1. i \in 1 .. Len(queue)
    BY <1>1, <1>2, <1>4, Shapes
  <2>2. CASE j \in 1 .. Len(queue)
    BY <1>1, <1>4, <2>1, <2>2 DEF Order
  <2>3. CASE j = Len(queue) + 1
    <3>1. queue[i] # Sentinel /\ queue[i].frame <= newest /\ queue[i].frame \in Nat
      BY <1>1, <1>4, <2>1, Shapes DEF Order
    <3> QED
      BY <1>1, <1>4, <2>1, <2>3, <3>1, Shapes
  <2> QED
    BY <1>2, <2>2, <2>3
<1>5. ASSUME NEW i \in 1 .. Len(sent), NEW j \in 1 .. Len(queue'), queue'[j] # Sentinel
      PROVE  sent[i].frame < queue'[j].frame
  <2>1. CASE j \in 1 .. Len(queue)
    BY <1>1, <1>5, <2>1 DEF Order
  <2>2. CASE j = Len(queue) + 1
    <3>1. sent[i].frame <= newest /\ sent[i].frame \in Nat
      BY Shapes DEF Order
    <3> QED
      BY <1>1, <1>5, <2>2, <3>1, Shapes
  <2> QED
    BY <1>2, <2>1, <2>2
<1>6. /\ \A i, j \in 1 .. Len(sent) : i < j => sent[i].frame < sent[j].frame
      /\ \A i \in 1 .. Len(sent) : delivered < sent[i].frame /\ sent[i].frame <= newest'
  <2>1. \A i \in 1 .. Len(sent) : delivered < sent[i].frame /\ sent[i].frame <= newest
    BY DEF Order
  <2> QED
    BY <2>1, Shapes DEF Order
<1> QED
  BY <1>1, <1>3, <1>4, <1>5, <1>6 DEF Order

-----------------------------------------------------------------------------
LEMMA InitHolds == Init => IInv
<1> SUFFICES ASSUME Init
             PROVE  IInv
  OBVIOUS
<1>1. /\ queue = <<>> /\ queue \in Seq(Observation \cup {Sentinel}) /\ Len(queue) = 0
      /\ sent = <<>> /\ sent \in Seq(Observation) /\ Len(sent) = 0
  BY EmptySeq DEF Init
<1>2. TypeOK /\ Hand
  <2>1. 0 \in 0 .. MaxStale /\ 0 \in 0 .. MaxFrame /\ 0 \in 0 .. 0 /\ 0 <= QueueMax
    BY Values
  <2>2. newest \in 0 .. MaxFrame /\ delivered \in 0 .. newest /\ stale \in 0 .. MaxStale
    BY <2>1 DEF Init
  <2> QED
    BY <1>1, <2>1, <2>2 DEF Init, TypeOK, Hand
<1>3. Order
  BY <1>1 DEF Order
<1> QED
  BY <1>2, <1>3 DEF IInv

\* The stream is given up.
LEMMA Abandoned ==
  ASSUME IInv, Abandon, UNCHANGED <<stopEvent, queue, newest, delivered>>
  PROVE  Order' /\ sent' \in Seq(Observation) /\ feeder' = "off" /\ stale' \in 0 .. MaxStale
<1>1. sent' = <<>> /\ sent' \in Seq(Observation) /\ Len(sent') = 0
  BY EmptySeq DEF Abandon
<1>2. Order'
  BY <1>1 DEF IInv, Order
<1>3. stale' \in 0 .. MaxStale
  BY Values DEF IInv, TypeOK, Abandon
<1> QED
  BY <1>1, <1>2, <1>3 DEF Abandon

\* The steps that move neither queue nor stream.
LEMMA StepStill ==
  ASSUME IInv, Start \/ Connect \/ LeaveLoop \/ StreamEnds \/ BackoffEnds
                 \/ PollTimesOut \/ StaleTimesOut \/ UNCHANGED vars
  PROVE  IInv'
<1>1. UNCHANGED <<queue, sent, inHand, newest, delivered>>
  BY DEF Start, Connect, LeaveLoop, StreamEnds, BackoffEnds, PollTimesOut, StaleTimesOut, vars
<1>2. Order'
  BY <1>1 DEF IInv, Order
<1>3. /\ pc' \in {"none", "loop", "streaming", "callback", "backoff", "exited"}
      /\ pc' = "callback" <=> pc = "callback"
  BY DEF Start, Connect, LeaveLoop, StreamEnds, BackoffEnds, PollTimesOut, StaleTimesOut,
         vars, IInv, TypeOK
<1>4. stopEvent' \in BOOLEAN /\ feeder' \in {"polling", "off"}
  BY DEF Start, Connect, LeaveLoop, StreamEnds, BackoffEnds, PollTimesOut, StaleTimesOut,
         vars, IInv, TypeOK
<1>5. stale' \in 0 .. MaxStale
  BY Values DEF Start, Connect, LeaveLoop, StreamEnds, BackoffEnds, PollTimesOut,
                StaleTimesOut, vars, IInv, TypeOK
<1>6. TypeOK'
  BY <1>1, <1>3, <1>4, <1>5 DEF IInv, TypeOK
<1> QED
  BY <1>1, <1>2, <1>3, <1>6 DEF IInv, Hand

LEMMA StepStop == IInv /\ Stop => IInv'
<1> SUFFICES ASSUME IInv, Stop
             PROVE  IInv'
  OBVIOUS
<1>1. UNCHANGED <<pc, feeder, stale, sent, inHand, newest, delivered>> /\ stopEvent' = TRUE
      /\ queue' = IF HasRoom THEN Append(queue, Sentinel) ELSE queue
  BY DEF Stop
<1>2. Order' /\ queue' \in Seq(Item) /\ Len(queue') <= QueueMax
  <2>1. CASE HasRoom
    <3>1. Order' /\ queue' \in Seq(Item) /\ Len(queue') = Len(queue) + 1
      BY <1>1, <2>1, Joined, Shapes DEF IInv, Item
    <3>2. Len(queue) < QueueMax /\ Len(queue) \in Nat /\ QueueMax \in Nat
      BY <2>1, Shapes, Values DEF HasRoom, IInv
    <3> QED
      BY <3>1, <3>2
  <2>2. CASE ~HasRoom
    BY <1>1, <2>2, Shapes DEF IInv, Order
  <2> QED
    BY <2>1, <2>2
<1>3. TypeOK'
  BY <1>1, <1>2 DEF IInv, TypeOK, Item
<1> QED
  BY <1>1, <1>2, <1>3 DEF IInv, Hand

LEMMA StepSend == IInv /\ Send => IInv'
<1> SUFFICES ASSUME IInv, Send
             PROVE  IInv'
  OBVIOUS
<1> DEFINE e == [frame |-> newest + 1]
<1>1. /\ UNCHANGED <<pc, stopEvent, feeder, stale, sent, inHand, delivered>>
      /\ newest < MaxFrame /\ newest' = newest + 1
      /\ queue' = IF HasRoom THEN Append(queue, e) ELSE queue
  BY DEF Send
<1>2. newest \in Nat /\ delivered \in Nat /\ delivered <= newest /\ MaxFrame \in Nat
  BY Shapes, Values DEF IInv
<1>3. e \in Observation /\ e.frame = newest'
  BY <1>1, <1>2 DEF Observation
<1>4. Order' /\ queue' \in Seq(Item) /\ Len(queue') <= QueueMax
  <2>1. CASE HasRoom
    <3>1. Order' /\ queue' \in Seq(Item) /\ Len(queue') = Len(queue) + 1
      BY <1>1, <1>2, <1>3, <2>1, Joined DEF IInv, Item
    <3>2. Len(queue) < QueueMax /\ Len(queue) \in Nat /\ QueueMax \in Nat
      BY <2>1, Shapes, Values DEF HasRoom, IInv
    <3> QED
      BY <3>1, <3>2
  <2>2. CASE ~HasRoom
    <3>1. queue' = queue /\ sent' = sent
      BY <1>1, <2>2
    <3>2. \A i \in 1 .. Len(sent) : sent[i].frame <= newest /\ sent[i].frame \in Nat
      BY Shapes DEF IInv, Order
    <3>3. \A i \in 1 .. Len(queue) :
            queue[i] # Sentinel => queue[i].frame <= newest /\ queue[i].frame \in Nat
      BY Shapes DEF IInv, Order
    <3>4. Order'
      BY <1>1, <1>2, <3>1, <3>2, <3>3 DEF IInv, Order
    <3> QED
      BY <3>1, <3>4, Shapes DEF IInv
  <2> QED
    BY <2>1, <2>2
<1>5. newest' \in 0 .. MaxFrame /\ delivered' \in 0 .. newest'
  BY <1>1, <1>2
<1>6. TypeOK'
  BY <1>1, <1>4, <1>5 DEF IInv, TypeOK, Item
<1> QED
  BY <1>1, <1>4, <1>6 DEF IInv, Hand

LEMMA StepReply ==
  ASSUME IInv, Reply
  PROVE  IInv' /\ inHand'.frame > delivered
<1>1. /\ sent # <<>> /\ pc' = "callback"
      /\ inHand' = Head(sent) /\ sent' = Tail(sent) /\ delivered' = Head(sent).frame
      /\ UNCHANGED <<stopEvent, queue, feeder, stale, newest>>
  BY DEF Reply
<1>2. sent \in Seq(Observation) /\ Len(sent) \in Nat \ {0}
  BY <1>1, EmptySeq DEF IInv, TypeOK
<1>3. /\ Head(sent) = sent[1] /\ 1 \in 1 .. Len(sent) /\ sent[1] \in Observation
      /\ sent' \in Seq(Observation) /\ Len(sent') = Len(sent) - 1
      /\ \A i \in 1 .. Len(sent') : i + 1 \in 1 .. Len(sent) /\ sent'[i] = sent[i + 1]
  <2>1. /\ Tail(sent) \in Seq(Observation) /\ Len(Tail(sent)) = Len(sent) - 1
        /\ \A i \in 1 .. Len(Tail(sent)) : Tail(sent)[i] = sent[i + 1]
    BY <1>1, <1>2, HeadTailProperties
  <2>2. Head(sent) = sent[1] /\ 1 \in 1 .. Len(sent) /\ sent[1] \in Observation
    BY <1>2, ElementOfSeq
  <2> QED
    BY <1>1, <1>2, <2>1, <2>2
<1>4. delivered' \in Nat /\ delivered < delivered' /\ delivered' <= newest
      /\ delivered' = sent[1].frame
  BY <1>1, <1>3, Values DEF IInv, Order
<1>5. \A i \in 1 .. Len(sent') : delivered' < sent'[i].frame /\ sent'[i].frame <= newest
  <2> TAKE i \in 1 .. Len(sent')
  <2>1. i + 1 \in 1 .. Len(sent) /\ 1 < i + 1
    BY <1>2, <1>3
  <2> QED
    BY <1>3, <1>4, <2>1 DEF IInv, Order
<1>6. \A j \in 1 .. Len(queue) :
        queue[j] # Sentinel => delivered' < queue[j].frame /\ queue[j].frame <= newest
  BY <1>3, <1>4 DEF IInv, Order
<1>7. \A i, j \in 1 .. Len(sent') : i < j => sent'[i].frame < sent'[j].frame
  <2> TAKE i, j \in 1 .. Len(sent')
  <2>1. i < j => i + 1 < j + 1
    BY <1>2, <1>3
  <2> QED
    BY <1>3, <2>1 DEF IInv, Order
<1>8. \A i \in 1 .. Len(sent'), j \in 1 .. Len(queue) :
        queue[j] # Sentinel => sent'[i].frame < queue[j].frame
  BY <1>3 DEF IInv, Order
<1>9. Order'
  BY <1>1, <1>5, <1>6, <1>7, <1>8 DEF IInv, Order
<1>10. delivered' \in 0 .. newest
  BY <1>4, Shapes DEF IInv
<1>11. TypeOK'
  BY <1>1, <1>3, <1>10 DEF IInv, TypeOK
<1>12. Hand'
  BY <1>1, <1>3, Values DEF Hand
<1> QED
  BY <1>1, <1>4, <1>9, <1>11, <1>12 DEF IInv

LEMMA StepCallbackReturns == IInv /\ CallbackReturns => IInv'
<1> SUFFICES ASSUME IInv, CallbackReturns
             PROVE  IInv'
  OBVIOUS
<1>1. inHand' = NoReply /\ UNCHANGED <<stopEvent, queue, newest, delivered>>
      /\ pc' \in {"exited", "streaming"}
  BY DEF CallbackReturns
<1>2. /\ Order' /\ sent' \in Seq(Observation) /\ feeder' \in {"polling", "off"}
      /\ stale' \in 0 .. MaxStale
  <2>1. CASE Abandon
    BY <1>1, <2>1, Abandoned
  <2>2. CASE UNCHANGED <<sent, feeder, stale>>
    BY <1>1, <2>2 DEF IInv, Order, TypeOK
  <2> QED
    BY <2>1, <2>2 DEF CallbackReturns
<1>3. TypeOK' /\ Hand'
  BY <1>1, <1>2 DEF IInv, TypeOK, Hand
<1> QED
  BY <1>2, <1>3 DEF IInv

LEMMA StepStreamFails == IInv /\ StreamFails => IInv'
<1> SUFFICES ASSUME IInv, StreamFails
             PROVE  IInv'
  OBVIOUS
<1>1. UNCHANGED <<stopEvent, queue, inHand, newest, delivered>> /\ Abandon
      /\ pc' = "backoff" /\ pc = "streaming"
  BY DEF StreamFails
<1>2. Order' /\ sent' \in Seq(Observation) /\ feeder' = "off" /\ stale' \in 0 .. MaxStale
  BY <1>1, Abandoned
<1>3. TypeOK' /\ Hand'
  BY <1>1, <1>2 DEF IInv, TypeOK, Hand
<1> QED
  BY <1>2, <1>3 DEF IInv

LEMMA StepFeed == IInv /\ Feed => IInv'
<1> SUFFICES ASSUME IInv, Feed
             PROVE  IInv'
  OBVIOUS
<1>1. /\ queue # <<>> /\ queue' = Tail(queue)
      /\ sent' = IF Head(queue) = Sentinel THEN sent ELSE Append(sent, Head(queue))
      /\ feeder' \in {"polling", "off"}
      /\ UNCHANGED <<pc, stopEvent, stale, inHand, newest, delivered>>
  BY DEF Feed
<1>2. /\ Head(queue) = queue[1] /\ 1 \in 1 .. Len(queue)
      /\ queue' \in Seq(Item) /\ Len(queue') = Len(queue) - 1 /\ Len(queue') \in Nat
      /\ \A i \in 1 .. Len(queue') : i + 1 \in 1 .. Len(queue) /\ queue'[i] = queue[i + 1]
  BY <1>1, Taken DEF IInv
<1>3. Order' /\ sent' \in Seq(Observation)
  <2>1. CASE Head(queue) = Sentinel
    BY <1>1, <2>1, TakenKeepsOrder DEF IInv, TypeOK
  <2>2. CASE Head(queue) # Sentinel
    <3> DEFINE o == queue[1]
    <3>1. o \in Observation /\ o.frame \in Nat /\ delivered < o.frame /\ o.frame <= newest
      BY <1>2, <2>2, Shapes DEF IInv, Order
    <3>2. /\ sent' \in Seq(Observation) /\ Len(sent') = Len(sent) + 1 /\ Len(sent) \in Nat
          /\ \A i \in 1 .. Len(sent) : sent'[i] = sent[i]
          /\ sent'[Len(sent) + 1] = o
      BY <1>1, <1>2, <2>2, <3>1, Shapes, AppendProperties DEF IInv
    <3>3. \A i \in 1 .. Len(sent') : i \in 1 .. Len(sent) \/ i = Len(sent) + 1
      BY <3>2
    <3>4. \A i \in 1 .. Len(sent) : sent[i].frame < o.frame
      BY <1>2, <2>2 DEF IInv, Order
    <3>5. \A j \in 1 .. Len(queue') : queue'[j] # Sentinel => o.frame < queue'[j].frame
      <4> TAKE j \in 1 .. Len(queue')
      <4>1. 1 < j + 1 /\ j + 1 \in 1 .. Len(queue) /\ queue'[j] = queue[j + 1]
        BY <1>2
      <4> QED
        BY <1>2, <2>2, <4>1 DEF IInv, Order
    <3>6. \A i, j \in 1 .. Len(sent') : i < j => sent'[i].frame < sent'[j].frame
      <4> SUFFICES ASSUME NEW i \in 1 .. Len(sent'), NEW j \in 1 .. Len(sent'), i < j
                   PROVE  sent'[i].frame < sent'[j].frame
        OBVIOUS
      <4>1. i \in 1 .. Len(sent)
        BY <3>2, <3>3
      <4>2. CASE j \in 1 .. Len(sent)
        BY <3>2, <4>1, <4>2 DEF IInv, Order
      <4>3. CASE j = Len(sent) + 1
        BY <3>2, <3>4, <4>1, <4>3
      <4> QED
        BY <3>3, <4>2, <4>3
    <3>7. \A i \in 1 .. Len(sent'), j \in 1 .. Len(queue') :
            queue'[j] # Sentinel => sent'[i].frame < queue'[j].frame
      <4> TAKE i \in 1 .. Len(sent'), j \in 1 .. Len(queue')
      <4>1. CASE i \in 1 .. Len(sent)
        BY <1>2, <3>2, <4>1 DEF IInv, Order
      <4>2. CASE i = Len(sent) + 1
        BY <3>2, <3>5, <4>2
      <4> QED
        BY <3>3, <4>1, <4>2
    <3>8. \A i \in 1 .. Len(sent') : delivered < sent'[i].frame /\ sent'[i].frame <= newest
      BY <3>1, <3>2, <3>3 DEF IInv, Order
    <3>9. \A j \in 1 .. Len(queue') :
            queue'[j] # Sentinel => delivered < queue'[j].frame /\ queue'[j].frame <= newest
      BY <1>2 DEF IInv, Order
    <3>10. \A i, j \in 1 .. Len(queue') :
             i < j /\ queue'[i] # Sentinel /\ queue'[j] # Sentinel
               => queue'[i].frame < queue'[j].frame
      <4> TAKE i, j \in 1 .. Len(queue')
      <4>1. i < j => i + 1 < j + 1
        BY <1>2
      <4> QED
        BY <1>2, <4>1 DEF IInv, Order
    <3> QED
      BY <1>1, <3>2, <3>6, <3>7, <3>8, <3>9, <3>10 DEF Order
  <2> QED
    BY <2>1, <2>2
<1>4. Len(queue') <= QueueMax
  BY <1>2, Shapes, Values DEF IInv
<1>5. TypeOK'
  BY <1>1, <1>2, <1>3, <1>4 DEF IInv, TypeOK, Item
<1> QED
  BY <1>1, <1>3, <1>5 DEF IInv, Hand

LEMMA StepStaleFeed == IInv /\ StaleFeed => IInv'
<1> SUFFICES ASSUME IInv, StaleFeed
             PROVE  IInv'
  OBVIOUS
<1>1. /\ queue # <<>> /\ queue' = Tail(queue) /\ stale > 0 /\ stale' = stale - 1
      /\ UNCHANGED <<pc, stopEvent, feeder, sent, inHand, newest, delivered>>
  BY DEF StaleFeed
<1>2. Order' /\ queue' \in Seq(Item) /\ Len(queue') <= QueueMax
  BY <1>1, Taken, TakenKeepsOrder, Shapes, Values DEF IInv
<1>3. stale' \in 0 .. MaxStale
  BY <1>1, Values DEF IInv, TypeOK
<1>4. TypeOK'
  BY <1>1, <1>2, <1>3 DEF IInv, TypeOK, Item
<1> QED
  BY <1>1, <1>2, <1>4 DEF IInv, Hand

LEMMA StepPreserves == IInv /\ [Next]_vars => IInv'
BY StepStill, StepStop, StepSend, StepReply, StepCallbackReturns, StepStreamFails,
   StepFeed, StepStaleFeed DEF Next, RunThread, OwnSteps, Remote, RequestThreads

LEMMA InvariantHolds == Spec => []IInv
BY InitHolds, StepPreserves, PTL DEF Spec

\* Type correctness; the queue never holds more than QueueMax items.
THEOREM TypeCorrect == Spec => []TypeOK
<1>1. IInv => TypeOK
  BY DEF IInv
<1> QED
  BY <1>1, InvariantHolds, PTL

\* Replies reach the callback in the order of sending and none twice, whatever
\* fails in between (_run_stream, _request_iter).
THEOREM InOrder == Spec => DeliveredOnceInOrder
<1>1. IInv /\ [Next]_vars =>
        [inHand' # inHand /\ inHand' # NoReply => inHand'.frame > delivered]_vars
  <2> SUFFICES ASSUME IInv, Next, inHand' # inHand, inHand' # NoReply
               PROVE  inHand'.frame > delivered
    OBVIOUS
  <2>1. CASE Reply
    BY <2>1, StepReply
  <2>2. CASE ~Reply
    BY <2>2 DEF Next, RunThread, OwnSteps, Remote, RequestThreads, Start, Stop, Send, Connect, LeaveLoop,
                CallbackReturns, StreamEnds, StreamFails, BackoffEnds, Feed, PollTimesOut,
                StaleFeed, StaleTimesOut
  <2> QED
    BY <2>1, <2>2
<1> QED
  BY <1>1, InvariantHolds, PTL DEF Spec, DeliveredOnceInOrder

-----------------------------------------------------------------------------
(* The client implements ClientChannel. *)

\* All that may still be answered, unless nobody reads it any more.
Underway == Queued \cup Range(sent)

LEMMA RangeTail ==
  ASSUME NEW S, NEW q \in Seq(S), q # <<>>
  PROVE  Range(q) = {Head(q)} \cup Range(Tail(q)) /\ Head(q) \in S
<1>1. /\ Tail(q) \in Seq(S) /\ Len(Tail(q)) = Len(q) - 1 /\ Head(q) \in S
      /\ \A i \in 1 .. Len(Tail(q)) : Tail(q)[i] = q[i + 1]
  BY HeadTailProperties
<1>2. Len(q) \in Nat \ {0} /\ Head(q) = q[1]
  BY EmptySeq
<1>3. Range(q) = {q[i] : i \in 1 .. Len(q)}
  BY RangeEquality
<1>4. Range(Tail(q)) = {Tail(q)[i] : i \in 1 .. Len(Tail(q))}
  BY <1>1, RangeEquality
<1>5. ASSUME NEW o \in Range(q), o # Head(q)
      PROVE  o \in Range(Tail(q))
  <2>1. PICK i \in 1 .. Len(q) : o = q[i]
    BY <1>3
  <2>2. i # 1
    BY <1>2, <1>5, <2>1
  <2>3. i - 1 \in 1 .. Len(Tail(q)) /\ (i - 1) + 1 = i
    BY <1>1, <1>2, <2>2
  <2> QED
    BY <1>1, <1>4, <2>1, <2>3
<1>6. ASSUME NEW o \in Range(Tail(q))
      PROVE  o \in Range(q)
  <2>1. PICK i \in 1 .. Len(Tail(q)) : o = q[i + 1]
    BY <1>1, <1>4
  <2>2. i + 1 \in 1 .. Len(q)
    BY <1>1, <1>2
  <2> QED
    BY <1>3, <2>1, <2>2
<1>7. Head(q) \in Range(q)
  BY <1>2, <1>3
<1> QED
  BY <1>1, <1>5, <1>6, <1>7

LEMMA RangeAppend ==
  ASSUME NEW S, NEW q \in Seq(S), NEW e \in S
  PROVE  Range(Append(q, e)) = Range(q) \cup {e}
<1>1. /\ Append(q, e) \in Seq(S) /\ Len(Append(q, e)) = Len(q) + 1
      /\ \A i \in 1 .. Len(q) : Append(q, e)[i] = q[i]
      /\ Append(q, e)[Len(q) + 1] = e
  BY AppendProperties
<1>2. Len(q) \in Nat
  BY LenProperties
<1>3. Range(q) = {q[i] : i \in 1 .. Len(q)}
  BY RangeEquality
<1>4. Range(Append(q, e)) = {Append(q, e)[i] : i \in 1 .. Len(q) + 1}
  BY <1>1, RangeEquality
<1>5. \A i \in 1 .. Len(q) + 1 : i \in 1 .. Len(q) \/ i = Len(q) + 1
  BY <1>2
<1>6. 1 .. Len(q) \subseteq 1 .. Len(q) + 1 /\ Len(q) + 1 \in 1 .. Len(q) + 1
  BY <1>2
<1> QED
  BY <1>1, <1>3, <1>4, <1>5, <1>6

\* What the channel of a state is made of.
LEMMA Members ==
  ASSUME TypeOK
  PROVE  /\ \A o \in Queued : \E i \in 1 .. Len(queue) : o = queue[i] /\ o # Sentinel
         /\ \A o \in Range(sent) : \E i \in 1 .. Len(sent) : o = sent[i]
         /\ Range(queue) \subseteq Item /\ Range(sent) \subseteq Observation
<1>1. Range(queue) = {queue[i] : i \in 1 .. Len(queue)} /\ Range(queue) \subseteq Item
  BY Shapes, RangeEquality, RangeOfSeq
<1>2. Range(sent) = {sent[i] : i \in 1 .. Len(sent)} /\ Range(sent) \subseteq Observation
  BY Shapes, RangeEquality, RangeOfSeq
<1> QED
  BY <1>1, <1>2 DEF Queued

LEMMA Same ==
  ASSUME ThreadPhase' = ThreadPhase, Underway' = Underway, inHand' = inHand
  PROVE  AsChannel' = AsChannel
BY DEF AsChannel, Underway

\* The two sides of a step, written out.
LEMMA Before ==
  AsChannel = [phase |-> ThreadPhase,
               pending |-> IF ThreadPhase = "done" THEN {} ELSE Underway, inHand |-> inHand]
BY DEF AsChannel, Underway

LEMMA Afterwards ==
  AsChannel' = [phase |-> ThreadPhase',
                pending |-> IF ThreadPhase' = "done" THEN {} ELSE Underway', inHand |-> inHand']
BY DEF AsChannel, Underway

LEMMA ExitedRecord ==
  ASSUME NEW p, NEW S, NEW r
  PROVE  Promise!Exited([phase |-> p, pending |-> S, inHand |-> r])
         = [phase |-> "done", pending |-> {}, inHand |-> r]
<1> DEFINE c == [phase |-> p, pending |-> S, inHand |-> r]
           T == [phase : {p, "done"}, pending : {S, {}}, inHand : {r, r}]
<1>1. c \in T /\ c.phase = p /\ c.pending = S /\ c.inHand = r
  OBVIOUS
<1> HIDE DEF c
<1>2. Promise!Exited(c) \in T
  BY <1>1 DEF Promise!Exited
<1>3. /\ Promise!Exited(c).phase = "done"
      /\ Promise!Exited(c).pending = {}
      /\ Promise!Exited(c).inHand = r
  BY <1>1 DEF Promise!Exited
<1> QED
  BY <1>2, <1>3 DEF c

LEMMA ReceivedRecord ==
  ASSUME NEW p, NEW S, NEW r, NEW o
  PROVE  Promise!Received([phase |-> p, pending |-> S, inHand |-> r], o, o)
         = [phase |-> p, pending |-> Promise!After(o, S), inHand |-> o]
<1> DEFINE c == [phase |-> p, pending |-> S, inHand |-> r]
           T == [phase : {p, p}, pending : {S, Promise!After(o, S)}, inHand : {r, o}]
<1>1. c \in T /\ c.phase = p /\ c.pending = S /\ c.inHand = r
  OBVIOUS
<1> HIDE DEF c
<1>2. Promise!Received(c, o, o) \in T
  BY <1>1 DEF Promise!Received
<1>3. /\ Promise!Received(c, o, o).phase = p
      /\ Promise!Received(c, o, o).pending = Promise!After(o, S)
      /\ Promise!Received(c, o, o).inHand = o
  BY <1>1 DEF Promise!Received
<1> QED
  BY <1>2, <1>3 DEF c

LEMMA Leaves ==
  ASSUME ThreadPhase' = "done", inHand' = inHand
  PROVE  AsChannel' = Promise!Exited(AsChannel)
<1>1. AsChannel' = [phase |-> "done", pending |-> {}, inHand |-> inHand]
  BY Afterwards
<1>2. Promise!Exited(AsChannel) = [phase |-> "done", pending |-> {}, inHand |-> inHand]
  BY Before, ExitedRecord
<1> QED
  BY <1>1, <1>2

\* The run thread has no phase of its own between two streams.
LEMMA ImplementsStill ==
  ASSUME IInv, Connect \/ StreamEnds \/ BackoffEnds \/ PollTimesOut \/ StaleTimesOut
                 \/ UNCHANGED vars
  PROVE  UNCHANGED Promise!cvars
<1>1. UNCHANGED <<stopEvent, queue, sent, inHand, newest>>
  BY DEF Connect, StreamEnds, BackoffEnds, PollTimesOut, StaleTimesOut, vars
<1>2. ThreadPhase' = ThreadPhase
  BY <1>1 DEF Connect, StreamEnds, BackoffEnds, PollTimesOut, StaleTimesOut, vars, ThreadPhase
<1>3. Underway' = Underway
  BY <1>1 DEF Underway, Queued
<1> QED
  BY <1>1, <1>2, <1>3, Same DEF Promise!cvars

LEMMA ImplementsStart == IInv /\ Start => Promise!Start
<1> SUFFICES ASSUME IInv, Start
             PROVE  Promise!Start
  OBVIOUS
<1>1. UNCHANGED <<queue, sent, inHand, newest>>
  BY DEF Start
<1>2. ThreadPhase = "new" /\ ThreadPhase' = "running"
  BY DEF Start, ThreadPhase
<1>3. Underway' = Underway
  BY <1>1 DEF Underway, Queued
<1>4. AsChannel' = [AsChannel EXCEPT !.phase = "running"] /\ AsChannel.phase = "new"
  BY <1>1, <1>2, <1>3 DEF AsChannel, Underway
<1> QED
  BY <1>1, <1>4 DEF Promise!Start, Promise!Started

LEMMA ImplementsStop == IInv /\ Stop => Promise!Stop
<1> SUFFICES ASSUME IInv, Stop
             PROVE  Promise!Stop
  OBVIOUS
<1>1. /\ UNCHANGED <<pc, sent, inHand, newest>> /\ ~stopEvent /\ stopEvent'
      /\ queue' = IF HasRoom THEN Append(queue, Sentinel) ELSE queue
  BY DEF Stop, IInv, TypeOK
<1>2. Underway' = Underway
  <2>1. Range(Append(queue, Sentinel)) = Range(queue) \cup {Sentinel}
    BY Shapes, RangeAppend DEF IInv, Item
  <2>2. Queued' = Queued
    BY <1>1, <2>1 DEF Queued
  <2> QED
    BY <1>1, <2>2 DEF Underway
<1>3. CASE pc = "none"
  <2>1. ThreadPhase = "new" /\ ThreadPhase' = "done"
    BY <1>1, <1>3 DEF ThreadPhase
  <2>2. AsChannel' = Promise!Exited(AsChannel) /\ AsChannel.phase = "new"
    BY <1>1, <2>1, Leaves, Before
  <2> QED
    BY <1>1, <2>2 DEF Promise!Stop, Promise!StopRequested
<1>4. CASE pc = "exited"
  <2>1. ThreadPhase = "done" /\ ThreadPhase' = "done"
    BY <1>1, <1>4 DEF ThreadPhase
  <2>2. AsChannel' = AsChannel /\ AsChannel.phase = "done"
    BY <1>1, <2>1 DEF AsChannel
  <2> QED
    BY <1>1, <2>2 DEF Promise!Stop, Promise!StopRequested
<1>5. CASE pc \notin {"none", "exited"}
  <2>1. ThreadPhase = "running" /\ ThreadPhase' = "stopping"
    BY <1>1, <1>5 DEF ThreadPhase
  <2>2. AsChannel = [phase |-> "running", pending |-> Underway, inHand |-> inHand]
    BY <2>1, Before
  <2>3. AsChannel' = [phase |-> "stopping", pending |-> Underway, inHand |-> inHand]
    BY <1>1, <1>2, <2>1, Afterwards
  <2>4. AsChannel' = [AsChannel EXCEPT !.phase = "stopping"] /\ AsChannel.phase = "running"
    BY <2>2, <2>3
  <2> QED
    BY <1>1, <2>4 DEF Promise!Stop, Promise!StopRequested
<1> QED
  BY <1>3, <1>4, <1>5

LEMMA ImplementsSend == IInv /\ Send => Promise!Send
<1> SUFFICES ASSUME IInv, Send
             PROVE  Promise!Send
  OBVIOUS
<1> DEFINE e == [frame |-> newest']
<1>1. /\ UNCHANGED <<pc, stopEvent, sent, inHand>> /\ newest' = newest + 1
      /\ newest < MaxFrame
      /\ queue' = IF HasRoom THEN Append(queue, e) ELSE queue
  BY DEF Send
<1>2. ThreadPhase' = ThreadPhase
  BY <1>1 DEF ThreadPhase
<1>3. CASE ~HasRoom
  <2>1. Underway' = Underway
    BY <1>1, <1>3 DEF Underway, Queued
  <2> QED
    BY <1>1, <1>2, <2>1, Same DEF Promise!Send
<1>4. CASE HasRoom
  <2>1. e \in Observation
    <3>1. newest \in Nat /\ MaxFrame \in Nat
      BY Shapes, Values DEF IInv
    <3>2. newest' \in 1 .. MaxFrame
      BY <1>1, <3>1
    <3> QED
      BY <3>2 DEF Observation
  <2>2. Range(queue') = Range(queue) \cup {e}
    BY <1>1, <1>4, <2>1, Shapes, RangeAppend DEF IInv, Item
  <2>3. Queued' = Queued \cup {e}
    BY <2>1, <2>2, Values DEF Queued
  <2>4. Underway' = Underway \cup {e}
    BY <1>1, <2>3 DEF Underway
  <2>5. AsChannel' = Promise!Sent(AsChannel, e)
    BY <1>1, <1>2, <2>4 DEF AsChannel, Underway, Promise!Sent
  <2> QED
    BY <1>1, <2>5 DEF Promise!Send
<1> QED
  BY <1>3, <1>4

LEMMA ImplementsReply == IInv /\ Reply => Promise!Receive
<1> SUFFICES ASSUME IInv, Reply
             PROVE  Promise!Receive
  OBVIOUS
<1> DEFINE o == Head(sent)
<1>1. /\ UNCHANGED <<stopEvent, queue, newest>> /\ pc = "streaming" /\ pc' = "callback"
      /\ inHand' = o /\ sent' = Tail(sent) /\ sent # <<>>
  BY DEF Reply
<1>2. sent \in Seq(Observation) /\ Len(sent) \in Nat \ {0}
  BY <1>1, EmptySeq DEF IInv, TypeOK
<1>3. Range(sent) = {o} \cup Range(sent') /\ o \in Observation
  BY <1>1, <1>2, RangeTail
<1>4. o = sent[1] /\ 1 \in 1 .. Len(sent)
  BY <1>2
<1>5. \A x \in Queued : x.frame > o.frame
  BY <1>4, Members, Shapes DEF IInv, Order, Queued
<1>6. \A x \in Range(sent') : x.frame > o.frame
  <2> TAKE x \in Range(sent')
  <2>1. /\ sent' \in Seq(Observation) /\ Len(sent') = Len(sent) - 1
        /\ \A i \in 1 .. Len(sent') : sent'[i] = sent[i + 1]
    BY <1>1, <1>2, HeadTailProperties
  <2>2. PICK i \in 1 .. Len(sent') : x = sent'[i]
    BY <2>1, RangeEquality
  <2>3. i + 1 \in 1 .. Len(sent) /\ 1 < i + 1 /\ x = sent[i + 1]
    BY <1>2, <2>1, <2>2
  <2>4. sent[1].frame < sent[i + 1].frame /\ sent[1].frame \in Nat /\ sent[i + 1].frame \in Nat
    BY <1>4, <2>3, Shapes DEF IInv, Order
  <2> QED
    BY <1>4, <2>3, <2>4
<1>7. Underway' = {x \in Underway : x.frame > o.frame}
  <2>1. ~(o.frame > o.frame)
    BY <1>3, Values
  <2>2. Queued' = Queued
    BY <1>1 DEF Queued
  <2> QED
    BY <1>3, <1>5, <1>6, <2>1, <2>2 DEF Underway
<1>8. ThreadPhase' = ThreadPhase /\ ThreadPhase \in {"running", "stopping"}
  BY <1>1 DEF ThreadPhase
<1>9. inHand = NoReply
  BY <1>1 DEF IInv, Hand
<1>10. AsChannel.pending = Underway /\ AsChannel.inHand = NoReply
       /\ AsChannel.phase \in {"running", "stopping"}
  BY <1>8, <1>9 DEF AsChannel, Underway
<1>11. o \in AsChannel.pending
  BY <1>3, <1>10 DEF Underway
<1>12. AsChannel' = Promise!Received(AsChannel, o, o)
  <2>1. AsChannel = [phase |-> ThreadPhase, pending |-> Underway, inHand |-> inHand]
    BY <1>8, Before
  <2>2. AsChannel' = [phase |-> ThreadPhase, pending |-> Underway', inHand |-> o]
    BY <1>1, <1>8, Afterwards
  <2>3. Promise!After(o, Underway) = Underway'
    BY <1>7 DEF Promise!After
  <2>4. Promise!Received(AsChannel, o, o)
        = [phase |-> ThreadPhase, pending |-> Promise!After(o, Underway), inHand |-> o]
    BY <2>1, ReceivedRecord
  <2> QED
    BY <2>2, <2>3, <2>4
<1>13. Promise!CanReceive(AsChannel, o)
  BY <1>10, <1>11 DEF Promise!CanReceive, Promise!Alive, Promise!NoReply, NoReply
<1> QED
  BY <1>1, <1>11, <1>12, <1>13, Zenon DEF Promise!Receive

LEMMA ImplementsCallbackReturns == IInv /\ CallbackReturns => Promise!HandOver
<1> SUFFICES ASSUME IInv, CallbackReturns
             PROVE  Promise!HandOver
  OBVIOUS
<1>1. /\ UNCHANGED <<stopEvent, queue, newest>> /\ pc = "callback" /\ inHand' = NoReply
  BY DEF CallbackReturns
<1>2. AsChannel.inHand # Promise!NoReply
  BY <1>1 DEF IInv, Hand, AsChannel, Promise!NoReply, NoReply
<1>3. CASE stopEvent
  <2>1. ThreadPhase = "stopping" /\ ThreadPhase' = "done"
    BY <1>1, <1>3 DEF CallbackReturns, ThreadPhase
  <2>2. AsChannel' = Promise!HandedOver(AsChannel)
    BY <1>1, <2>1 DEF AsChannel, Promise!HandedOver, Promise!Exited, Promise!NoReply, NoReply
  <2> QED
    BY <1>1, <1>2, <2>2 DEF Promise!HandOver
<1>4. CASE ~stopEvent
  <2>1. pc' = "streaming" /\ sent' = sent
    BY <1>4 DEF CallbackReturns
  <2>2. ThreadPhase = "running" /\ ThreadPhase' = "running"
    BY <1>1, <1>4, <2>1 DEF ThreadPhase
  <2>3. Underway' = Underway
    BY <1>1, <2>1 DEF Underway, Queued
  <2>4. AsChannel' = Promise!HandedOver(AsChannel)
    BY <1>1, <2>2, <2>3 DEF AsChannel, Underway, Promise!HandedOver, Promise!NoReply, NoReply
  <2> QED
    BY <1>1, <1>2, <2>4 DEF Promise!HandOver
<1> QED
  BY <1>3, <1>4

LEMMA ImplementsLeaveLoop == IInv /\ LeaveLoop => Promise!Exit
<1> SUFFICES ASSUME IInv, LeaveLoop
             PROVE  Promise!Exit
  OBVIOUS
<1>1. UNCHANGED <<stopEvent, inHand, newest>> /\ pc = "loop" /\ pc' = "exited" /\ stopEvent
  BY DEF LeaveLoop
<1>2. ThreadPhase = "stopping" /\ ThreadPhase' = "done"
  BY <1>1 DEF ThreadPhase
<1>3. inHand = NoReply
  BY <1>1 DEF IInv, Hand
<1>4. AsChannel' = Promise!Exited(AsChannel)
  BY <1>1, <1>2, Leaves
<1>5. Promise!CanExit(AsChannel)
  BY <1>2, <1>3 DEF AsChannel, Promise!CanExit, Promise!NoReply, NoReply
<1> QED
  BY <1>1, <1>4, <1>5 DEF Promise!Exit

\* Something that was under way is so no longer.
LEMMA ImplementsLoss ==
  ASSUME ThreadPhase' = ThreadPhase, inHand' = inHand, newest' = newest,
         Underway' \subseteq Underway
  PROVE  Promise!Lose
<1>1. CASE ThreadPhase = "done"
  <2>1. AsChannel.pending = {} /\ AsChannel' = Promise!Kept(AsChannel, {})
    BY <1>1 DEF AsChannel, Promise!Kept
  <2> QED
    BY <2>1 DEF Promise!Lose
<1>2. CASE ThreadPhase # "done"
  <2>1. AsChannel.pending = Underway /\ AsChannel' = Promise!Kept(AsChannel, Underway')
    BY <1>2 DEF AsChannel, Underway, Promise!Kept
  <2> QED
    BY <2>1 DEF Promise!Lose
<1> QED
  BY <1>1, <1>2

LEMMA ImplementsStreamFails == IInv /\ StreamFails => Promise!Lose
<1> SUFFICES ASSUME IInv, StreamFails
             PROVE  Promise!Lose
  OBVIOUS
<1>1. /\ UNCHANGED <<stopEvent, queue, inHand, newest>> /\ sent' = <<>>
      /\ pc = "streaming" /\ pc' = "backoff"
  BY DEF StreamFails, Abandon
<1>2. ThreadPhase' = ThreadPhase
  BY <1>1 DEF ThreadPhase
<1>3. Range(sent') = {}
  BY <1>1 DEF Range
<1>4. Underway' \subseteq Underway
  BY <1>1, <1>3 DEF Underway, Queued
<1> QED
  BY <1>1, <1>2, <1>4, ImplementsLoss

LEMMA ImplementsStaleFeed == IInv /\ StaleFeed => Promise!Lose
<1> SUFFICES ASSUME IInv, StaleFeed
             PROVE  Promise!Lose
  OBVIOUS
<1>1. UNCHANGED <<pc, stopEvent, sent, inHand, newest>> /\ queue' = Tail(queue) /\ queue # <<>>
  BY DEF StaleFeed
<1>2. Range(queue) = {Head(queue)} \cup Range(queue')
  BY <1>1, Shapes, RangeTail DEF IInv
<1>3. Underway' \subseteq Underway
  BY <1>1, <1>2 DEF Underway, Queued
<1>4. ThreadPhase' = ThreadPhase
  BY <1>1 DEF ThreadPhase
<1> QED
  BY <1>1, <1>3, <1>4, ImplementsLoss

\* From the queue onto the stream nothing is lost.
LEMMA ImplementsFeed == IInv /\ Feed => UNCHANGED Promise!cvars
<1> SUFFICES ASSUME IInv, Feed
             PROVE  UNCHANGED Promise!cvars
  OBVIOUS
<1>1. /\ UNCHANGED <<pc, stopEvent, inHand, newest>>
      /\ queue' = Tail(queue) /\ queue # <<>>
      /\ sent' = IF Head(queue) = Sentinel THEN sent ELSE Append(sent, Head(queue))
  BY DEF Feed
<1>2. Range(queue) = {Head(queue)} \cup Range(queue') /\ Head(queue) \in Item
  BY <1>1, Shapes, RangeTail DEF IInv
<1>3. Underway' = Underway
  <2>1. CASE Head(queue) = Sentinel
    BY <1>1, <1>2, <2>1 DEF Underway, Queued
  <2>2. CASE Head(queue) # Sentinel
    <3>1. Head(queue) \in Observation
      BY <1>2, <2>2 DEF Item
    <3>2. Range(sent') = Range(sent) \cup {Head(queue)}
      BY <1>1, <2>2, <3>1, Shapes, RangeAppend DEF IInv
    <3> QED
      BY <1>2, <2>2, <3>2 DEF Underway, Queued
  <2> QED
    BY <2>1, <2>2
<1>4. ThreadPhase' = ThreadPhase
  BY <1>1 DEF ThreadPhase
<1> QED
  BY <1>1, <1>3, <1>4, Same DEF Promise!cvars

-----------------------------------------------------------------------------
(* The end *)

LEMMA AbandonLemma ==
  ASSUME Abandon, stale \in Nat, feeder \in {"polling", "off"}
  PROVE  /\ feeder' = "off"
         /\ stale' = stale + (IF feeder = "polling" THEN 1 ELSE 0)
         /\ (IF feeder' = "polling" THEN 2 ELSE 0) + stale'
              <= (IF feeder = "polling" THEN 2 ELSE 0) + stale
BY DEF Abandon

\* A stopped client winds down: the argument behind StopEndsThreads, which adds
\* that the threads do take their steps (stop(), _run, _request_iter).
THEOREM StopLeavesLessToDo == Spec => StopWindsDown
<1>1. IInv /\ [Next]_vars
        => [stopEvent => IF newest' = newest THEN StepsLeft' < StepsLeft
                         ELSE StepsLeft' = StepsLeft]_vars
  <2> SUFFICES ASSUME IInv, Next, stopEvent
               PROVE  IF newest' = newest THEN StepsLeft' < StepsLeft
                      ELSE StepsLeft' = StepsLeft
    OBVIOUS
  <2>0. /\ stale \in Nat /\ newest \in Nat /\ feeder \in {"polling", "off"}
        /\ pc \in {"none", "loop", "streaming", "callback", "backoff", "exited"}
    BY ClientAssumption DEF IInv, TypeOK
  <2>1. CASE Start \/ Stop \/ Connect
    BY <2>1 DEF Start, Stop, Connect
  <2>2. CASE Send
    BY <2>0, <2>2 DEF Send, StepsLeft
  <2>3. CASE LeaveLoop \/ Reply \/ StreamEnds \/ BackoffEnds
    <3>1. /\ UNCHANGED <<newest, feeder, stale>>
          /\ \/ pc = "loop" /\ pc' = "exited"
             \/ pc = "streaming" /\ pc' \in {"callback", "loop"}
             \/ pc = "backoff" /\ pc' = "loop"
      BY <2>3 DEF LeaveLoop, Reply, StreamEnds, BackoffEnds
    <3> QED
      BY <2>0, <3>1 DEF StepsLeft
  <2>4. CASE CallbackReturns
    <3>1. pc = "callback" /\ pc' = "exited" /\ Abandon /\ newest' = newest
      BY <2>4 DEF CallbackReturns
    <3> QED
      BY <2>0, <3>1, AbandonLemma DEF StepsLeft
  <2>5. CASE StreamFails
    <3>1. pc = "streaming" /\ pc' = "backoff" /\ Abandon /\ newest' = newest
      BY <2>5 DEF StreamFails
    <3> QED
      BY <2>0, <3>1, AbandonLemma DEF StepsLeft
  <2>6. CASE Feed
    <3>1. feeder = "polling" /\ feeder' = "off" /\ UNCHANGED <<pc, stale, newest>>
      BY <2>6 DEF Feed
    <3> QED
      BY <2>0, <3>1 DEF StepsLeft
  <2>7. CASE PollTimesOut
    BY <2>0, <2>7 DEF PollTimesOut, StepsLeft
  <2>8. CASE StaleFeed \/ StaleTimesOut
    <3>1. UNCHANGED <<newest, feeder, pc>> /\ stale' = stale - 1
      BY <2>8 DEF StaleFeed, StaleTimesOut
    <3> QED
      BY <2>0, <3>1 DEF StepsLeft
  <2>9. \/ Start \/ Stop \/ Connect
        \/ Send
        \/ LeaveLoop \/ Reply \/ StreamEnds \/ BackoffEnds
        \/ CallbackReturns \/ StreamFails
        \/ Feed \/ PollTimesOut \/ StaleFeed \/ StaleTimesOut
    BY DEF Next, RunThread, OwnSteps, Remote, RequestThreads
  <2> QED
    BY <2>1, <2>2, <2>3, <2>4, <2>5, <2>6, <2>7, <2>8, <2>9, Zenon
<1> QED
  BY <1>1, InvariantHolds, PTL DEF Spec, StopWindsDown

-----------------------------------------------------------------------------
\* The client implements the channel that EdgeNode and VLASystem use in its
\* place: every step is one of the channel's, or none (all of grpc_client.py).
THEOREM ImplementsChannel == Spec => ActsAsChannel
<1>1. Init => Promise!Init
  <2> SUFFICES ASSUME Init
               PROVE  Promise!Init
    OBVIOUS
  <2>1. Range(queue) = {} /\ Range(sent) = {}
    BY DEF Init, Range
  <2>2. ThreadPhase = "new" /\ inHand = NoReply /\ newest \in Nat
    BY ClientAssumption DEF Init, ThreadPhase
  <2>3. Queued = {}
    BY <2>1 DEF Queued
  <2> QED
    BY <2>1, <2>2, <2>3
       DEF Promise!Init, Promise!NewChannel, AsChannel, Promise!NoReply, NoReply
<1>2. IInv /\ [Next]_vars => [Promise!Next]_(Promise!cvars)
  BY ImplementsStill, ImplementsStart, ImplementsStop, ImplementsSend, ImplementsReply,
     ImplementsCallbackReturns, ImplementsLeaveLoop, ImplementsStreamFails,
     ImplementsStaleFeed, ImplementsFeed
     DEF Next, RunThread, OwnSteps, Remote, RequestThreads, Promise!Next
<1> QED
  BY <1>1, <1>2, InvariantHolds, PTL DEF Spec, ActsAsChannel, Promise!Spec
=============================================================================
