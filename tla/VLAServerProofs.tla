-------------------------- MODULE VLAServerProofs --------------------------
(***************************************************************************)
(* Proofs about VLAServer, for every number of streams, peers, workers and *)
(* observations.                                                           *)
(*                                                                         *)
(* PastImageIsPredecessor speaks of inferences in progress only.  What     *)
(* carries it from one to the next is the table: its entry for a peer is   *)
(* the last image that any stream of that peer took (Table), and a past    *)
(* that equals that entry can only be the own image of its inference       *)
(* (Unshared), so the next reader of the entry shares it with nobody else. *)
(***************************************************************************)
EXTENDS VLAServer, SequenceTheorems, FiniteSetTheorems, TLAPS

Inferring(s) == phase[s] = "inferring"

\* A stream that was called has a peer; the pool holds only such streams.
Called ==
  /\ \A s \in Stream : phase[s] = "unused" => peer[s] = None /\ taken[s] = 0
  /\ \A s \in Stream : phase[s] # "unused" => peer[s] \in Peer
  /\ \A i \in 1 .. Len(pool) : pool[i] \in Stream => phase[pool[i]] # "unused"

Table ==
  /\ \A p \in Peer : seen[p] # None =>
       /\ peer[seen[p][1]] = p
       /\ seen[p][2] = taken[seen[p][1]]
  /\ \A s \in Stream : taken[s] # 0 => seen[peer[s]] # None

Pasts ==
  \A s \in Stream : Inferring(s) =>
    /\ past[s] \in Image /\ taken[s] # 0
    /\ peer[past[s][1]] = peer[s]
    /\ past[s][2] <= taken[past[s][1]]

Unshared ==
  /\ \A s \in Stream : Inferring(s) /\ past[s] = seen[peer[s]] => past[s] = <<s, taken[s]>>
  /\ \A s, t \in Stream : s # t /\ Inferring(s) /\ Inferring(t) /\ past[s] = past[t]
       => past[s] \in {<<s, taken[s]>>, <<t, taken[t]>>}

Alone(s) == \A t \in Stream \ {s} : peer[t] # peer[s]

Predecessor(s) == <<s, IF taken[s] = 1 THEN 1 ELSE taken[s] - 1>>

Ordered == \A s \in Stream : Inferring(s) /\ Alone(s) => past[s] = Predecessor(s)

IInv == TypeOK /\ Called /\ Table /\ Pasts /\ Unshared /\ Ordered

-----------------------------------------------------------------------------
(* Types and the pool *)

LEMMA Moves ==
  ASSUME TypeOK, NEW s \in Stream,
         NEW ph \in {"queued", "reading", "inferring", "ended"}, Moved(s, ph)
  PROVE  /\ phase' \in [Stream -> {"unused", "queued", "reading", "inferring", "ended"}]
         /\ phase'[s] = ph /\ \A t \in Stream \ {s} : phase'[t] = phase[t]
BY DEF TypeOK, Moved

\* A stream that moves on, within its worker or out of it, stays called.
LEMMA CalledMoves ==
  ASSUME TypeOK, Called, NEW s \in Stream, phase[s] # "unused",
         NEW ph \in {"queued", "reading", "inferring", "ended"}, Moved(s, ph),
         UNCHANGED <<pool, peer>>, \A t \in Stream \ {s} : taken'[t] = taken[t]
  PROVE  Called'
<1>1. phase'[s] = ph /\ \A t \in Stream \ {s} : phase'[t] = phase[t]
  BY Moves
<1> QED
  BY <1>1 DEF Called

LEMMA TypesKept ==
  ASSUME TypeOK, Called, Next
  PROVE  TypeOK' /\ Called'
<1>1. ASSUME NEW s \in Stream, CallStream(s) PROVE TypeOK' /\ Called'
  <2>1. PICK p \in Peer : peer' = [peer EXCEPT ![s] = p]
    BY <1>1 DEF CallStream
  <2>2. /\ phase[s] = "unused" /\ Moved(s, "queued") /\ pool' = Append(pool, s)
        /\ UNCHANGED <<server, info, client, sent, taken, seen, past>>
    BY <1>1 DEF CallStream, images
  <2>3. TypeOK'
    BY <2>1, <2>2, Moves DEF TypeOK, Call
  <2>4. phase'[s] = "queued" /\ \A t \in Stream \ {s} : phase'[t] = phase[t]
    BY <2>2, Moves
  <2>5. peer'[s] = p /\ \A t \in Stream \ {s} : peer'[t] = peer[t]
    BY <2>1 DEF TypeOK
  <2>6. \A i \in 1 .. Len(pool') : pool'[i] \in Stream => phase'[pool'[i]] # "unused"
    <3> SUFFICES ASSUME NEW i \in 1 .. Len(pool'), pool'[i] \in Stream
                 PROVE  phase'[pool'[i]] # "unused"
      OBVIOUS
    <3>1. Len(pool') = Len(pool) + 1 /\ pool'[i] = (IF i = Len(pool) + 1 THEN s ELSE pool[i])
      BY <2>2 DEF TypeOK, Call
    <3>2. CASE i = Len(pool) + 1
      BY <2>4, <3>1, <3>2
    <3>3. CASE i # Len(pool) + 1
      <4>1. i \in 1 .. Len(pool) /\ pool'[i] = pool[i]
        BY <3>1, <3>3 DEF TypeOK
      <4>2. phase[pool[i]] # "unused"
        BY <4>1 DEF Called
      <4> QED
        BY <2>4, <4>1, <4>2
    <3> QED
      BY <3>2, <3>3
  <2>7. Called'
    BY <2>2, <2>4, <2>5, <2>6 DEF Called
  <2> QED
    BY <2>3, <2>7
<1>2. ASSUME NEW i \in InfoCall, CallInfo(i) PROVE TypeOK' /\ Called'
  <2>1. /\ pool' = Append(pool, i) /\ info' = [info EXCEPT ![i] = "queued"]
        /\ UNCHANGED <<server, phase, client, peer, sent, taken, seen, past>>
    BY <1>2 DEF CallInfo, streams, images
  <2>2. TypeOK'
    BY <2>1 DEF TypeOK, Call
  <2>3. i \notin Stream
    BY ServerAssumption
  <2>4. \A j \in 1 .. Len(pool') : pool'[j] \in Stream => phase'[pool'[j]] # "unused"
    <3> SUFFICES ASSUME NEW j \in 1 .. Len(pool'), pool'[j] \in Stream
                 PROVE  phase'[pool'[j]] # "unused"
      OBVIOUS
    <3>1. Len(pool') = Len(pool) + 1 /\ pool'[j] = (IF j = Len(pool) + 1 THEN i ELSE pool[j])
      BY <2>1 DEF TypeOK, Call
    <3>2. j \in 1 .. Len(pool) /\ pool'[j] = pool[j]
      BY <2>3, <3>1 DEF TypeOK
    <3> QED
      BY <2>1, <3>2 DEF Called
  <2>5. Called'
    BY <2>1, <2>4 DEF Called
  <2> QED
    BY <2>2, <2>5
<1>3. ASSUME NEW s \in Stream, Observe(s) PROVE TypeOK' /\ Called'
  <2>1. /\ sent[s] < MaxObs /\ sent' = [sent EXCEPT ![s] = @ + 1]
        /\ UNCHANGED <<server, pool, phase, info, client, peer, taken, seen, past>>
    BY <1>3 DEF Observe, calls, images
  <2>2. sent' \in [Stream -> 0 .. MaxObs] /\ \A t \in Stream : taken[t] <= sent'[t]
    BY <2>1, ServerAssumption DEF TypeOK
  <2> QED
    BY <2>1, <2>2 DEF TypeOK, Called
<1>4. ASSUME NEW s \in Stream, Leave(s) PROVE TypeOK' /\ Called'
  BY <1>4 DEF Leave, calls, images, TypeOK, Called
<1>5. ASSUME NEW s \in Stream, Take(s) PROVE TypeOK' /\ Called'
  <2>1. /\ phase[s] = "reading" /\ taken[s] < sent[s] /\ Moved(s, "inferring")
        /\ taken' = [taken EXCEPT ![s] = @ + 1]
        /\ UNCHANGED <<server, pool, info, client, peer, sent>>
    BY <1>5 DEF Take, Waiting, streams
  <2>2. /\ past' = [past EXCEPT ![s] = IF seen[peer[s]] = None THEN <<s, taken'[s]>>
                                       ELSE seen[peer[s]]]
        /\ seen' = [seen EXCEPT ![peer[s]] = <<s, taken'[s]>>]
    BY <1>5 DEF Take
  <2>3. peer[s] \in Peer
    BY <2>1 DEF Called
  <2>4. /\ taken'[s] \in 1 .. MaxObs /\ taken' \in [Stream -> 0 .. MaxObs]
        /\ \A t \in Stream : taken'[t] <= sent[t]
    BY <2>1, ServerAssumption DEF TypeOK
  <2>5. <<s, taken'[s]>> \in Image
    BY <2>4 DEF Image
  <2>6. seen' \in [Peer -> Image \cup {None}] /\ past' \in [Stream -> Image \cup {None}]
    BY <2>2, <2>3, <2>5 DEF TypeOK
  <2>7. TypeOK'
    BY <2>1, <2>4, <2>6, Moves DEF TypeOK
  <2>8. Called'
    BY <2>1, CalledMoves DEF TypeOK
  <2> QED
    BY <2>7, <2>8
<1>6. ASSUME NEW s \in Stream, Yield(s) \/ InferFails(s) PROVE TypeOK' /\ Called'
  <2>1. /\ phase[s] = "inferring" /\ (Moved(s, "ended") \/ Moved(s, "reading"))
        /\ past' = [past EXCEPT ![s] = None]
        /\ UNCHANGED <<server, pool, info, client, peer, sent, taken, seen>>
    BY <1>6 DEF Yield, InferFails, streams
  <2>2. TypeOK'
    BY <2>1, Moves DEF TypeOK
  <2>3. Called'
    BY <2>1, CalledMoves
  <2> QED
    BY <2>2, <2>3
<1>7. ASSUME NEW s \in Stream, RequestsEnd(s) PROVE TypeOK' /\ Called'
  <2>1. /\ phase[s] = "reading" /\ Moved(s, "ended")
        /\ UNCHANGED <<server, pool, info, client, peer, sent, taken, seen, past>>
    BY <1>7 DEF RequestsEnd, streams, images
  <2>2. TypeOK'
    BY <2>1, Moves DEF TypeOK
  <2>3. Called'
    BY <2>1, CalledMoves
  <2> QED
    BY <2>2, <2>3
<1>8. ASSUME Dispatch PROVE TypeOK' /\ Called'
  <2>1. /\ pool # <<>> /\ pool' = Tail(pool)
        /\ UNCHANGED <<server, client, peer, sent, taken, seen, past>>
    BY <1>8 DEF Dispatch, streams, images
  <2>2. /\ pool' \in Seq(Call) /\ Len(pool') = Len(pool) - 1 /\ Len(pool) \in Nat \ {0}
        /\ \A i \in 1 .. Len(pool') : pool'[i] = pool[i + 1]
    BY <2>1, HeadTailProperties, EmptySeq DEF TypeOK
  <2>3. Head(pool) = pool[1] /\ 1 \in 1 .. Len(pool)
    BY <2>1, <2>2
  <2>4. CASE Head(pool) \in Stream /\ Moved(Head(pool), "reading") /\ UNCHANGED info
    <3>1. phase[Head(pool)] # "unused"
      BY <2>3, <2>4 DEF Called
    <3>2. /\ phase'[Head(pool)] = "reading"
          /\ \A t \in Stream \ {Head(pool)} : phase'[t] = phase[t]
      BY <2>4, Moves
    <3>3. TypeOK'
      BY <2>1, <2>2, <2>4, Moves DEF TypeOK
    <3>4. \A i \in 1 .. Len(pool') : pool'[i] \in Stream => phase'[pool'[i]] # "unused"
      <4> TAKE i \in 1 .. Len(pool')
      <4>1. i + 1 \in 1 .. Len(pool) /\ pool'[i] = pool[i + 1]
        BY <2>2
      <4> QED
        BY <3>2, <4>1 DEF Called
    <3>5. Called'
      BY <2>1, <3>1, <3>2, <3>4 DEF Called
    <3> QED
      BY <3>3, <3>5
  <2>5. CASE /\ Head(pool) \in InfoCall /\ UNCHANGED phase
             /\ info' = [info EXCEPT ![Head(pool)] =
                           IF server = "down" THEN "failed" ELSE "answered"]
    <3>1. TypeOK'
      BY <2>1, <2>2, <2>5 DEF TypeOK
    <3>2. \A i \in 1 .. Len(pool') : pool'[i] \in Stream => phase'[pool'[i]] # "unused"
      <4> TAKE i \in 1 .. Len(pool')
      <4>1. i + 1 \in 1 .. Len(pool) /\ pool'[i] = pool[i + 1]
        BY <2>2
      <4> QED
        BY <2>5, <4>1 DEF Called
    <3>3. Called'
      BY <2>1, <2>5, <3>2 DEF Called
    <3> QED
      BY <3>1, <3>3
  <2> QED
    BY <1>8, <2>4, <2>5 DEF Dispatch
<1>9. ASSUME Stop \/ GraceEnds PROVE TypeOK' /\ Called'
  <2>1. CASE Stop
    BY <2>1 DEF Stop, calls, streams, images, TypeOK, Called
  <2>2. CASE GraceEnds
    <3>1. /\ client' = [s \in Stream |-> IF Live(s) THEN "gone" ELSE client[s]]
          /\ server' = "down"
          /\ UNCHANGED <<pool, phase, info, peer, sent, taken, seen, past>>
      BY <2>2 DEF GraceEnds, calls, images
    <3>2. client' \in [Stream -> {"open", "halfClosed", "gone"}]
      BY <3>1 DEF TypeOK
    <3> QED
      BY <3>1, <3>2 DEF TypeOK, Called
  <2> QED
    BY <1>9, <2>1, <2>2
<1> QED
  BY <1>1, <1>2, <1>3, <1>4, <1>5, <1>6, <1>7, <1>8, <1>9 DEF Next, Handler

-----------------------------------------------------------------------------
(* The past images *)

\* Steps that take nothing leave the table and the pasts alone.
LEMMA Quiet ==
  ASSUME TypeOK, Called, Table, Pasts, Unshared, Ordered,
         UNCHANGED <<peer, taken, seen>>,
         \A s \in Stream : Inferring(s)' => Inferring(s) /\ past'[s] = past[s]
  PROVE  Table' /\ Pasts' /\ Unshared' /\ Ordered'
<1>1. Table' /\ Pasts'
  BY DEF Table, Pasts
<1>2. Unshared'
  BY DEF Unshared
<1>3. Ordered'
  BY DEF Ordered, Alone, Predecessor
<1> QED
  BY <1>1, <1>2, <1>3

\* A stream that is called has taken nothing yet, so no image is its.
LEMMA CalledQuietly ==
  ASSUME IInv, NEW s \in Stream, CallStream(s)
  PROVE  Table' /\ Pasts' /\ Unshared' /\ Ordered'
<1>1. PICK p \in Peer : peer' = [peer EXCEPT ![s] = p]
  BY DEF CallStream
<1>2. phase[s] = "unused" /\ Moved(s, "queued") /\ UNCHANGED <<taken, seen, past>>
  BY DEF CallStream, images
<1>3. peer[s] = None /\ taken[s] = 0
  BY <1>2 DEF IInv, Called
<1>4. \A t \in Stream \ {s} : peer'[t] = peer[t]
  BY <1>1 DEF IInv, TypeOK
<1>5. \A t \in Stream : Inferring(t)' => Inferring(t) /\ t # s
  BY <1>2, Moves DEF IInv, Inferring
<1>6. \A t \in Stream : Inferring(t) => t # s /\ peer[t] \in Peer /\ peer'[t] = peer[t]
  BY <1>2, <1>4 DEF IInv, Called, Inferring
<1>7. Table'
  <2>1. ASSUME NEW q \in Peer, seen[q] # None
        PROVE  peer'[seen[q][1]] = q /\ seen[q][2] = taken[seen[q][1]]
    <3>1. seen[q] \in Image /\ peer[seen[q][1]] = q /\ seen[q][2] = taken[seen[q][1]]
      BY <2>1 DEF IInv, TypeOK, Table
    <3>2. seen[q][1] \in Stream /\ seen[q][1] # s
      BY <1>3, <3>1, ServerAssumption DEF Image
    <3> QED
      BY <1>4, <3>1, <3>2
  <2>2. ASSUME NEW t \in Stream, taken[t] # 0
        PROVE  seen[peer'[t]] # None
    BY <1>3, <1>4, <2>2 DEF IInv, Table
  <2> QED
    BY <1>2, <2>1, <2>2 DEF Table
<1>8. ASSUME NEW t \in Stream, Inferring(t)
      PROVE  peer'[past[t][1]] = peer'[t]
  <2>1. /\ past[t] \in Image /\ peer[past[t][1]] = peer[t]
        /\ past[t][2] <= taken[past[t][1]]
    BY <1>8 DEF IInv, Pasts
  <2>2. past[t][1] \in Stream /\ past[t][1] # s
    BY <1>3, <1>6, <1>8, <2>1, ServerAssumption DEF Image
  <2> QED
    BY <1>4, <1>6, <1>8, <2>1, <2>2
<1>9. Pasts'
  BY <1>2, <1>5, <1>8 DEF IInv, Pasts
<1>10. Unshared'
  BY <1>2, <1>5, <1>6 DEF IInv, Unshared
<1>11. Ordered'
  <2> SUFFICES ASSUME NEW t \in Stream, Inferring(t)', Alone(t)'
               PROVE  past'[t] = Predecessor(t)'
    BY DEF Ordered
  <2>1. Inferring(t) /\ t # s /\ peer[t] \in Peer /\ peer'[t] = peer[t]
    BY <1>5, <1>6
  <2>2. Alone(t)
    BY <1>3, <1>4, <2>1, ServerAssumption DEF Alone
  <2> QED
    BY <1>2, <2>1, <2>2 DEF IInv, Ordered, Predecessor
<1> QED
  BY <1>7, <1>9, <1>10, <1>11

\* The one step that reads the table and writes it.
LEMMA TakenInOrder ==
  ASSUME IInv, NEW s \in Stream, Take(s)
  PROVE  Table' /\ Pasts' /\ Unshared' /\ Ordered'
<1> DEFINE k == taken[s] + 1
           img == <<s, k>>
           old == seen[peer[s]]
<1>1. /\ phase[s] = "reading" /\ taken[s] < sent[s] /\ Moved(s, "inferring")
      /\ taken' = [taken EXCEPT ![s] = @ + 1] /\ peer' = peer
  BY DEF Take, Waiting, streams
<1>2. taken'[s] = k /\ \A t \in Stream \ {s} : taken'[t] = taken[t]
  BY <1>1 DEF IInv, TypeOK
<1>3. /\ past' = [past EXCEPT ![s] = IF old = None THEN img ELSE old]
      /\ seen' = [seen EXCEPT ![peer[s]] = img]
  <2>1. /\ past' = [past EXCEPT ![s] = IF seen[peer[s]] = None THEN <<s, taken'[s]>>
                                       ELSE seen[peer[s]]]
        /\ seen' = [seen EXCEPT ![peer[s]] = <<s, taken'[s]>>]
    BY DEF Take
  <2>2. <<s, taken'[s]>> = img
    BY <1>2
  <2> HIDE DEF img
  <2> QED
    BY <2>1, <2>2
<1>4. peer[s] \in Peer
  BY <1>1 DEF IInv, Called
<1>5. /\ past'[s] = (IF old = None THEN img ELSE old)
      /\ \A t \in Stream \ {s} : past'[t] = past[t]
  BY <1>3 DEF IInv, TypeOK
<1>6. seen'[peer[s]] = img /\ \A p \in Peer \ {peer[s]} : seen'[p] = seen[p]
  BY <1>3, <1>4 DEF IInv, TypeOK
<1>7. Inferring(s)' /\ \A t \in Stream \ {s} : Inferring(t)' => Inferring(t)
  BY <1>1, Moves DEF IInv, Inferring
<1>8. /\ taken[s] \in Nat /\ k \in 1 .. MaxObs
      /\ \A t \in Stream : taken[t] \in Nat
  BY <1>1, ServerAssumption DEF IInv, TypeOK
<1>9. img \in Image /\ img # None
  BY <1>8, ServerAssumption DEF Image
<1>10. old # None => /\ old \in Image /\ old[1] \in Stream /\ peer[old[1]] = peer[s]
                     /\ old[2] = taken[old[1]] /\ old = <<old[1], old[2]>>
  BY <1>4 DEF IInv, TypeOK, Table, Image
<1>11. old = None => taken[s] = 0
  BY DEF IInv, Table
\* No past of another inference is the image that is taken now.
<1>12. ASSUME NEW t \in Stream \ {s}, Inferring(t)
       PROVE  /\ past[t] \in Image /\ past[t] # img /\ taken[t] # 0 /\ peer[t] \in Peer
              /\ peer[past[t][1]] = peer[t] /\ past[t][2] <= taken[past[t][1]]
  <2>1. /\ past[t] \in Image /\ taken[t] # 0 /\ peer[past[t][1]] = peer[t]
        /\ past[t][2] <= taken[past[t][1]]
    BY <1>12 DEF IInv, Pasts
  <2>2. past[t] # img
    BY <1>8, <2>1
  <2>3. peer[t] \in Peer
    BY <1>12 DEF IInv, Called, Inferring
  <2> QED
    BY <2>1, <2>2, <2>3
<1>13. Table'
  <2>1. ASSUME NEW p \in Peer, seen'[p] # None
        PROVE  peer[seen'[p][1]] = p /\ seen'[p][2] = taken'[seen'[p][1]]
    <3>1. CASE p = peer[s]
      BY <1>2, <1>6, <3>1
    <3>2. CASE p # peer[s]
      <4>1. seen'[p] = seen[p]
        BY <1>6, <3>2
      <4>2. seen[p] \in Image /\ peer[seen[p][1]] = p /\ seen[p][2] = taken[seen[p][1]]
        BY <2>1, <4>1 DEF IInv, TypeOK, Table
      <4>3. seen[p][1] \in Stream \ {s}
        BY <3>2, <4>2 DEF Image
      <4> QED
        BY <1>2, <4>1, <4>2, <4>3
    <3> QED
      BY <3>1, <3>2
  <2>2. ASSUME NEW t \in Stream, taken'[t] # 0
        PROVE  seen'[peer[t]] # None
    <3>1. CASE peer[t] = peer[s]
      BY <1>6, <1>9, <3>1
    <3>2. CASE peer[t] # peer[s]
      <4>1. t # s /\ taken[t] # 0
        BY <1>2, <2>2, <3>2
      <4>2. peer[t] \in Peer
        BY <4>1 DEF IInv, Called
      <4> QED
        BY <1>6, <3>2, <4>1, <4>2 DEF IInv, Table
    <3> QED
      BY <3>1, <3>2
  <2> QED
    BY <1>1, <2>1, <2>2 DEF Table
<1>14. Pasts'
  <2>1. /\ past'[s] \in Image /\ taken'[s] # 0
        /\ peer[past'[s][1]] = peer[s] /\ past'[s][2] <= taken'[past'[s][1]]
    <3>1. CASE old = None
      BY <1>2, <1>5, <1>8, <1>9, <3>1
    <3>2. CASE old # None
      BY <1>2, <1>5, <1>8, <1>10, <3>2
    <3> QED
      BY <3>1, <3>2
  <2>2. ASSUME NEW t \in Stream \ {s}, Inferring(t)
        PROVE  /\ past'[t] \in Image /\ taken'[t] # 0
               /\ peer[past'[t][1]] = peer[t] /\ past'[t][2] <= taken'[past'[t][1]]
    <3>1. past[t][1] \in Stream /\ past[t][2] \in Nat
      BY <1>12, <2>2, ServerAssumption DEF Image
    <3> QED
      BY <1>2, <1>5, <1>8, <1>12, <2>2, <3>1
  <2> QED
    BY <1>1, <1>7, <2>1, <2>2 DEF Pasts
<1>15. Unshared'
  \* The entry is the new image, and only s itself can have that as its past.
  <2>1. past'[s] = seen'[peer[s]] => past'[s] = <<s, taken'[s]>>
    BY <1>2, <1>6
  <2>2. ASSUME NEW t \in Stream \ {s}, Inferring(t), past'[t] = seen'[peer[t]]
        PROVE  past'[t] = <<t, taken'[t]>>
    <3>1. peer[t] # peer[s] /\ seen'[peer[t]] = seen[peer[t]]
      BY <1>5, <1>6, <1>12, <2>2
    <3> QED
      BY <1>2, <1>5, <2>2, <3>1 DEF IInv, Unshared
  \* Who shares the entry that is read now has it as its own image.
  <2>3. ASSUME NEW t \in Stream \ {s}, Inferring(t), past'[t] = past'[s]
        PROVE  past'[s] \in {<<s, taken'[s]>>, <<t, taken'[t]>>}
    <3>1. CASE old = None
      BY <1>2, <1>5, <3>1
    <3>2. CASE old # None
      <4>1. past[t] = old /\ peer[t] = peer[s]
        BY <1>5, <1>10, <1>12, <2>3, <3>2
      <4>2. past[t] = <<t, taken[t]>>
        BY <2>3, <4>1 DEF IInv, Unshared
      <4> QED
        BY <1>2, <1>5, <2>3, <4>2
    <3> QED
      BY <3>1, <3>2
  <2>4. ASSUME NEW t \in Stream \ {s}, NEW u \in Stream \ {s}, t # u,
               Inferring(t), Inferring(u), past'[t] = past'[u]
        PROVE  past'[t] \in {<<t, taken'[t]>>, <<u, taken'[u]>>}
    BY <1>2, <1>5, <2>4 DEF IInv, Unshared
  <2>5. ASSUME NEW t \in Stream, NEW u \in Stream, t # u,
               Inferring(t)', Inferring(u)', past'[t] = past'[u]
        PROVE  past'[t] \in {<<t, taken'[t]>>, <<u, taken'[u]>>}
    <3>1. CASE t = s
      BY <1>7, <2>3, <2>5, <3>1
    <3>2. CASE u = s
      BY <1>7, <2>3, <2>5, <3>2
    <3>3. CASE t # s /\ u # s
      BY <1>7, <2>4, <2>5, <3>3
    <3> QED
      BY <3>1, <3>2, <3>3
  <2>6. \A t \in Stream : Inferring(t)' /\ past'[t] = seen'[peer[t]]
                            => past'[t] = <<t, taken'[t]>>
    BY <1>7, <2>1, <2>2
  <2> QED
    BY <1>1, <2>5, <2>6 DEF Unshared
<1>16. Ordered'
  <2> SUFFICES ASSUME NEW t \in Stream, Inferring(t)', Alone(t)'
               PROVE  past'[t] = Predecessor(t)'
    BY DEF Ordered
  <2>1. Alone(t)
    BY <1>1 DEF Alone
  <2>2. CASE t # s
    BY <1>2, <1>5, <1>7, <2>1, <2>2 DEF IInv, Ordered, Predecessor
  <2>3. CASE t = s /\ old = None
    BY <1>2, <1>5, <1>11, <2>3 DEF Predecessor
  <2>4. CASE t = s /\ old # None
    <3>1. old[1] = s
      BY <1>10, <2>1, <2>4 DEF Alone
    <3>2. old = <<s, taken[s]>> /\ taken[s] \in 1 .. MaxObs
      BY <1>10, <2>4, <3>1 DEF Image
    <3>3. k # 1 /\ k - 1 = taken[s]
      BY <3>2, ServerAssumption
    <3> QED
      BY <1>2, <1>5, <2>4, <3>2, <3>3 DEF Predecessor
  <2> QED
    BY <2>2, <2>3, <2>4
<1> QED
  BY <1>13, <1>14, <1>15, <1>16

-----------------------------------------------------------------------------
LEMMA Inductive == IInv /\ [Next]_vars => IInv'
<1> SUFFICES ASSUME IInv, [Next]_vars
             PROVE  IInv'
  OBVIOUS
<1>1. CASE UNCHANGED vars
  <2>1. TypeOK' /\ Called'
    BY <1>1 DEF IInv, TypeOK, Called, vars, calls, streams, images
  <2>2. UNCHANGED <<phase, peer, taken, seen, past>>
    BY <1>1 DEF vars, calls, streams, images
  <2> QED
    BY <2>1, <2>2, Quiet DEF IInv, Inferring
<1>2. CASE Next
  <2>1. TypeOK' /\ Called'
    BY <1>2, TypesKept DEF IInv
  <2>2. Table' /\ Pasts' /\ Unshared' /\ Ordered'
    <3>1. ASSUME NEW s \in Stream, CallStream(s)
          PROVE  Table' /\ Pasts' /\ Unshared' /\ Ordered'
      BY <3>1, CalledQuietly
    <3>2. ASSUME NEW s \in Stream, Take(s)
          PROVE  Table' /\ Pasts' /\ Unshared' /\ Ordered'
      BY <3>2, TakenInOrder
    <3>3. ASSUME NEW s \in Stream, Observe(s) \/ Leave(s)
          PROVE  Table' /\ Pasts' /\ Unshared' /\ Ordered'
      <4>1. UNCHANGED <<phase, peer, taken, seen, past>>
        BY <3>3 DEF Observe, Leave, calls, images
      <4> QED
        BY <4>1, Quiet DEF IInv, Inferring
    <3>4. ASSUME NEW s \in Stream, Yield(s) \/ InferFails(s)
          PROVE  Table' /\ Pasts' /\ Unshared' /\ Ordered'
      <4>1. /\ Moved(s, "ended") \/ Moved(s, "reading")
            /\ past' = [past EXCEPT ![s] = None] /\ UNCHANGED <<peer, taken, seen>>
        BY <3>4 DEF Yield, InferFails, streams
      <4>2. ~Inferring(s)' /\ \A t \in Stream \ {s} : Inferring(t)' => Inferring(t)
        BY <4>1, Moves DEF IInv, Inferring
      <4>3. \A t \in Stream \ {s} : past'[t] = past[t]
        BY <4>1 DEF IInv, TypeOK
      <4> QED
        BY <4>1, <4>2, <4>3, Quiet DEF IInv
    <3>5. ASSUME NEW s \in Stream, RequestsEnd(s)
          PROVE  Table' /\ Pasts' /\ Unshared' /\ Ordered'
      <4>1. Moved(s, "ended") /\ UNCHANGED <<peer, taken, seen, past>>
        BY <3>5 DEF RequestsEnd, streams, images
      <4>2. \A t \in Stream : Inferring(t)' => Inferring(t)
        BY <4>1, Moves DEF IInv, Inferring
      <4> QED
        BY <4>1, <4>2, Quiet DEF IInv
    <3>6. ASSUME Dispatch
          PROVE  Table' /\ Pasts' /\ Unshared' /\ Ordered'
      <4>1. UNCHANGED <<peer, taken, seen, past>>
        BY <3>6 DEF Dispatch, streams, images
      <4>2. \A t \in Stream : Inferring(t)' => Inferring(t)
        BY <3>6, Moves DEF Dispatch, IInv, Inferring
      <4> QED
        BY <4>1, <4>2, Quiet DEF IInv
    <3>7. ASSUME (\E i \in InfoCall : CallInfo(i)) \/ Stop \/ GraceEnds
          PROVE  Table' /\ Pasts' /\ Unshared' /\ Ordered'
      <4>1. UNCHANGED <<phase, peer, taken, seen, past>>
        BY <3>7 DEF CallInfo, Stop, GraceEnds, calls, streams, images
      <4> QED
        BY <4>1, Quiet DEF IInv, Inferring
    <3> QED
      BY <1>2, <3>1, <3>2, <3>3, <3>4, <3>5, <3>6, <3>7 DEF Next, Handler
  <2> QED
    BY <2>1, <2>2 DEF IInv
<1> QED
  BY <1>1, <1>2

LEMMA Initially == Init => IInv
<1> SUFFICES ASSUME Init
             PROVE  IInv
  OBVIOUS
<1>1. TypeOK
  BY ServerAssumption DEF Init, TypeOK, Call
<1>2. Called /\ Table
  BY DEF Init, Called, Table
<1>3. Pasts /\ Unshared /\ Ordered
  BY DEF Init, Pasts, Unshared, Ordered, Inferring
<1> QED
  BY <1>1, <1>2, <1>3 DEF IInv

LEMMA InvariantHolds == Spec => []IInv
BY Initially, Inductive, PTL DEF Spec

\* Every variable keeps its type, the queue of the pool however long it grows
\* (all of server.py).
THEOREM TypeCorrect == Spec => []TypeOK
<1>1. IInv => TypeOK
  BY DEF IInv
<1> QED
  BY <1>1, InvariantHolds, PTL

\* Whatever the number of streams and however they share peers: a past image is
\* of the same peer, at most one inference has it that does not own it, and the
\* only stream of a peer gets the observation before (StreamInfer).
THEOREM PastImages == Spec => []PastImageIsPredecessor
<1>1. IInv => PastImageIsPredecessor
  BY DEF IInv, Pasts, Unshared, Ordered, Inferring, Alone, Predecessor, PastImageIsPredecessor
<1> QED
  BY <1>1, InvariantHolds, PTL

-----------------------------------------------------------------------------
(* The pool's queue and the end of the server *)

InLine(c) == \E j \in 1 .. Len(pool) : pool[j] = c

Distinct == \A j, k \in 1 .. Len(pool) : pool[j] = pool[k] => j = k

\* Who waits for a worker is in the queue, once, and nobody else is.
Line ==
  /\ Distinct
  /\ \A s \in Stream : phase[s] = "queued" <=> InLine(s)
  /\ \A i \in InfoCall : info[i] = "queued" <=> InLine(i)

WorkersSuffice == IsFiniteSet(Busy) /\ Cardinality(Busy) <= Workers

\* No call outlives the grace period in the hands of its client.
Cancelled == server = "down" => \A s \in Stream : Live(s) => client[s] = "gone"

LEMMA JoinLine ==
  ASSUME pool \in Seq(Call), Distinct, NEW c \in Call, ~InLine(c), pool' = Append(pool, c)
  PROVE  Distinct' /\ \A d : InLine(d)' <=> InLine(d) \/ d = c
<1>1. /\ Len(pool') = Len(pool) + 1 /\ Len(pool) \in Nat
      /\ \A j \in 1 .. Len(pool) : pool'[j] = pool[j]
      /\ pool'[Len(pool) + 1] = c
  OBVIOUS
<1>2. Distinct'
  BY <1>1 DEF Distinct, InLine
<1>3. \A d : InLine(d)' <=> InLine(d) \/ d = c
  BY <1>1 DEF InLine
<1> QED
  BY <1>2, <1>3

LEMMA LeaveLine ==
  ASSUME pool \in Seq(Call), Distinct, pool # <<>>, pool' = Tail(pool)
  PROVE  /\ Head(pool) \in Call /\ InLine(Head(pool))
         /\ Distinct' /\ \A d : InLine(d)' <=> InLine(d) /\ d # Head(pool)
<1>1. /\ Len(pool') = Len(pool) - 1 /\ Len(pool) \in Nat \ {0}
      /\ \A j \in 1 .. Len(pool) - 1 : pool'[j] = pool[j + 1]
      /\ Head(pool) = pool[1] /\ Head(pool) \in Call
  OBVIOUS
<1>2. Distinct'
  BY <1>1 DEF Distinct
<1>3. ASSUME NEW d PROVE InLine(d)' <=> InLine(d) /\ d # Head(pool)
  <2>1. ASSUME InLine(d)' PROVE InLine(d) /\ d # Head(pool)
    <3>1. PICK j \in 1 .. Len(pool') : pool'[j] = d
      BY <2>1 DEF InLine
    <3>2. j + 1 \in 1 .. Len(pool) /\ pool[j + 1] = d /\ j + 1 # 1
      BY <1>1, <3>1
    <3> QED
      BY <1>1, <3>2 DEF InLine, Distinct
  <2>2. ASSUME InLine(d), d # Head(pool) PROVE InLine(d)'
    <3>1. PICK j \in 1 .. Len(pool) : pool[j] = d
      BY <2>2 DEF InLine
    <3>2. j - 1 \in 1 .. Len(pool') /\ pool'[j - 1] = d
      BY <1>1, <2>2, <3>1
    <3> QED
      BY <3>2 DEF InLine
  <2> QED
    BY <2>1, <2>2
<1> QED
  BY <1>1, <1>2, <1>3 DEF InLine

LEMMA LineStep ==
  ASSUME TypeOK, Line, Next
  PROVE  Line'
<1>0. pool \in Seq(Call)
  BY DEF TypeOK
<1>1. ASSUME NEW s \in Stream, CallStream(s) PROVE Line'
  <2>1. /\ phase[s] = "unused" /\ Moved(s, "queued") /\ pool' = Append(pool, s)
        /\ info' = info
    BY <1>1 DEF CallStream
  <2>2. ~InLine(s) /\ s \in Call
    BY <2>1 DEF Line, Call
  <2>3. Distinct' /\ \A d : InLine(d)' <=> InLine(d) \/ d = s
    BY <1>0, <2>1, <2>2, JoinLine DEF Line
  <2>4. phase'[s] = "queued" /\ \A t \in Stream \ {s} : phase'[t] = phase[t]
    BY <2>1, Moves
  <2>5. \A i \in InfoCall : i # s
    BY ServerAssumption
  <2> QED
    BY <2>1, <2>3, <2>4, <2>5 DEF Line
<1>2. ASSUME NEW i \in InfoCall, CallInfo(i) PROVE Line'
  <2>1. /\ info[i] = "unused" /\ info' = [info EXCEPT ![i] = "queued"]
        /\ pool' = Append(pool, i) /\ phase' = phase
    BY <1>2 DEF CallInfo
  <2>2. ~InLine(i) /\ i \in Call
    BY <2>1 DEF Line, Call
  <2>3. Distinct' /\ \A d : InLine(d)' <=> InLine(d) \/ d = i
    BY <1>0, <2>1, <2>2, JoinLine DEF Line
  <2>4. info'[i] = "queued" /\ \A k \in InfoCall \ {i} : info'[k] = info[k]
    BY <2>1 DEF TypeOK
  <2>5. \A s \in Stream : i # s
    BY ServerAssumption
  <2> QED
    BY <2>1, <2>3, <2>4, <2>5 DEF Line
<1>3. CASE Dispatch
  <2>1. pool # <<>> /\ pool' = Tail(pool)
    BY <1>3 DEF Dispatch
  <2>2. /\ Head(pool) \in Call /\ InLine(Head(pool))
        /\ Distinct' /\ \A d : InLine(d)' <=> InLine(d) /\ d # Head(pool)
    BY <1>0, <2>1, LeaveLine DEF Line
  <2>3. CASE Head(pool) \in Stream
    <3>1. Moved(Head(pool), "reading") /\ info' = info
      BY <1>3, <2>3, ServerAssumption DEF Dispatch
    <3>2. /\ phase'[Head(pool)] = "reading"
          /\ \A t \in Stream \ {Head(pool)} : phase'[t] = phase[t]
      BY <2>3, <3>1, Moves
    <3>3. \A i \in InfoCall : i # Head(pool)
      BY <2>3, ServerAssumption
    <3> QED
      BY <2>2, <2>3, <3>1, <3>2, <3>3 DEF Line
  <2>4. CASE Head(pool) \in InfoCall
    <3>1. /\ phase' = phase
          /\ \E a \in {"failed", "answered"} : info' = [info EXCEPT ![Head(pool)] = a]
      BY <1>3, <2>4, ServerAssumption DEF Dispatch
    <3>2. /\ info'[Head(pool)] # "queued"
          /\ \A i \in InfoCall \ {Head(pool)} : info'[i] = info[i]
      BY <2>4, <3>1 DEF TypeOK
    <3>3. \A s \in Stream : s # Head(pool)
      BY <2>4, ServerAssumption
    <3> QED
      BY <2>2, <2>4, <3>1, <3>2, <3>3 DEF Line
  <2> QED
    BY <2>2, <2>3, <2>4 DEF Call
<1>4. ASSUME NEW s \in Stream, Handler(s) PROVE Line'
  <2>1. /\ phase[s] \in {"reading", "inferring"} /\ UNCHANGED <<pool, info>>
        /\ \E ph \in {"reading", "inferring", "ended"} : Moved(s, ph)
    BY <1>4 DEF Handler, Take, Yield, InferFails, RequestsEnd
  <2>2. /\ phase'[s] # "queued" /\ phase[s] # "queued"
        /\ \A t \in Stream \ {s} : phase'[t] = phase[t]
    BY <2>1, Moves
  <2> QED
    BY <2>1, <2>2 DEF Line, Distinct, InLine
<1>5. CASE (\E s \in Stream : Observe(s) \/ Leave(s)) \/ Stop \/ GraceEnds
  <2>1. UNCHANGED <<pool, phase, info>>
    BY <1>5 DEF Observe, Leave, Stop, GraceEnds, calls
  <2> QED
    BY <2>1 DEF Line, Distinct, InLine
<1> QED
  BY <1>1, <1>2, <1>3, <1>4, <1>5 DEF Next

LEMMA HeadWaits ==
  ASSUME TypeOK, Line, Dispatch, Head(pool) \in Stream
  PROVE  phase[Head(pool)] = "queued"
<1>1. pool # <<>> /\ pool \in Seq(Call)
  BY DEF Dispatch, TypeOK
<1>2. 1 \in 1 .. Len(pool) /\ pool[1] = Head(pool)
  BY <1>1
<1> QED
  BY <1>2 DEF Line, InLine

\* How the set of handlers that run changes: by one more, who has a worker now,
\* or by one less.
LEMMA BusyStep ==
  ASSUME TypeOK, Line, Next
  PROVE  \/ /\ Dispatch /\ Cardinality(Busy) < Workers
            /\ \E s \in Stream : s \notin Busy /\ Busy' = Busy \cup {s}
         \/ Busy' = Busy
         \/ \E s \in Busy : Busy' = Busy \ {s}
<1>1. ASSUME NEW s \in Stream, CallStream(s) PROVE Busy' = Busy
  <2>1. phase[s] = "unused" /\ Moved(s, "queued")
    BY <1>1 DEF CallStream
  <2>2. phase'[s] = "queued" /\ \A t \in Stream \ {s} : phase'[t] = phase[t]
    BY <2>1, Moves
  <2> QED
    BY <2>1, <2>2 DEF Busy
<1>2. CASE Dispatch
  <2>1. CASE Head(pool) \in Stream /\ Moved(Head(pool), "reading")
    <3>1. phase[Head(pool)] = "queued"
      BY <1>2, <2>1, HeadWaits
    <3>2. /\ phase'[Head(pool)] = "reading"
          /\ \A t \in Stream \ {Head(pool)} : phase'[t] = phase[t]
      BY <2>1, Moves
    <3>3. Head(pool) \notin Busy /\ Busy' = Busy \cup {Head(pool)}
      BY <2>1, <3>1, <3>2 DEF Busy
    <3>4. Cardinality(Busy) < Workers
      BY <1>2 DEF Dispatch
    <3> QED
      BY <1>2, <2>1, <3>3, <3>4
  <2>2. CASE phase' = phase
    BY <2>2 DEF Busy
  <2> QED
    BY <1>2, <2>1, <2>2 DEF Dispatch
<1>3. ASSUME NEW s \in Stream, Handler(s)
      PROVE  Busy' = Busy \/ \E t \in Busy : Busy' = Busy \ {t}
  <2>1. /\ phase[s] \in {"reading", "inferring"}
        /\ \E ph \in {"reading", "inferring", "ended"} : Moved(s, ph)
    BY <1>3 DEF Handler, Take, Yield, InferFails, RequestsEnd
  <2>2. /\ phase'[s] \in {"reading", "inferring", "ended"}
        /\ \A t \in Stream \ {s} : phase'[t] = phase[t]
    BY <2>1, Moves
  <2>3. CASE phase'[s] = "ended"
    <3>1. s \in Busy /\ Busy' = Busy \ {s}
      BY <2>1, <2>2, <2>3 DEF Busy
    <3> QED
      BY <3>1
  <2>4. CASE phase'[s] # "ended"
    BY <2>1, <2>2, <2>4 DEF Busy
  <2> QED
    BY <2>3, <2>4
<1>4. CASE \/ \E s \in Stream : Observe(s) \/ Leave(s)
           \/ \E i \in InfoCall : CallInfo(i)
           \/ Stop \/ GraceEnds
  BY <1>4 DEF Observe, Leave, CallInfo, Stop, GraceEnds, calls, Busy
<1> QED
  BY <1>1, <1>2, <1>3, <1>4 DEF Next

LEMMA WorkersStep ==
  ASSUME TypeOK, Line, WorkersSuffice, Next
  PROVE  WorkersSuffice'
<1>1. Cardinality(Busy) \in Nat
  BY FS_CardinalityType DEF WorkersSuffice
<1>2. CASE Cardinality(Busy) < Workers /\ \E s \in Stream : s \notin Busy /\ Busy' = Busy \cup {s}
  <2>1. PICK s \in Stream : s \notin Busy /\ Busy' = Busy \cup {s}
    BY <1>2
  <2>2. IsFiniteSet(Busy') /\ Cardinality(Busy') = Cardinality(Busy) + 1
    BY <2>1, FS_AddElement DEF WorkersSuffice
  <2> QED
    BY <1>1, <1>2, <2>2, ServerAssumption DEF WorkersSuffice
<1>3. CASE Busy' = Busy
  BY <1>3 DEF WorkersSuffice
<1>4. CASE \E s \in Busy : Busy' = Busy \ {s}
  <2>1. PICK s \in Busy : Busy' = Busy \ {s}
    BY <1>4
  <2>2. IsFiniteSet(Busy') /\ Cardinality(Busy') = Cardinality(Busy) - 1
    BY <2>1, FS_RemoveElement DEF WorkersSuffice
  <2> QED
    BY <1>1, <2>2, ServerAssumption DEF WorkersSuffice
<1> QED
  BY <1>2, <1>3, <1>4, BusyStep

LEMMA CancelledStep ==
  ASSUME TypeOK, Line, Cancelled, Next
  PROVE  Cancelled'
<1>1. CASE GraceEnds
  <2>1. phase' = phase /\ client' = [s \in Stream |-> IF Live(s) THEN "gone" ELSE client[s]]
    BY <1>1 DEF GraceEnds, calls
  <2> QED
    BY <2>1 DEF Cancelled, Live
<1>2. ASSUME NEW s \in Stream, CallStream(s) PROVE Cancelled'
  BY <1>2 DEF CallStream, Cancelled
<1>3. CASE Stop
  BY <1>3 DEF Stop, Cancelled
<1>4. ASSUME server' = server, \A s \in Stream : Live(s)' => Live(s) /\ client'[s] \in {client[s], "gone"}
      PROVE  Cancelled'
  BY <1>4 DEF Cancelled
<1>5. ASSUME NEW s \in Stream, Leave(s) PROVE Cancelled'
  <2>1. phase' = phase /\ server' = server
    BY <1>5 DEF Leave, calls
  <2>2. \A t \in Stream : Live(t)' => Live(t)
    BY <2>1 DEF Live
  <2>3. server = "down" => \A t \in Stream : Live(t) => client'[t] = "gone"
    BY <1>5 DEF Leave, Cancelled, TypeOK
  <2> QED
    BY <2>1, <2>2, <2>3 DEF Cancelled
<1>6. CASE Dispatch
  <2>1. server' = server /\ client' = client
    BY <1>6 DEF Dispatch, streams
  <2>2. CASE Head(pool) \in Stream /\ Moved(Head(pool), "reading")
    <3>1. phase[Head(pool)] = "queued"
      BY <1>6, <2>2, HeadWaits
    <3>2. \A t \in Stream \ {Head(pool)} : phase'[t] = phase[t]
      BY <2>2, Moves
    <3>3. \A t \in Stream : Live(t)' => Live(t)
      BY <3>1, <3>2 DEF Live
    <3> QED
      BY <1>4, <2>1, <3>3
  <2>3. CASE phase' = phase
    BY <1>4, <2>1, <2>3 DEF Live
  <2> QED
    BY <1>6, <2>2, <2>3 DEF Dispatch
<1>7. ASSUME NEW s \in Stream, Handler(s) PROVE Cancelled'
  <2>1. /\ server' = server /\ client' = client /\ phase[s] \in {"reading", "inferring"}
        /\ \E ph \in {"reading", "inferring", "ended"} : Moved(s, ph)
    BY <1>7 DEF Handler, Take, Yield, InferFails, RequestsEnd, streams
  <2>2. \A t \in Stream \ {s} : phase'[t] = phase[t]
    BY <2>1, Moves
  <2>3. \A t \in Stream : Live(t)' => Live(t)
    BY <2>1, <2>2 DEF Live
  <2> QED
    BY <1>4, <2>1, <2>3
<1>8. ASSUME \/ \E s \in Stream : Observe(s)
             \/ \E i \in InfoCall : CallInfo(i)
      PROVE  Cancelled'
  <2>1. UNCHANGED <<server, phase, client>>
    BY <1>8 DEF Observe, CallInfo, calls, streams
  <2> QED
    BY <1>4, <2>1 DEF Live
<1> QED
  BY <1>1, <1>2, <1>3, <1>5, <1>6, <1>7, <1>8 DEF Next

PoolInv == TypeOK /\ Line /\ WorkersSuffice /\ Cancelled

LEMMA PoolInvHolds == Spec => []PoolInv
<1>1. Init => Line /\ WorkersSuffice /\ Cancelled
  <2> SUFFICES ASSUME Init
               PROVE  Line /\ WorkersSuffice /\ Cancelled
    OBVIOUS
  <2>1. Line /\ Cancelled
    BY DEF Init, Line, Distinct, InLine, Cancelled
  <2>2. Busy = {}
    BY DEF Init, Busy
  <2>3. WorkersSuffice
    BY <2>2, FS_EmptySet, ServerAssumption DEF WorkersSuffice
  <2> QED
    BY <2>1, <2>3
<1>2. TypeOK /\ Line /\ WorkersSuffice /\ Cancelled /\ [Next]_vars
        => Line' /\ WorkersSuffice' /\ Cancelled'
  <2> SUFFICES ASSUME TypeOK, Line, WorkersSuffice, Cancelled, [Next]_vars
               PROVE  Line' /\ WorkersSuffice' /\ Cancelled'
    OBVIOUS
  <2>1. CASE Next
    BY <2>1, LineStep, WorkersStep, CancelledStep
  <2>2. CASE UNCHANGED vars
    <3>1. UNCHANGED <<server, pool, phase, client, info>>
      BY <2>2 DEF vars, calls, streams
    <3> QED
      BY <3>1 DEF Line, Distinct, InLine, WorkersSuffice, Busy, Cancelled, Live
  <2> QED
    BY <2>1, <2>2
<1> QED
  BY <1>1, <1>2, TypeCorrect, PTL DEF Spec, PoolInv

\* A call that waits for a worker is in the queue, in one place, until it gets
\* one, and never are more handlers running than there are workers, of whatever
\* the calls, their order and their ends (VLAServer.start, StreamInfer).
THEOREM NobodyForgotten == Spec => [](Line /\ WorkersSuffice)
<1>1. PoolInv => Line /\ WorkersSuffice
  BY DEF PoolInv
<1> QED
  BY <1>1, PoolInvHolds, PTL

\* What a server that is down still has to do: a handler to start and to end
\* for each call in the queue, to end for each that runs.
Left == 2 * Len(pool) + Cardinality(Busy)

LEMMA LeftStep ==
  ASSUME PoolInv, server = "down", Next
  PROVE  Left' < Left
<1>0. Len(pool) \in Nat /\ Cardinality(Busy) \in Nat /\ pool \in Seq(Call)
  BY FS_CardinalityType DEF PoolInv, TypeOK, WorkersSuffice
<1>1. CASE Dispatch
  <2>1. Len(pool') = Len(pool) - 1
    BY <1>0, <1>1 DEF Dispatch
  <2>2. Cardinality(Busy') \in Nat /\ Cardinality(Busy') <= Cardinality(Busy) + 1
    <3>1. WorkersSuffice'
      BY <1>1, WorkersStep DEF PoolInv, Next
    <3>2. Cardinality(Busy') \in Nat
      BY <3>1, FS_CardinalityType DEF WorkersSuffice
    <3>3. CASE \E s \in Stream : s \notin Busy /\ Busy' = Busy \cup {s}
      <4>1. PICK s \in Stream : s \notin Busy /\ Busy' = Busy \cup {s}
        BY <3>3
      <4>2. Cardinality(Busy') = Cardinality(Busy) + 1
        BY <4>1, FS_AddElement DEF PoolInv, WorkersSuffice
      <4> QED
        BY <1>0, <4>2
    <3>4. CASE Busy' = Busy
      BY <1>0, <3>4
    <3>5. CASE \E s \in Busy : Busy' = Busy \ {s}
      <4>1. PICK s \in Busy : Busy' = Busy \ {s}
        BY <3>5
      <4>2. Cardinality(Busy') = Cardinality(Busy) - 1
        BY <4>1, FS_RemoveElement DEF PoolInv, WorkersSuffice
      <4> QED
        BY <1>0, <3>2, <4>2
    <3>6. \/ \E s \in Stream : s \notin Busy /\ Busy' = Busy \cup {s}
          \/ Busy' = Busy
          \/ \E s \in Busy : Busy' = Busy \ {s}
      BY <1>1, BusyStep DEF PoolInv, Next
    <3> QED
      BY <3>3, <3>4, <3>5, <3>6
  <2> QED
    BY <1>0, <2>1, <2>2 DEF Left
<1>2. ASSUME NEW s \in Stream, Handler(s) PROVE Left' < Left
  <2>1. client[s] = "gone"
    <3>1. phase[s] \in {"reading", "inferring"}
      BY <1>2 DEF Handler, Take, Yield, InferFails, RequestsEnd
    <3> QED
      BY <3>1 DEF PoolInv, Cancelled, Live
  <2>2. phase[s] \in {"reading", "inferring"} /\ Moved(s, "ended") /\ pool' = pool
    BY <1>2, <2>1 DEF Handler, Take, Waiting, Yield, InferFails, RequestsEnd
  <2>3. phase'[s] = "ended" /\ \A t \in Stream \ {s} : phase'[t] = phase[t]
    BY <2>2, Moves DEF PoolInv
  <2>4. s \in Busy /\ Busy' = Busy \ {s}
    BY <2>2, <2>3 DEF Busy
  <2>5. Cardinality(Busy') = Cardinality(Busy) - 1
    BY <2>4, FS_RemoveElement DEF PoolInv, WorkersSuffice
  <2> QED
    BY <1>0, <2>2, <2>5 DEF Left
<1>3. ASSUME NEW s \in Stream, Observe(s) \/ Leave(s) PROVE FALSE
  BY <1>3 DEF Observe, Leave, PoolInv, Cancelled
<1> QED
  BY <1>1, <1>2, <1>3 DEF Next, CallStream, CallInfo, Stop, GraceEnds

\* Once the grace period is over every step is one towards the end: a waiting
\* handler starts or a running one ends, none begins another inference, nobody
\* new comes in; and nothing is left only when no stream is (stop).
THEOREM DownServerWindsDown ==
  Spec => /\ [](Left \in Nat /\ (Left = 0 => \A s \in Stream : ~Live(s)))
          /\ [][server = "down" => Left' < Left]_vars
<1>1. PoolInv => Left \in Nat /\ (Left = 0 => \A s \in Stream : ~Live(s))
  <2> SUFFICES ASSUME PoolInv
               PROVE  Left \in Nat /\ (Left = 0 => \A s \in Stream : ~Live(s))
    OBVIOUS
  <2>1. Len(pool) \in Nat /\ IsFiniteSet(Busy) /\ Cardinality(Busy) \in Nat
    BY FS_CardinalityType DEF PoolInv, TypeOK, WorkersSuffice
  <2>2. ASSUME Left = 0, NEW s \in Stream PROVE ~Live(s)
    <3>1. Len(pool) = 0 /\ Cardinality(Busy) = 0
      BY <2>1, <2>2 DEF Left
    <3>2. Busy = {}
      BY <2>1, <3>1, FS_EmptySet
    <3>3. phase[s] # "queued"
      BY <3>1 DEF PoolInv, Line, InLine
    <3>4. phase[s] \notin {"reading", "inferring"}
      BY <3>2 DEF Busy
    <3>5. phase[s] \in {"unused", "queued", "reading", "inferring", "ended"}
      BY DEF PoolInv, TypeOK
    <3> QED
      BY <3>3, <3>4, <3>5 DEF Live
  <2> QED
    BY <2>1, <2>2 DEF Left
<1>2. PoolInv /\ [Next]_vars => [server = "down" => Left' < Left]_vars
  BY LeftStep
<1> QED
  BY <1>1, <1>2, PoolInvHolds, PTL DEF Spec
=============================================================================
