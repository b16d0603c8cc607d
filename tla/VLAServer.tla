------------------------------ MODULE VLAServer ------------------------------
(***************************************************************************)
(* VLAServer of raspicat_vla_remote/server.py: a gRPC server with a pool   *)
(* of worker threads.  A StreamInfer call keeps its worker for as long as  *)
(* the stream lasts; a GetModelInfo call needs one for a moment.  Calls    *)
(* that find no free worker wait in the pool's queue, first in first out.  *)
(* Streams share the backend and the table of past images.                 *)
(*                                                                         *)
(* The n-th observation of stream s, and the image in it, is <<s, n>>.     *)
(* context.peer() names a connection: streams of one process may share it. *)
(***************************************************************************)
EXTENDS Integers, Sequences, FiniteSets

CONSTANTS
  Stream,   \* StreamInfer calls
  InfoCall, \* GetModelInfo calls
  Peer,     \* peers
  Workers,  \* max_workers
  MaxObs,   \* bound on the observations of one stream
  None      \* no peer, no image

ASSUME ServerAssumption ==
  /\ Workers \in Nat \ {0} /\ MaxObs \in Nat
  /\ Stream \cap InfoCall = {}
  /\ None \notin Peer /\ None \notin Stream \X (1 .. MaxObs)

VARIABLES
  server,  \* up, stopping (within the grace period), down
  pool,    \* calls waiting for a worker
  phase,   \* phase[s]: where the handler of stream s is
  client,  \* client[s]: what the client of s may still do
  peer,    \* peer[s]: context.peer() of s
  sent,    \* sent[s]: how many observations arrived
  taken,   \* taken[s]: how many the handler took
  seen,    \* _past_image_per_client
  past,    \* past[s]: the past image given to the inference of s
  info     \* info[i]: GetModelInfo call i

calls == <<pool, phase, info>>
streams == <<client, peer, sent>>
images == <<taken, seen, past>>
vars == <<server, calls, streams, images>>

\* An image that cannot be decoded is replaced by a placeholder, which stands
\* for that observation all the same.
Image == Stream \X (1 .. MaxObs)
Call == Stream \cup InfoCall

TypeOK ==
  /\ server \in {"up", "stopping", "down"}
  /\ pool \in Seq(Call)
  /\ phase \in [Stream -> {"unused", "queued", "reading", "inferring", "ended"}]
  /\ client \in [Stream -> {"open", "halfClosed", "gone"}]
  /\ peer \in [Stream -> Peer \cup {None}]
  /\ sent \in [Stream -> 0 .. MaxObs]
  /\ taken \in [Stream -> 0 .. MaxObs] /\ \A s \in Stream : taken[s] <= sent[s]
  /\ seen \in [Peer -> Image \cup {None}]
  /\ past \in [Stream -> Image \cup {None}]
  /\ info \in [InfoCall -> {"unused", "queued", "answered", "failed"}]

Init ==
  /\ server = "up" /\ pool = <<>>
  /\ phase = [s \in Stream |-> "unused"]
  /\ client = [s \in Stream |-> "open"]
  /\ peer = [s \in Stream |-> None]
  /\ sent = [s \in Stream |-> 0]
  /\ taken = [s \in Stream |-> 0]
  /\ seen = [p \in Peer |-> None]
  /\ past = [s \in Stream |-> None]
  /\ info = [i \in InfoCall |-> "unused"]

Moved(s, ph) == phase' = [phase EXCEPT ![s] = ph]

-----------------------------------------------------------------------------
(* The clients *)

CallStream(s) ==
  /\ server = "up" /\ phase[s] = "unused"
  /\ Moved(s, "queued") /\ pool' = Append(pool, s)
  /\ \E p \in Peer : peer' = [peer EXCEPT ![s] = p]
  /\ UNCHANGED <<server, info, client, sent, images>>

CallInfo(i) ==
  /\ server = "up" /\ info[i] = "unused"
  /\ info' = [info EXCEPT ![i] = "queued"] /\ pool' = Append(pool, i)
  /\ UNCHANGED <<server, phase, streams, images>>

Live(s) == phase[s] \notin {"unused", "ended"}

Observe(s) ==
  /\ Live(s) /\ client[s] = "open" /\ sent[s] < MaxObs
  /\ sent' = [sent EXCEPT ![s] = @ + 1]
  /\ UNCHANGED <<server, calls, client, peer, images>>

\* No more requests, or no client any more: cancelled, or disconnected.
Leave(s) ==
  /\ Live(s)
  /\ \/ client[s] = "open" /\ client' = [client EXCEPT ![s] = "halfClosed"]
     \/ client[s] # "gone" /\ client' = [client EXCEPT ![s] = "gone"]
  /\ UNCHANGED <<server, calls, peer, sent, images>>

-----------------------------------------------------------------------------
(* The pool *)

Busy == {s \in Stream : phase[s] \in {"reading", "inferring"}}

\* Faulty: one worker is never used.
DispatchKeepingOne ==
  /\ pool # <<>> /\ Cardinality(Busy) < Workers - 1
  /\ pool' = Tail(pool)
  /\ \/ Head(pool) \in Stream /\ Moved(Head(pool), "reading") /\ UNCHANGED info
     \/ Head(pool) \in InfoCall /\ info' = [info EXCEPT ![Head(pool)] = "answered"] /\ UNCHANGED phase
  /\ UNCHANGED <<server, streams, images>>

\* A handler starts; that of GetModelInfo is over at once, but nobody gets the
\* answer of a server that has cancelled its calls.
Dispatch ==
  /\ pool # <<>> /\ Cardinality(Busy) < Workers
  /\ pool' = Tail(pool)
  /\ \/ Head(pool) \in Stream /\ Moved(Head(pool), "reading") /\ UNCHANGED info
     \/ /\ Head(pool) \in InfoCall
        /\ info' = [info EXCEPT ![Head(pool)] = IF server = "down" THEN "failed" ELSE "answered"]
        /\ UNCHANGED phase
  /\ UNCHANGED <<server, streams, images>>

-----------------------------------------------------------------------------
(* The handler of StreamInfer *)

\* Faulty: off by one.
WaitingAtEnd(s) == client[s] # "gone" /\ taken[s] <= sent[s] /\ taken[s] < MaxObs

Waiting(s) == client[s] # "gone" /\ taken[s] < sent[s]

\* Faulty: the table keeps the first image of a peer.
TakeKeepingFirst(s) ==
  /\ phase[s] = "reading" /\ Waiting(s)
  /\ Moved(s, "inferring")
  /\ taken' = [taken EXCEPT ![s] = @ + 1]
  /\ LET img == <<s, taken'[s]>>
         old == seen[peer[s]] IN
       /\ past' = [past EXCEPT ![s] = IF old = None THEN img ELSE old]
       /\ seen' = [seen EXCEPT ![peer[s]] = IF old = None THEN img ELSE old]
  /\ UNCHANGED <<server, pool, info, streams>>

\* The table is read and written under one lock.  What follows up to infer()
\* cannot fail: undecodable images and unknown goals have replacements.
Take(s) ==
  /\ phase[s] = "reading" /\ Waiting(s)
  /\ Moved(s, "inferring")
  /\ taken' = [taken EXCEPT ![s] = @ + 1]
  /\ LET img == <<s, taken'[s]>>
         old == seen[peer[s]] IN
       /\ past' = [past EXCEPT ![s] = IF old = None THEN img ELSE old]
       /\ seen' = [seen EXCEPT ![peer[s]] = img]
  /\ UNCHANGED <<server, pool, info, streams>>

\* The reply of a call that is gone has nowhere to go and ends the handler.
Yield(s) ==
  /\ phase[s] = "inferring"
  /\ Moved(s, IF client[s] = "gone" THEN "ended" ELSE "reading")
  /\ past' = [past EXCEPT ![s] = None]
  /\ UNCHANGED <<server, pool, info, streams, taken, seen>>

\* Status INTERNAL; what else has arrived on the stream is not answered.
InferFails(s) ==
  /\ phase[s] = "inferring"
  /\ Moved(s, "ended")
  /\ past' = [past EXCEPT ![s] = None]
  /\ UNCHANGED <<server, pool, info, streams, taken, seen>>

\* Faulty: the handler of a call that is gone waits for one more request.
RequestsEndOnlyHalfClosed(s) ==
  /\ phase[s] = "reading"
  /\ client[s] = "halfClosed" /\ taken[s] = sent[s]
  /\ Moved(s, "ended")
  /\ UNCHANGED <<server, pool, info, streams, images>>

\* The loop over the requests ends, or is broken off.
RequestsEnd(s) ==
  /\ phase[s] = "reading"
  /\ \/ client[s] = "halfClosed" /\ taken[s] = sent[s]
     \/ client[s] = "gone"
  /\ Moved(s, "ended")
  /\ UNCHANGED <<server, pool, info, streams, images>>

-----------------------------------------------------------------------------
(* stop(), called by the signal handler: no new calls; after the grace     *)
(* period those that are left are cancelled.                               *)

Stop ==
  /\ server = "up"
  /\ server' = "stopping"
  /\ UNCHANGED <<calls, streams, images>>

GraceEnds ==
  /\ server = "stopping"
  /\ server' = "down"
  /\ client' = [s \in Stream |-> IF Live(s) THEN "gone" ELSE client[s]]
  /\ UNCHANGED <<calls, peer, sent, images>>

-----------------------------------------------------------------------------
Handler(s) == Take(s) \/ Yield(s) \/ InferFails(s) \/ RequestsEnd(s)

Next ==
  \/ \E s \in Stream : CallStream(s) \/ Observe(s) \/ Leave(s) \/ Handler(s)
  \/ \E i \in InfoCall : CallInfo(i)
  \/ Dispatch \/ Stop \/ GraceEnds

Spec == Init /\ [][Next]_vars

\* Handlers run while they have something to do, an inference comes to an end,
\* a free worker takes a call, the grace period passes.  Nothing is asked of
\* the clients or the operator.
FairSpec ==
  /\ Spec /\ WF_vars(Dispatch) /\ WF_vars(GraceEnds)
  /\ \A s \in Stream : WF_vars(Handler(s))

-----------------------------------------------------------------------------
\* The past image of an inference came from the same peer, and two inferences
\* in progress share one only if it is the own image of either, for which there
\* was no past: the table is updated as often as it is read.  On a peer with one
\* stream it is the observation before (StreamInfer, _past_image_lock).
PastImageIsPredecessor ==
  \A s \in Stream : phase[s] = "inferring" =>
    /\ peer[past[s][1]] = peer[s]
    /\ \A t \in Stream \ {s} : phase[t] = "inferring" /\ past[t] = past[s]
         => past[s] \in {<<s, taken[s]>>, <<t, taken[t]>>}
    /\ (\A t \in Stream \ {s} : peer[t] # peer[s]) =>
         past[s] = <<s, IF taken[s] = 1 THEN 1 ELSE taken[s] - 1>>

\* A GetModelInfo call is answered if there is a free worker again and again:
\* the calls before it in the queue cannot keep it out (VLAServer.start).
InfoAnsweredByFreeWorker ==
  []<>(Cardinality(Busy) < Workers) =>
    \A i \in InfoCall : info[i] = "queued" ~> info[i] # "queued"

\* After SIGTERM every handler ends, those that were still waiting for a
\* worker too, so that wait_for_termination() returns (stop, server_main).
StopTerminates ==
  server # "up" ~> \A s \in Stream : ~Live(s)
=============================================================================
