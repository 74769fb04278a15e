---------------------------- MODULE SimTransport ----------------------------
(***************************************************************************)
(* auction_core/validation/transport.py: topologies, and the simulated      *)
(* broadcast fabric as operators on its queue.  A topology maps each id to  *)
(* the set of its neighbours.  The queue is the sequence of copies in       *)
(* flight, in the order they were sent: the heap's tie-break among copies   *)
(* due at the same tick.  Its users pop every tick, so that all copies due  *)
(* at a tick carry that tick as their delivery time.                        *)
(***************************************************************************)
EXTENDS Integers, FiniteSets, SequencesExt

Copy(ids, payloads) == [at : Nat, dest : ids, payload : payloads]

-----------------------------------------------------------------------------
(* Topologies *)

CompleteTopology(ids) == [i \in ids |-> ids \ {i}]

\* Agents connected in index order.
LineTopology(ids) ==
  [i \in ids |->
     {j \in ids : \A k \in ids : ~ (i < k /\ k < j) /\ ~ (j < k /\ k < i)} \ {i}]

\* random_connected: a path through all of them in any order, and any further
\* links.
RandomConnected(ids) ==
  LET pairs == {e \in SUBSET ids : Cardinality(e) = 2}
      linked(order) == {{order[i], order[i + 1]} : i \in 1..Len(order) - 1}
  IN  {[i \in ids |-> {j \in ids : {i, j} \in edges}] :
         edges \in UNION {{linked(order) \cup more : more \in SUBSET pairs} :
                            order \in SetToSeqs(ids)}}

\* What a breadth-first search from source has reached after d levels.
Ball(topology, source, d) ==
  LET reached[k \in 0..d] ==
        IF k = 0
        THEN {source}
        ELSE reached[k - 1] \cup UNION {topology[i] : i \in reached[k - 1]}
  IN  reached[d]

Covers(topology, d) ==
  \A i \in DOMAIN topology : Ball(topology, i, d) = DOMAIN topology

\* The longest shortest path, but at least 1; only of a connected topology.
Diameter(topology) ==
  CHOOSE d \in 1..Cardinality(DOMAIN topology) :
    Covers(topology, d) /\ (d = 1 \/ ~ Covers(topology, d - 1))

\* suggested_quiescence of harness.py, over links that lose nothing.
SuggestedQuiescence(topology, maxDelay) == Diameter(topology) * (1 + maxDelay) + 1

-----------------------------------------------------------------------------
(* The queue *)

\* The copies at some positions of the queue, in order.
CopiesAt(queue, places) ==
  LET upTo[n \in 0..Len(queue)] ==
        IF n = 0
        THEN <<>>
        ELSE upTo[n - 1] \o (IF n \in places THEN <<queue[n]>> ELSE <<>>)
  IN  upTo[Len(queue)]

\* deliver_due: the copies handed over at tick now, in order, and the rest.
Due(queue, now) == CopiesAt(queue, {i \in DOMAIN queue : queue[i].at <= now})
NotDue(queue, now) == CopiesAt(queue, {i \in DOMAIN queue : queue[i].at > now})

\* When a copy sent now over a link with this delay arrives.
DeliverAt(now, delay) == now + 1 + (IF delay > 0 THEN delay ELSE 0)

\* send_payload: kept are the neighbours whose copy survives, delay theirs.
SendPayload(queue, payload, kept, delay, now) ==
  queue \o SetToSeq({[at |-> DeliverAt(now, delay[d]), dest |-> d,
                      payload |-> payload] : d \in kept})

=============================================================================
