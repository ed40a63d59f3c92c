-------------------------- MODULE LearningProperties --------------------------
(***************************************************************************)
(* What a learn list must do (bm_sim/learning.cpp).  upset names the calls *)
(* after which the code is known to break a promise, see README.md.        *)
(***************************************************************************)
EXTENDS Learning

\* Every element of the filter is listed by exactly the buffer it was put
\* in, and the count of a listed buffer is the number of its elements not
\* yet acknowledged: acks by sample, by buffer and resets keep the three
\* structures (filter, old_buffers, unacked_count) in step.
FilterExact ==
    /\ \A n \in filter : /\ n.buffer \in DOMAIN oldBuffers
                         /\ n.pos \in DOMAIN oldBuffers[n.buffer].nodes
                         /\ oldBuffers[n.buffer].nodes[n.pos] = n
    /\ \A b \in DOMAIN oldBuffers :
          /\ oldBuffers[b].count = Cardinality({n \in filter : n.buffer = b})
          /\ oldBuffers[b].count > 0
    /\ \A n1, n2 \in filter : n1.sample = n2.sample => n1 = n2

\* The id in a message, read after the mutex was released, is the one under
\* which its samples are listed, and the buffers go out once each and in
\* order: an ack by position releases the sample that was sent there, and
\* never reaches through a dangling iterator.  Not so when the controller
\* acknowledges a buffer it had acknowledged in part, or one from before a
\* reset, whose id the next buffers use again.
MessageIsItsBuffer ==
    /\ "stale" \notin upset =>
          \A m \in DOMAIN sent : sent[m].epoch = resets /\ sent[m].id \in DOMAIN oldBuffers =>
              LET nodes == oldBuffers[sent[m].id].nodes
              IN  /\ sent[m].count = Len(nodes)
                  /\ sent[m].samples = [i \in DOMAIN nodes |-> nodes[i].sample]
    /\ \A m1, m2 \in DOMAIN sent :
          m1 < m2 /\ sent[m1].epoch = resets /\ sent[m2].epoch = resets => sent[m1].id < sent[m2].id
    /\ undefined => upset \intersect {"mixed", "stale"} # {}

\* A sample in the filter is in one of the buffers or was sent: otherwise it
\* is neither sent nor ever acknowledged, and never learned again.
NothingForgotten ==
    upset \intersect {"cut", "stale"} = {} /\ ~undefined => \A n \in filter :
        \/ n.sample \in Range(buffer)
        \/ n.sample \in Range(bufferTmp)
        \/ \E m \in DOMAIN sent : /\ sent[m].epoch = resets /\ sent[m].id = n.buffer
                                  /\ n.pos \in sent[m].open

\* A packet thread that waits to hand over a full buffer gets to do it, and
\* with a timeout what is learned is sent although the buffer never fills.
LearnedIsSent ==
    /\ \A t \in Ingress : at[t] = "swap" ~> (at[t] # "swap" \/ upset # {})
    /\ \A s \in Sample : s \in Range(buffer) /\ withTimeout
          ~> (s \notin Range(buffer) \/ ~withTimeout \/ upset # {})
=============================================================================
