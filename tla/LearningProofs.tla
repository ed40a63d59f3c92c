---------------------------- MODULE LearningProofs ----------------------------
(***************************************************************************)
(* Proofs about Learning for any samples, numbers of threads, settings and *)
(* bounds: acknowledgements in any order and number, threads that wait to  *)
(* swap buffers, and a reset at any step of the transmit thread.           *)
(***************************************************************************)
EXTENDS LearningProperties, FiniteSetTheorems, TLAPS

Message == [epoch : Nat, id : 0..IdSpace - 1, count : Nat, samples : Seq(Sample), open : SUBSET Nat]
Entry == [count : Nat, nodes : Seq(Node)]

LearningTypes ==
    /\ buffer \in Seq(Sample) /\ bufferTmp \in Seq(Sample) /\ bufferId \in 0..IdSpace - 1
    /\ filter \subseteq Node /\ IsFiniteSet(filter)
    /\ DOMAIN oldBuffers \subseteq 0..IdSpace - 1
    /\ oldBuffers \in [DOMAIN oldBuffers -> Entry]
    /\ at \in [Thread -> {"idle", "swap", "writer"}]
    /\ tx \in {"run", "wait", "timed", "header", "send", "sent"}
    /\ sent \in Seq(Message)
    /\ Busy => txMsg.count \in Nat
    /\ tx \in {"send", "sent"} => txMsg.id \in 0..IdSpace - 1
    /\ resets \in Nat /\ undefined \in BOOLEAN

\* An entry lists the elements that were put in its buffer, in their places.
InPlace ==
    \A b \in DOMAIN oldBuffers : \A i \in DOMAIN oldBuffers[b].nodes :
        oldBuffers[b].nodes[i].buffer = b /\ oldBuffers[b].nodes[i].pos = i

\* Once no samples are taken, only threads already waiting to swap count on:
\* buffer_id does not come round.
Swapping == {t \in Thread : at[t] = "swap"}
Counting ==
    bufferId > MaxId =>
        /\ buffer = <<>>
        /\ bufferId + Cardinality(Swapping) <= MaxId + 1 + Cardinality(Thread)

\* The message under way, unless the list was reset since, is of the buffer
\* before the current one; those sent are of earlier ones, in order.
Current(msg) == msg.epoch = resets
AllSent == tx = "sent" /\ Current(txMsg)

Sending ==
    /\ txMsg.epoch \in 0..resets
    /\ bufferTmp # <<>> => bufferId > 0
    /\ Busy /\ Current(txMsg) =>
          /\ bufferTmp # <<>> /\ txMsg.count = Len(bufferTmp)
          /\ tx # "header" => txMsg.id = bufferId - 1
    /\ \A m \in DOMAIN sent :
          /\ sent[m].epoch <= resets /\ sent[m].open \subseteq DOMAIN sent[m].samples
          /\ Current(sent[m]) => /\ sent[m].id < bufferId
                                 /\ bufferTmp # <<>> /\ ~AllSent => sent[m].id < bufferId - 1
    /\ \A m1, m2 \in DOMAIN sent :
          m1 < m2 /\ Current(sent[m1]) /\ Current(sent[m2]) => sent[m1].id < sent[m2].id

\* The entries of the buffers that are collected, full or sent have their
\* contents, as long as no message from before a reset is acknowledged.
Samples(nodes) == [i \in DOMAIN nodes |-> nodes[i].sample]
Contents(b) == Samples(oldBuffers[b].nodes)
Held(b) == Range(oldBuffers[b].nodes) \subseteq filter

Listing ==
    /\ \A b \in DOMAIN oldBuffers : b <= bufferId
    /\ "stale" \notin upset =>
          /\ IF bufferId \in DOMAIN oldBuffers
             THEN Contents(bufferId) = buffer /\ Held(bufferId)
             ELSE buffer = <<>>
          /\ bufferTmp # <<>> /\ bufferId - 1 \in DOMAIN oldBuffers =>
                Contents(bufferId - 1) = bufferTmp /\ (~AllSent => Held(bufferId - 1))
          /\ \A m \in DOMAIN sent : Current(sent[m]) /\ sent[m].id \in DOMAIN oldBuffers =>
                /\ sent[m].count = Len(oldBuffers[sent[m].id].nodes)
                /\ sent[m].samples = Contents(sent[m].id)
                /\ \A i \in sent[m].open : oldBuffers[sent[m].id].nodes[i] \in filter

Dangling == undefined => upset \intersect {"mixed", "stale"} # {}

\* Where an element of the filter is kept until it is acknowledged.
Keeping ==
    upset \intersect {"cut", "stale"} = {} =>
        /\ Busy => Current(txMsg)
        /\ ~undefined => \A n \in filter :
              \/ n.buffer = bufferId
              \/ n.buffer = bufferId - 1 /\ bufferTmp # <<>> /\ tx # "sent"
              \/ \E m \in DOMAIN sent : Current(sent[m]) /\ sent[m].id = n.buffer /\ n.pos \in sent[m].open

LearningInv ==
    /\ LearningTypes /\ InPlace /\ FilterExact /\ Counting
    /\ Sending /\ Listing /\ Dangling /\ Keeping

-----------------------------------------------------------------------------
\* Sequences and the messages that are left after an acknowledgement.
LEMMA AppendFacts ==
    ASSUME NEW S, NEW q \in Seq(S), NEW e \in S
    PROVE  /\ Append(q, e) \in Seq(S) /\ Append(q, e) # <<>>
           /\ Len(Append(q, e)) = Len(q) + 1
           /\ DOMAIN Append(q, e) = DOMAIN q \union {Len(q) + 1}
           /\ Len(q) + 1 \notin DOMAIN q
           /\ \A i \in DOMAIN q : Append(q, e)[i] = q[i]
           /\ Append(q, e)[Len(q) + 1] = e
OBVIOUS

\* An element of a concatenation.
LEMMA ConcatFacts ==
    ASSUME NEW S, NEW q \in Seq(S), NEW r \in Seq(S), NEW j \in 1..Len(q) + Len(r)
    PROVE  (q \o r)[j] = IF j <= Len(q) THEN q[j] ELSE r[j - Len(q)]
OBVIOUS

\* A sequence without its element m.
LEMMA RemoveAtFacts ==
    ASSUME NEW S, NEW q \in Seq(S), NEW m \in DOMAIN q
    PROVE  /\ RemoveAt(q, m) \in Seq(S) /\ Len(RemoveAt(q, m)) = Len(q) - 1
           /\ \A j \in DOMAIN RemoveAt(q, m) :
                 RemoveAt(q, m)[j] = q[IF j < m THEN j ELSE j + 1]
<1> DEFINE before == SubSeq(q, 1, m - 1)  after == SubSeq(q, m + 1, Len(q))
<1>1. m \in 1..Len(q) /\ Len(q) \in Nat
  OBVIOUS
<1>2. before \in Seq(S) /\ Len(before) = m - 1 /\ \A j \in 1..m - 1 : before[j] = q[j]
  BY <1>1
<1>3. /\ after \in Seq(S) /\ Len(after) = Len(q) - m
      /\ \A j \in 1..Len(q) - m : after[j] = q[m + j]
  BY <1>1
<1> HIDE DEF before, after
<1>4. RemoveAt(q, m) = before \o after
  BY DEF RemoveAt, before, after
<1>5. before \o after \in Seq(S) /\ Len(before \o after) = Len(q) - 1
  BY <1>1, <1>2, <1>3
<1>6. ASSUME NEW j \in 1..Len(q) - 1
      PROVE  (before \o after)[j] = q[IF j < m THEN j ELSE j + 1]
  <2>1. CASE j < m
    BY <1>1, <1>2, <1>3, <2>1
  <2>2. CASE ~ j < m
    <3>1. (before \o after)[j] = after[j - Len(before)]
      <4>1. j \in 1..Len(before) + Len(after) /\ ~ j <= Len(before)
        BY <1>1, <1>2, <1>3, <2>2
      <4>2. QED
        BY <1>2, <1>3, <4>1, ConcatFacts
    <3>2. j - (m - 1) \in 1..Len(q) - m /\ m + (j - (m - 1)) = j + 1
      BY <1>1, <2>2
    <3>3. QED
      BY <1>2, <1>3, <2>2, <3>1, <3>2
  <2>3. QED
    BY <2>1, <2>2
<1>7. DOMAIN (before \o after) = 1..Len(q) - 1
  BY <1>1, <1>5
<1>8. QED
  BY <1>4, <1>5, <1>6, <1>7

\* After an acknowledgement of ids of message m, message j is what message
\* From(m, ids, j) was, without those ids.
From(m, ids, j) == IF ids = sent[m].open /\ j >= m THEN j + 1 ELSE j

\* Closed keeps the messages and their order, and only message m gets shorter.
LEMMA ClosedFacts ==
    ASSUME LearningTypes, NEW m \in DOMAIN sent, NEW ids \in SUBSET sent[m].open
    PROVE  LET later == Closed(m, ids) IN
           /\ later \in Seq(Message)
           /\ \A j \in DOMAIN later :
                 LET k == From(m, ids, j) IN
                 /\ k \in DOMAIN sent
                 /\ later[j].epoch = sent[k].epoch /\ later[j].id = sent[k].id
                 /\ later[j].count = sent[k].count /\ later[j].samples = sent[k].samples
                 /\ later[j].open = IF k = m THEN sent[k].open \ ids ELSE sent[k].open
           /\ \A i, j \in DOMAIN later : i < j => From(m, ids, i) < From(m, ids, j)
           /\ \A k \in DOMAIN sent : k # m \/ ids # sent[m].open =>
                 \E j \in DOMAIN later : From(m, ids, j) = k
<1> DEFINE later == Closed(m, ids)
<1>1. /\ sent \in Seq(Message) /\ sent[m] \in Message
      /\ DOMAIN sent = 1..Len(sent) /\ Len(sent) \in Nat /\ m \in 1..Len(sent)
  BY DEF LearningTypes
<1>2. CASE ids = sent[m].open
  <2>1. later = RemoveAt(sent, m)
    BY <1>2 DEF Closed
  <2>2. /\ later \in Seq(Message) /\ Len(later) = Len(sent) - 1
        /\ \A j \in DOMAIN later : later[j] = sent[IF j < m THEN j ELSE j + 1]
    BY <1>1, <2>1, RemoveAtFacts
  <2> HIDE DEF later
  <2>3. DOMAIN later = 1..Len(sent) - 1
    BY <1>1, <2>2
  <2>4. \A j \in DOMAIN later :
          /\ From(m, ids, j) = (IF j < m THEN j ELSE j + 1)
          /\ From(m, ids, j) \in 1..Len(sent) /\ From(m, ids, j) # m
    BY <1>1, <1>2, <2>3 DEF From
  <2>5. ASSUME NEW k \in DOMAIN sent, k # m
        PROVE  \E j \in DOMAIN later : From(m, ids, j) = k
    <3>1. CASE k < m
      BY <1>1, <2>3, <2>4, <3>1
    <3>2. CASE k > m
      <4>1. k - 1 \in DOMAIN later /\ ~ k - 1 < m /\ (k - 1) + 1 = k
        BY <1>1, <2>3, <3>2
      <4>2. QED
        BY <2>4, <4>1
    <3>3. QED
      BY <1>1, <2>5, <3>1, <3>2
  <2>6. \A i, j \in DOMAIN later : i < j => From(m, ids, i) < From(m, ids, j)
    BY <1>1, <2>3, <2>4
  <2>7. QED
    BY <1>1, <1>2, <2>2, <2>4, <2>5, <2>6 DEF later
<1>3. CASE ids # sent[m].open
  <2> DEFINE new == [sent[m] EXCEPT !.open = @ \ ids]
  <2>1. /\ new \in Message /\ new.epoch = sent[m].epoch /\ new.id = sent[m].id
        /\ new.count = sent[m].count /\ new.samples = sent[m].samples
        /\ new.open = sent[m].open \ ids
    BY <1>1 DEF Message
  <2>2. later = [sent EXCEPT ![m] = new]
    BY <1>3 DEF Closed
  <2> HIDE DEF new, later
  <2>3. /\ later \in Seq(Message) /\ DOMAIN later = DOMAIN sent
        /\ \A j \in DOMAIN later : later[j] = IF j = m THEN new ELSE sent[j]
    BY <1>1, <2>1, <2>2
  <2>4. \A j \in DOMAIN later : From(m, ids, j) = j
    BY <1>3 DEF From
  <2>5. QED
    BY <2>1, <2>3, <2>4 DEF later
<1>4. QED
  BY <1>2, <1>3

\* An entry of old_buffers and its parts.
LEMMA EntryFacts ==
    ASSUME LearningTypes, NEW b \in DOMAIN oldBuffers
    PROVE  /\ oldBuffers[b] \in Entry
           /\ oldBuffers[b].count \in Nat /\ oldBuffers[b].nodes \in Seq(Node)
           /\ b \in 0..IdSpace - 1
BY DEF LearningTypes, Entry

-----------------------------------------------------------------------------
\* What the actions do to the buffers: the current one becomes buf, or buf is
\* handed over.
Grows(buf) == buffer' = buf /\ UNCHANGED <<bufferTmp, bufferId>>
Swaps(buf) ==
    /\ bufferTmp = <<>> /\ bufferTmp' = buf
    /\ buffer' = <<>> /\ bufferId' = bufferId + 1
Quiet == tx' = tx \/ (tx \in {"wait", "timed"} /\ tx' = "run")

\* There are finitely many threads.
LEMMA Threads == IsFiniteSet(Thread) /\ Cardinality(Thread) \in Nat
BY LearningAssumption, FS_CardinalityType DEF LearningAssumption, Thread

\* The threads that wait to swap can be counted.
LEMMA SwappingFacts ==
    ASSUME LearningTypes
    PROVE  /\ IsFiniteSet(Swapping) /\ Cardinality(Swapping) \in Nat
           /\ Cardinality(Swapping) <= Cardinality(Thread)
           /\ \A t \in Swapping : /\ Cardinality(Swapping \ {t}) = Cardinality(Swapping) - 1
                                  /\ Cardinality(Swapping) >= 1
<1>1. Swapping \in SUBSET Thread
  BY DEF Swapping
<1>2. /\ IsFiniteSet(Swapping) /\ Cardinality(Swapping) <= Cardinality(Thread)
  BY <1>1, Threads, FS_Subset
<1>3. Cardinality(Swapping) \in Nat
  BY <1>2, FS_CardinalityType
<1>4. ASSUME NEW t \in Swapping
      PROVE  Cardinality(Swapping \ {t}) = Cardinality(Swapping) - 1 /\ Cardinality(Swapping) >= 1
  <2>1. /\ IsFiniteSet(Swapping \ {t})
        /\ Cardinality(Swapping \ {t}) = Cardinality(Swapping) - 1
    BY <1>2, FS_RemoveElement
  <2>2. Cardinality(Swapping \ {t}) \in Nat
    BY <2>1, FS_CardinalityType
  <2>3. QED
    BY <1>3, <2>1, <2>2
<1>5. QED
  BY <1>2, <1>3, <1>4

\* No swap brings buffer_id round to 0.
LEMMA NextId ==
    ASSUME LearningTypes, Counting, bufferId <= MaxId \/ Swapping # {}
    PROVE  (bufferId + 1) % IdSpace = bufferId + 1 /\ bufferId + 1 \in 0..IdSpace - 1
<1> DEFINE n == Cardinality(Thread)  k == Cardinality(Swapping)
<1>1. /\ n \in Nat /\ MaxId \in Nat /\ IdSpace \in Nat /\ MaxId + 1 + n < IdSpace
      /\ bufferId \in Nat /\ k \in Nat /\ (Swapping # {} => k >= 1)
  <2>1. k \in Nat /\ (Swapping # {} => k >= 1)
    BY SwappingFacts
  <2>2. n \in Nat
    BY Threads
  <2>3. MaxId \in Nat /\ IdSpace \in Nat /\ MaxId + 1 + n < IdSpace
    BY LearningAssumption DEF LearningAssumption, Thread
  <2>4. bufferId \in Nat
    BY <2>3 DEF LearningTypes
  <2>5. QED
    BY <2>1, <2>2, <2>3, <2>4
<1>2. bufferId <= MaxId \/ (bufferId + k <= MaxId + 1 + n /\ k >= 1)
  BY <1>1 DEF Counting, LearningTypes
<1> HIDE DEF n, k
<1>3. bufferId + 1 \in 0..IdSpace - 1
  BY <1>1, <1>2
<1>4. QED
  BY <1>1, <1>3

\* process_full_buffer: the buffer is handed over, or the thread waits.
LEMMA ProcessFullMoves ==
    ASSUME LearningTypes, Counting, bufferId <= MaxId,
           NEW t \in Thread, NEW buf, ProcessFull(t, buf)
    PROVE  /\ Grows(buf) \/ Swaps(buf)
           /\ Quiet
           /\ at' = at \/ at' = [at EXCEPT ![t] = "swap"]
<1>1. (bufferId + 1) % IdSpace = bufferId + 1
  BY NextId
<1>2. CASE bufferTmp # <<>>
  BY <1>2 DEF ProcessFull, Grows, Quiet
<1>3. CASE bufferTmp = <<>>
  BY <1>1, <1>3 DEF ProcessFull, Swaps, Quiet, WakeTransmit
<1>4. QED
  BY <1>2, <1>3

\* add_sample.
LEMMA AddMoves ==
    ASSUME LearningTypes, Counting, NEW t \in Ingress, NEW s \in Sample, AddSample(t, s)
    PROVE  /\ Grows(Append(buffer, s)) \/ Swaps(Append(buffer, s))
           /\ Quiet /\ bufferId <= MaxId
           /\ at' = at \/ at' = [at EXCEPT ![t] = "swap"]
           /\ UNCHANGED <<txMsg, sent, resets, upset, undefined>>
<1>1. bufferId <= MaxId /\ UNCHANGED <<txMsg, sent, resets, upset, undefined>> /\ t \in Thread
  BY DEF AddSample, history, Thread
<1>2. buffer = <<>> => Append(buffer, s) = <<s>>
  BY DEF LearningTypes
<1>3. CASE buffer = <<>> /\ maxSamples > 1 /\ buffer' = <<s>> /\ WakeTransmit
             /\ UNCHANGED <<bufferTmp, bufferId, at>>
  BY <1>1, <1>2, <1>3 DEF Grows, Quiet, WakeTransmit
<1>4. CASE ProcessFull(t, Append(buffer, s))
  BY <1>1, <1>4, ProcessFullMoves
<1>5. CASE buffer' = Append(buffer, s) /\ UNCHANGED <<bufferTmp, bufferId, at, tx>>
  BY <1>1, <1>5 DEF Grows, Quiet
<1>6. QED
  BY <1>3, <1>4, <1>5 DEF AddSample

\* The end of the wait in process_full_buffer.
LEMMA WaitMoves ==
    ASSUME LearningTypes, Counting, NEW t \in Thread, SwapAfterWait(t)
    PROVE  /\ \/ Grows(buffer) /\ at' = at
              \/ Swaps(buffer) /\ at' = [at EXCEPT ![t] = "idle"]
           /\ Quiet
           /\ UNCHANGED <<acked, txMsg, sent, resets, undefined>>
           /\ upset' = upset \/ upset' = upset \union {"emptySwap"}
           /\ at[t] = "swap"
<1>1. /\ at[t] = "swap" /\ UNCHANGED <<acked, txMsg, sent, resets, undefined>>
  BY DEF SwapAfterWait
<1>2. (bufferId + 1) % IdSpace = bufferId + 1
  BY <1>1, NextId DEF Swapping
<1>3. CASE bufferTmp # <<>>
  BY <1>1, <1>3 DEF SwapAfterWait, Grows, Quiet, buffers
<1>4. CASE bufferTmp = <<>>
  BY <1>1, <1>2, <1>4 DEF SwapAfterWait, SwapBuffers, Swaps, Quiet, WakeTransmit, NoteEmptySwap
<1>5. QED
  BY <1>3, <1>4

\* set_max_samples; nobody swaps an empty buffer.
LEMMA SetMoves ==
    ASSUME LearningTypes, Counting, NEW t \in Control, NEW m \in MaxSamples, SetMaxSamples(t, m)
    PROVE  /\ Grows(buffer) \/ Swaps(buffer)
           /\ Quiet
           /\ UNCHANGED <<acked, txMsg, sent, resets, upset, undefined>>
           /\ buffer = <<>> => UNCHANGED <<buffers, at>>
           /\ at' = at \/ at' = [at EXCEPT ![t] = "swap"]
<1>1. UNCHANGED <<acked, txMsg, sent, resets, upset, undefined>> /\ t \in Thread
  BY DEF SetMaxSamples, history, Thread
<1>2. CASE buffer # <<>> /\ Len(buffer) >= m
  <2>1. bufferId <= MaxId
    BY <1>2, LearningAssumption DEF Counting, LearningTypes, LearningAssumption
  <2>2. ProcessFull(t, buffer)
    BY <1>2 DEF SetMaxSamples
  <2>3. QED
    BY <1>1, <1>2, <2>1, <2>2, ProcessFullMoves
<1>3. CASE ~(buffer # <<>> /\ Len(buffer) >= m)
  BY <1>1, <1>3 DEF SetMaxSamples, Grows, Quiet, buffers
<1>4. QED
  BY <1>2, <1>3

\* The transmit thread takes the full buffer, or the one being filled.
LEMMA TakeMoves ==
    ASSUME LearningTypes, Counting, TxTake
    PROVE  /\ (Grows(buffer) /\ bufferTmp # <<>>) \/ (Swaps(buffer) /\ buffer # <<>>)
           /\ tx = "run" /\ tx' = "header"
           /\ txMsg' = [epoch |-> resets, count |-> Len(bufferTmp')]
           /\ UNCHANGED <<acked, at, sent, resets, upset, undefined>>
<1>1. CASE bufferTmp # <<>>
  BY <1>1 DEF TxTake, Grows, buffers, thread, history
<1>2. CASE bufferTmp = <<>>
  <2>1. buffer # <<>>
    BY <1>2 DEF TxTake, TimedOut
  <2>2. bufferId <= MaxId
    BY <2>1, LearningAssumption DEF Counting, LearningTypes, LearningAssumption
  <2>3. (bufferId + 1) % IdSpace = bufferId + 1
    BY <2>2, NextId
  <2>4. QED
    BY <1>2, <2>1, <2>3 DEF TxTake, SwapBuffers, Swaps, thread, history
<1>3. QED
  BY <1>1, <1>2

-----------------------------------------------------------------------------
\* What they do to the filter and to the entries.
NewNode(s) == [sample |-> s, buffer |-> bufferId, pos |-> Len(Unacked(bufferId).nodes) + 1]

\* add_sample: the filter and the list of the current buffer get the new node.
LEMMA AddLists ==
    ASSUME LearningTypes, NEW t \in Ingress, NEW s \in Sample, AddSample(t, s)
    PROVE  LET old == Unacked(bufferId) IN
           /\ old.count \in Nat /\ old.nodes \in Seq(Node)
           /\ NewNode(s) \in Node /\ NewNode(s) \notin filter
           /\ NewNode(s).sample = s /\ NewNode(s).buffer = bufferId
           /\ NewNode(s).pos = Len(old.nodes) + 1
           /\ filter' = filter \union {NewNode(s)}
           /\ DOMAIN oldBuffers' = DOMAIN oldBuffers \union {bufferId}
           /\ oldBuffers' \in [DOMAIN oldBuffers' -> Entry]
           /\ oldBuffers'[bufferId].count = old.count + 1
           /\ oldBuffers'[bufferId].nodes = Append(old.nodes, NewNode(s))
           /\ \A b \in DOMAIN oldBuffers : b # bufferId => oldBuffers'[b] = oldBuffers[b]
<1> DEFINE old == Unacked(bufferId)
           entry == [count |-> old.count + 1, nodes |-> Append(old.nodes, NewNode(s))]
<1>1. old.count \in Nat /\ old.nodes \in Seq(Node)
  <2>1. CASE bufferId \in DOMAIN oldBuffers
    BY <2>1, EntryFacts DEF Unacked
  <2>2. CASE bufferId \notin DOMAIN oldBuffers
    <3>1. old = [count |-> 0, nodes |-> <<>>]
      BY <2>2 DEF Unacked
    <3>2. <<>> \in Seq(Node)
      OBVIOUS
    <3>3. QED
      BY <3>1, <3>2
  <2>3. QED
    BY <2>1, <2>2
<1>2. /\ NewNode(s).sample = s /\ NewNode(s).buffer = bufferId
      /\ NewNode(s).pos = Len(old.nodes) + 1
  BY DEF NewNode
<1>3. NewNode(s) \in Node
  <2>1. Len(old.nodes) + 1 \in Nat \ {0}
    BY <1>1
  <2>2. QED
    BY <2>1 DEF NewNode, Node, LearningTypes
<1>4. NewNode(s) \notin filter
  BY <1>2 DEF AddSample
<1>5. filter' = filter \union {NewNode(s)} /\ oldBuffers' = Listed(bufferId, entry)
  BY DEF AddSample, NewNode
<1>6. entry \in Entry /\ entry.count = old.count + 1 /\ entry.nodes = Append(old.nodes, NewNode(s))
  <2> HIDE DEF old
  <2>1. Append(old.nodes, NewNode(s)) \in Seq(Node) /\ old.count + 1 \in Nat
    BY <1>1, <1>3
  <2>2. QED
    BY <2>1 DEF Entry
<1> HIDE DEF entry, old
<1>7. /\ DOMAIN oldBuffers' = DOMAIN oldBuffers \union {bufferId}
      /\ oldBuffers' = [i \in DOMAIN oldBuffers \union {bufferId} |->
                          IF i = bufferId THEN entry ELSE oldBuffers[i]]
  BY <1>5 DEF Listed
<1>8. oldBuffers' \in [DOMAIN oldBuffers' -> Entry]
  BY <1>6, <1>7, EntryFacts
<1>9. oldBuffers'[bufferId] = entry
      /\ \A b \in DOMAIN oldBuffers : b # bufferId => oldBuffers'[b] = oldBuffers[b]
  BY <1>7
<1>10. QED
  BY <1>1, <1>2, <1>3, <1>4, <1>5, <1>6, <1>7, <1>8, <1>9 DEF old

\* An acknowledgement takes some of a buffer's elements out of the filter; the
\* buffer is forgotten when it has none left.
Of(nodes, b) == {n \in nodes : n.buffer = b}

Releases(b, gone) ==
    /\ b \in DOMAIN oldBuffers
    /\ gone \subseteq Of(filter, b)
    /\ filter' = filter \ gone
    /\ DOMAIN oldBuffers' = IF Of(filter, b) \ gone = {} THEN DOMAIN oldBuffers \ {b} ELSE DOMAIN oldBuffers
    /\ oldBuffers' \in [DOMAIN oldBuffers' -> Entry]
    /\ \A c \in DOMAIN oldBuffers' :
          /\ oldBuffers'[c].nodes = oldBuffers[c].nodes
          /\ oldBuffers'[c].count = Cardinality(Of(filter', c))

\* The elements of a listed buffer still in the filter are what its count says.
LEMMA OfFacts ==
    ASSUME LearningTypes, FilterExact, NEW b \in DOMAIN oldBuffers
    PROVE  /\ IsFiniteSet(Of(filter, b)) /\ oldBuffers[b].count = Cardinality(Of(filter, b))
           /\ oldBuffers[b].count > 0 /\ Of(filter, b) \subseteq Range(oldBuffers[b].nodes)
<1>1. Of(filter, b) \in SUBSET filter /\ IsFiniteSet(filter)
  BY DEF Of, LearningTypes
<1>2. IsFiniteSet(Of(filter, b))
  BY <1>1, FS_Subset
<1>3. oldBuffers[b].count = Cardinality(Of(filter, b)) /\ oldBuffers[b].count > 0
  BY DEF FilterExact, Of
<1>4. Of(filter, b) \subseteq Range(oldBuffers[b].nodes)
  BY DEF FilterExact, Of, Range
<1>5. QED
  BY <1>2, <1>3, <1>4

\* The common part: the elements gone are b's, the other entries stay.
LEMMA ReleaseKept ==
    ASSUME LearningTypes, FilterExact, NEW b \in DOMAIN oldBuffers, NEW gone \in SUBSET Of(filter, b),
           filter' = filter \ gone,
           oldBuffers' = IF Of(filter, b) \ gone = {} THEN Unlisted(b)
                         ELSE Listed(b, [oldBuffers[b] EXCEPT !.count = Cardinality(Of(filter, b) \ gone)])
    PROVE  Releases(b, gone)
<1> DEFINE entry == [oldBuffers[b] EXCEPT !.count = Cardinality(Of(filter, b) \ gone)]
<1>1. IsFiniteSet(Of(filter, b))
  BY OfFacts
<1>2. Cardinality(Of(filter, b) \ gone) \in Nat
  <2>1. Of(filter, b) \ gone \in SUBSET Of(filter, b)
    OBVIOUS
  <2>2. QED
    BY <1>1, <2>1, FS_Subset, FS_CardinalityType
<1>3. /\ entry \in Entry /\ entry.nodes = oldBuffers[b].nodes
      /\ entry.count = Cardinality(Of(filter, b) \ gone)
  BY <1>2, EntryFacts DEF Entry
<1> HIDE DEF entry
<1>4. Of(filter', b) = Of(filter, b) \ gone
  BY DEF Of
<1>5. \A c \in DOMAIN oldBuffers \ {b} :
        /\ Of(filter', c) = Of(filter, c)
        /\ oldBuffers[c].count = Cardinality(Of(filter, c)) /\ oldBuffers[c] \in Entry
  <2> SUFFICES ASSUME NEW c \in DOMAIN oldBuffers, c # b
               PROVE  /\ Of(filter', c) = Of(filter, c)
                      /\ oldBuffers[c].count = Cardinality(Of(filter, c)) /\ oldBuffers[c] \in Entry
    OBVIOUS
  <2>1. Of(filter', c) = Of(filter, c)
    BY DEF Of
  <2>2. QED
    BY <2>1, OfFacts, EntryFacts
<1>6. CASE Of(filter, b) \ gone = {}
  <2>1. oldBuffers' = [i \in DOMAIN oldBuffers \ {b} |-> oldBuffers[i]]
    BY <1>6 DEF Unlisted
  <2>2. /\ DOMAIN oldBuffers' = DOMAIN oldBuffers \ {b}
        /\ \A c \in DOMAIN oldBuffers' : oldBuffers'[c] = oldBuffers[c]
        /\ oldBuffers' \in [DOMAIN oldBuffers' -> Entry]
    BY <1>5, <2>1
  <2>3. QED
    BY <1>5, <1>6, <2>2 DEF Releases
<1>7. CASE Of(filter, b) \ gone # {}
  <2>1. oldBuffers' = [i \in DOMAIN oldBuffers \union {b} |-> IF i = b THEN entry ELSE oldBuffers[i]]
    BY <1>7 DEF Listed, entry
  <2>2. /\ DOMAIN oldBuffers' = DOMAIN oldBuffers
        /\ oldBuffers'[b] = entry
        /\ \A c \in DOMAIN oldBuffers' : c # b => oldBuffers'[c] = oldBuffers[c]
        /\ oldBuffers' \in [DOMAIN oldBuffers' -> Entry]
    BY <1>3, <1>5, <2>1
  <2>3. QED
    BY <1>3, <1>4, <1>5, <1>7, <2>2 DEF Releases
<1>8. QED
  BY <1>6, <1>7

\* ack(buffer_id, sample_ids): nothing, undefined behaviour, or a release.
LEMMA AckReleases ==
    ASSUME LearningTypes, InPlace, FilterExact, NEW m \in DOMAIN sent, NEW ids, Ack(m, ids)
    PROVE  LET b == sent[m].id
               nodes == oldBuffers[b].nodes
               good == ids \subseteq DOMAIN nodes /\ \A i \in ids : nodes[i] \in filter
           IN  \/ b \notin DOMAIN oldBuffers /\ UNCHANGED <<acked, undefined>>
               \/ b \in DOMAIN oldBuffers /\ ~good /\ UNCHANGED acked /\ undefined' = TRUE
               \/ good /\ Releases(b, {nodes[i] : i \in ids}) /\ UNCHANGED undefined
<1> DEFINE b == sent[m].id
           nodes == oldBuffers[b].nodes
           gone == {nodes[i] : i \in ids}
           good == ids \subseteq DOMAIN nodes /\ \A i \in ids : nodes[i] \in filter
<1>1. good <=> ids \subseteq DOMAIN nodes /\ gone \subseteq filter
  OBVIOUS
<1>2. CASE b \notin DOMAIN oldBuffers
  BY <1>2 DEF Ack
<1>3. CASE b \in DOMAIN oldBuffers /\ ~good
  BY <1>1, <1>3 DEF Ack
<1>4. CASE b \in DOMAIN oldBuffers /\ good
  <2>1. /\ filter' = filter \ gone /\ oldBuffers' = Released(b, Cardinality(ids)) /\ UNCHANGED undefined
    BY <1>1, <1>4 DEF Ack
  <2>2. \A i \in ids : nodes[i].pos = i /\ nodes[i].buffer = b
    BY <1>4 DEF InPlace
  <2>3. gone \in SUBSET Of(filter, b)
    BY <1>4, <2>2 DEF Of
  <2>4. IsFiniteSet(Of(filter, b)) /\ oldBuffers[b].count = Cardinality(Of(filter, b))
    BY <1>4, OfFacts
  <2>5. IsFiniteSet(gone) /\ Cardinality(ids) = Cardinality(gone) /\ IsFiniteSet(ids)
    <3>1. IsFiniteSet(gone)
      BY <2>3, <2>4, FS_Subset
    <3> DEFINE f == [n \in gone |-> n.pos]
    <3>2. f \in Bijection(gone, ids)
      <4>1. \A n \in gone : n.pos \in ids /\ nodes[n.pos] = n
        BY <2>2
      <4>2. \A i \in ids : nodes[i] \in gone /\ nodes[i].pos = i
        BY <2>2
      <4> HIDE DEF gone, nodes
      <4>3. f \in [gone -> ids]
        BY <4>1
      <4>4. \A x, y \in gone : f[x] = f[y] => x = y
        BY <4>1
      <4>5. \A i \in ids : \E n \in gone : f[n] = i
        BY <4>2
      <4>6. QED
        BY <4>3, <4>4, <4>5 DEF Bijection, Injection, Surjection, IsInjective
    <3>3. ExistsBijection(gone, ids)
      BY <3>2 DEF ExistsBijection
    <3>4. QED
      BY <3>1, <3>3, FS_Bijection
  <2>6. Cardinality(Of(filter, b) \ gone) = Cardinality(Of(filter, b)) - Cardinality(gone)
        /\ IsFiniteSet(Of(filter, b) \ gone)
        /\ (Of(filter, b) \ gone = {} <=> Cardinality(Of(filter, b) \ gone) = 0)
    <3>1. IsFiniteSet(Of(filter, b) \ gone)
      <4>1. Of(filter, b) \ gone \in SUBSET Of(filter, b)
        OBVIOUS
      <4>2. QED
        BY <2>4, <4>1, FS_Subset
    <3>2. Of(filter, b) \intersect gone = gone
      BY <2>3
    <3>3. Cardinality(Of(filter, b) \ gone) = Cardinality(Of(filter, b)) - Cardinality(gone)
      <4> DEFINE S == Of(filter, b)
      <4>1. IsFiniteSet(S) /\ S \cap gone = gone
        BY <2>4, <3>2
      <4> HIDE DEF S, gone
      <4>2. Cardinality(S \ gone) = Cardinality(S) - Cardinality(S \cap gone)
        BY <4>1, FS_Difference
      <4>3. QED
        BY <4>1, <4>2 DEF S
    <3>4. QED
      BY <3>1, <3>3, FS_EmptySet
  <2>7. oldBuffers' = IF Of(filter, b) \ gone = {} THEN Unlisted(b)
                      ELSE Listed(b, [oldBuffers[b] EXCEPT !.count = Cardinality(Of(filter, b) \ gone)])
    <3>1. /\ Cardinality(Of(filter, b)) \in Nat /\ Cardinality(gone) \in Nat
      BY <2>4, <2>5, FS_CardinalityType
    <3>2. oldBuffers[b].count - Cardinality(ids) = Cardinality(Of(filter, b) \ gone)
      BY <2>4, <2>5, <2>6
    <3>3. oldBuffers[b].count = Cardinality(ids) <=> Of(filter, b) \ gone = {}
      BY <2>4, <2>5, <2>6, <3>1
    <3>4. [oldBuffers[b] EXCEPT !.count = @ - Cardinality(ids)]
            = [oldBuffers[b] EXCEPT !.count = Cardinality(Of(filter, b) \ gone)]
      BY <3>2
    <3> HIDE DEF gone, b, nodes
    <3>5. QED
      BY <2>1, <3>3, <3>4 DEF Released
  <2> HIDE DEF gone
  <2>8. Releases(b, gone)
    BY <1>4, <2>1, <2>3, <2>7, ReleaseKept
  <2>9. QED
    BY <1>4, <2>1, <2>8 DEF gone
<1>5. QED
  BY <1>2, <1>3, <1>4

\* ack_buffer: the same, and the shortcut that clears the whole filter clears
\* only the elements of this buffer.
LEMMA AckBufferReleases ==
    ASSUME LearningTypes, InPlace, FilterExact, NEW m \in DOMAIN sent, AckBuffer(m)
    PROVE  LET b == sent[m].id
               nodes == oldBuffers[b].nodes
           IN  \/ b \notin DOMAIN oldBuffers /\ UNCHANGED <<acked, undefined>>
               \/ /\ b \in DOMAIN oldBuffers /\ ~ Range(nodes) \subseteq filter
                  /\ UNCHANGED acked /\ undefined' = TRUE
               \/ Releases(b, Of(filter, b)) /\ UNCHANGED undefined
<1> DEFINE b == sent[m].id
           nodes == oldBuffers[b].nodes
<1>1. Range(nodes) = {nodes[i] : i \in DOMAIN nodes}
  BY DEF Range
<1>2. CASE b \notin DOMAIN oldBuffers
  BY <1>2 DEF AckBuffer
<1>3. CASE b \in DOMAIN oldBuffers /\ oldBuffers[b].count # Cardinality(filter) /\ ~ Range(nodes) \subseteq filter
  BY <1>1, <1>3 DEF AckBuffer
<1>4. ASSUME b \in DOMAIN oldBuffers, oldBuffers' = Unlisted(b), filter' = filter \ Of(filter, b)
      PROVE  Releases(b, Of(filter, b))
  <2>1. Of(filter, b) \ Of(filter, b) = {}
    OBVIOUS
  <2>2. oldBuffers' = IF Of(filter, b) \ Of(filter, b) = {} THEN Unlisted(b)
          ELSE Listed(b, [oldBuffers[b] EXCEPT !.count = Cardinality(Of(filter, b) \ Of(filter, b))])
    BY <1>4, <2>1
  <2>3. QED
    BY <1>4, <2>2, ReleaseKept
<1>5. CASE b \in DOMAIN oldBuffers /\ oldBuffers[b].count = Cardinality(filter)
  <2>1. IsFiniteSet(filter) /\ Of(filter, b) \in SUBSET filter
    BY DEF LearningTypes, Of
  <2>2. Cardinality(filter) = Cardinality(Of(filter, b))
    BY <1>5, OfFacts
  <2>3. filter = Of(filter, b)
    BY <2>1, <2>2, FS_Subset
  <2>4. filter' = {} /\ oldBuffers' = Unlisted(b) /\ UNCHANGED undefined
    BY <1>5 DEF AckBuffer
  <2>5. filter' = filter \ Of(filter, b)
    BY <2>3, <2>4
  <2>6. QED
    BY <1>4, <1>5, <2>4, <2>5
<1>6. CASE b \in DOMAIN oldBuffers /\ oldBuffers[b].count # Cardinality(filter) /\ Range(nodes) \subseteq filter
  <2>1. filter' = filter \ Range(nodes) /\ oldBuffers' = Unlisted(b) /\ UNCHANGED undefined
    BY <1>1, <1>6 DEF AckBuffer
  <2>2. Range(nodes) = Of(filter, b)
    <3>1. Of(filter, b) \subseteq Range(nodes)
      BY <1>6, OfFacts
    <3>2. \A n \in Range(nodes) : n.buffer = b
      BY <1>6 DEF InPlace, Range
    <3>3. QED
      BY <1>6, <3>1, <3>2 DEF Of
  <2>3. QED
    BY <1>4, <1>6, <2>1, <2>2
<1>7. QED
  BY <1>2, <1>3, <1>5, <1>6

-----------------------------------------------------------------------------
\* buffer_id counts modulo its width.
LEMMA Modulo ==
    ASSUME NEW n \in Nat, n > 1, NEW b \in 0..n - 1
    PROVE  /\ (b + 1) % n \in 0..n - 1
           /\ (b + n - 1) % n \in 0..n - 1
           /\ b > 0 => (b + n - 1) % n = b - 1
<1>1. (b + 1) % n \in 0..n - 1
  OBVIOUS
<1>2. (b + n - 1) % n \in 0..n - 1
  OBVIOUS
<1>3. b > 0 => (b + n - 1) % n = b - 1
  OBVIOUS
<1>4. QED
  BY <1>1, <1>2, <1>3

\* The ids a buffer can have.
LEMMA Ids ==
    /\ MaxId \in Nat /\ IdSpace \in Nat /\ IdSpace > 1 /\ 0 \in 0..IdSpace - 1
    /\ \A b \in 0..IdSpace - 1 : /\ (b + 1) % IdSpace \in 0..IdSpace - 1
                                 /\ (b + IdSpace - 1) % IdSpace \in 0..IdSpace - 1
                                 /\ b > 0 => (b + IdSpace - 1) % IdSpace = b - 1
<1>1. MaxId \in Nat /\ IdSpace \in Nat /\ IdSpace > 1
  <2> DEFINE n == Cardinality(Thread)
  <2>1. n \in Nat
    BY Threads
  <2>2. MaxId \in Nat /\ IdSpace \in Nat /\ MaxId + 1 + n < IdSpace
    BY LearningAssumption DEF LearningAssumption, Thread
  <2> HIDE DEF n
  <2>3. QED
    BY <2>1, <2>2
<1>2. ASSUME NEW b \in 0..IdSpace - 1
      PROVE  /\ (b + 1) % IdSpace \in 0..IdSpace - 1
             /\ (b + IdSpace - 1) % IdSpace \in 0..IdSpace - 1
             /\ b > 0 => (b + IdSpace - 1) % IdSpace = b - 1
  BY <1>1, Modulo
<1>3. 0 \in 0..IdSpace - 1
  BY <1>1
<1>4. QED
  BY <1>1, <1>2, <1>3

\* Filter and entries keep their types.
LEMMA ReleaseTypes ==
    ASSUME LearningTypes, NEW b, NEW gone, Releases(b, gone)
    PROVE  /\ filter' \subseteq Node /\ IsFiniteSet(filter')
           /\ DOMAIN oldBuffers' \subseteq 0..IdSpace - 1
           /\ oldBuffers' \in [DOMAIN oldBuffers' -> Entry]
<1>1. filter' \in SUBSET filter /\ DOMAIN oldBuffers' \subseteq DOMAIN oldBuffers
  BY DEF Releases
<1>2. IsFiniteSet(filter')
  BY <1>1, FS_Subset DEF LearningTypes
<1>3. QED
  BY <1>1, <1>2 DEF LearningTypes, Releases

\* The rest of the types after a message is sent or acknowledged.
LEMMA AckTypes ==
    ASSUME LearningTypes, InPlace, FilterExact, NEW m \in DOMAIN sent, NEW ids,
           ids \subseteq sent[m].open, sent' = Closed(m, ids),
           UNCHANGED <<buffers, at, tx, txMsg, resets>>,
           undefined' \in BOOLEAN,
           UNCHANGED acked \/ \E b, gone : Releases(b, gone)
    PROVE  LearningTypes'
<1>1. sent' \in Seq(Message)
  BY ClosedFacts
<1>2. /\ filter' \subseteq Node /\ IsFiniteSet(filter')
      /\ DOMAIN oldBuffers' \subseteq 0..IdSpace - 1
      /\ oldBuffers' \in [DOMAIN oldBuffers' -> Entry]
  <2>1. CASE UNCHANGED acked
    BY <2>1 DEF acked, LearningTypes
  <2>2. CASE \E b, gone : Releases(b, gone)
    BY <2>2, ReleaseTypes
  <2>3. QED
    BY <2>1, <2>2
<1>3. QED
  BY <1>1, <1>2 DEF LearningTypes, buffers, Busy

\* The buffers keep their types.
LEMMA MoveTypes ==
    ASSUME LearningTypes, NEW buf \in Seq(Sample), Grows(buf) \/ Swaps(buf),
           bufferId + 1 \in 0..IdSpace - 1 \/ Grows(buf)
    PROVE  buffer' \in Seq(Sample) /\ bufferTmp' \in Seq(Sample) /\ bufferId' \in 0..IdSpace - 1
<1>1. <<>> \in Seq(Sample)
  OBVIOUS
<1>2. CASE Grows(buf)
  BY <1>2 DEF Grows, LearningTypes
<1>3. CASE Swaps(buf) /\ bufferId + 1 \in 0..IdSpace - 1
  BY <1>1, <1>3 DEF Swaps
<1>4. QED
  BY <1>2, <1>3

\* Every step keeps the types.
LEMMA NextTypes ==
    ASSUME LearningTypes, InPlace, FilterExact, Counting, Sending, [Next]_vars
    PROVE  LearningTypes'
<1>1. ASSUME NEW t \in Ingress, NEW s \in Sample, AddSample(t, s) PROVE LearningTypes'
  <2>1. /\ Grows(Append(buffer, s)) \/ Swaps(Append(buffer, s))
        /\ Quiet /\ bufferId <= MaxId /\ at' \in {at, [at EXCEPT ![t] = "swap"]}
        /\ UNCHANGED <<txMsg, sent, resets, undefined>>
    BY <1>1, AddMoves
  <2>2. Append(buffer, s) \in Seq(Sample) /\ bufferId + 1 \in 0..IdSpace - 1
    BY <2>1, NextId DEF LearningTypes
  <2>3. buffer' \in Seq(Sample) /\ bufferTmp' \in Seq(Sample) /\ bufferId' \in 0..IdSpace - 1
    BY <2>1, <2>2, MoveTypes
  <2>4. /\ filter' = filter \union {NewNode(s)} /\ NewNode(s) \in Node
        /\ DOMAIN oldBuffers' = DOMAIN oldBuffers \union {bufferId}
        /\ oldBuffers' \in [DOMAIN oldBuffers' -> Entry]
    BY <1>1, AddLists
  <2>5. filter' \subseteq Node /\ IsFiniteSet(filter')
    BY <2>4, FS_AddElement DEF LearningTypes
  <2>6. at' \in [Thread -> {"idle", "swap", "writer"}]
    BY <2>1 DEF LearningTypes
  <2>7. /\ tx' \in {"run", "wait", "timed", "header", "send", "sent"}
        /\ tx' # tx => ~Busy' /\ tx' \notin {"send", "sent"}
    BY <2>1 DEF LearningTypes, Quiet, Busy
  <2>8. QED
    BY <2>1, <2>3, <2>4, <2>5, <2>6, <2>7 DEF LearningTypes, Busy
<1>2. ASSUME NEW t \in Thread, SwapAfterWait(t) PROVE LearningTypes'
  <2>1. /\ Grows(buffer) \/ Swaps(buffer)
        /\ Quiet /\ at' \in {at, [at EXCEPT ![t] = "idle"]} /\ at[t] = "swap"
        /\ UNCHANGED <<acked, txMsg, sent, resets, undefined>>
    BY <1>2, WaitMoves
  <2>2. bufferId + 1 \in 0..IdSpace - 1
    BY <2>1, NextId DEF Swapping
  <2>3. buffer' \in Seq(Sample) /\ bufferTmp' \in Seq(Sample) /\ bufferId' \in 0..IdSpace - 1
    BY <2>1, <2>2, MoveTypes DEF LearningTypes
  <2>4. at' \in [Thread -> {"idle", "swap", "writer"}]
    BY <2>1 DEF LearningTypes
  <2>5. /\ tx' \in {"run", "wait", "timed", "header", "send", "sent"}
        /\ tx' # tx => ~Busy' /\ tx' \notin {"send", "sent"}
    BY <2>1 DEF LearningTypes, Quiet, Busy
  <2>6. QED
    BY <2>1, <2>3, <2>4, <2>5 DEF LearningTypes, Busy, acked
<1>3. ASSUME NEW t \in Control, NEW m \in MaxSamples, SetMaxSamples(t, m) PROVE LearningTypes'
  <2>1. /\ Grows(buffer) \/ Swaps(buffer)
        /\ Quiet /\ at' \in {at, [at EXCEPT ![t] = "swap"]}
        /\ UNCHANGED <<acked, txMsg, sent, resets, undefined>>
        /\ buffer = <<>> => UNCHANGED buffers
    BY <1>3, SetMoves
  <2>2. buffer # <<>> => bufferId + 1 \in 0..IdSpace - 1
    <3>1. buffer # <<>> => bufferId <= MaxId
      BY Ids DEF Counting, LearningTypes
    <3>2. QED
      BY <3>1, NextId
  <2>3. buffer' \in Seq(Sample) /\ bufferTmp' \in Seq(Sample) /\ bufferId' \in 0..IdSpace - 1
    <3>1. CASE buffer # <<>>
      BY <2>1, <2>2, <3>1, MoveTypes DEF LearningTypes
    <3>2. CASE buffer = <<>>
      BY <2>1, <3>2 DEF buffers, LearningTypes
    <3>3. QED
      BY <3>1, <3>2
  <2>4. at' \in [Thread -> {"idle", "swap", "writer"}]
    BY <2>1 DEF LearningTypes, Thread
  <2>5. /\ tx' \in {"run", "wait", "timed", "header", "send", "sent"}
        /\ tx' # tx => ~Busy' /\ tx' \notin {"send", "sent"}
    BY <2>1 DEF LearningTypes, Quiet, Busy
  <2>6. QED
    BY <2>1, <2>3, <2>4, <2>5 DEF LearningTypes, Busy, acked
<1>4. CASE TxTake
  <2>1. /\ (Grows(buffer) /\ bufferTmp # <<>>) \/ (Swaps(buffer) /\ buffer # <<>>)
        /\ tx' = "header" /\ txMsg' = [epoch |-> resets, count |-> Len(bufferTmp')]
        /\ UNCHANGED <<acked, at, sent, resets, undefined>>
    BY <1>4, TakeMoves
  <2>2. buffer # <<>> => bufferId + 1 \in 0..IdSpace - 1
    <3>1. buffer # <<>> => bufferId <= MaxId
      BY Ids DEF Counting, LearningTypes
    <3>2. QED
      BY <3>1, NextId
  <2>3. buffer' \in Seq(Sample) /\ bufferTmp' \in Seq(Sample) /\ bufferId' \in 0..IdSpace - 1
    BY <2>1, <2>2, MoveTypes DEF LearningTypes
  <2>4. txMsg'.count \in Nat
    BY <2>1, <2>3
  <2>5. QED
    BY <2>1, <2>3, <2>4 DEF LearningTypes, Busy, acked
<1>5. CASE TxHeader
  <2>1. HeaderId \in 0..IdSpace - 1
    BY Ids DEF HeaderId, LearningTypes
  <2>2. txMsg'.count = txMsg.count /\ txMsg'.id = HeaderId
    BY <1>5 DEF TxHeader
  <2>3. tx = "header" /\ tx' = "send" /\ UNCHANGED <<buffers, acked, thread, sent, history, undefined>>
    BY <1>5 DEF TxHeader
  <2>4. QED
    BY <2>1, <2>2, <2>3 DEF LearningTypes, Busy, buffers, acked, thread, history
<1>6. CASE TxSend
  <2> DEFINE msg == [epoch |-> txMsg.epoch, id |-> txMsg.id, count |-> txMsg.count,
                     samples |-> bufferTmp, open |-> DOMAIN bufferTmp]
  <2>1. tx = "send" /\ tx' = "sent" /\ sent' = Append(sent, msg)
        /\ UNCHANGED <<buffers, acked, thread, txMsg, history, undefined>>
    BY <1>6 DEF TxSend
  <2>2. /\ txMsg.epoch \in Nat /\ txMsg.id \in 0..IdSpace - 1 /\ txMsg.count \in Nat
        /\ bufferTmp \in Seq(Sample)
    BY <2>1 DEF LearningTypes, Busy, Sending
  <2>3. DOMAIN bufferTmp \subseteq Nat
    BY <2>2
  <2>4. msg \in Message
    BY <2>2, <2>3 DEF Message
  <2> HIDE DEF msg
  <2>5. sent' \in Seq(Message)
    BY <2>1, <2>4 DEF LearningTypes
  <2>6. QED
    BY <2>1, <2>5 DEF LearningTypes, Busy, buffers, acked, thread, history
<1>7. CASE TxDone
  <2>1. <<>> \in Seq(Sample)
    OBVIOUS
  <2>2. /\ tx' = "run" /\ bufferTmp' = <<>>
        /\ UNCHANGED <<buffer, bufferId, acked, at, sent, history, undefined>>
    BY <1>7 DEF TxDone
  <2>3. QED
    BY <2>1, <2>2 DEF LearningTypes, Busy, acked, history
<1>8. CASE TxSleep \/ TimerFires \/ DeadlinePasses
  BY <1>8 DEF TxSleep, TimerFires, DeadlinePasses, LearningTypes, Busy, buffers, acked, thread, history
<1>9. ASSUME NEW t \in Control, SetTimeout(t) PROVE LearningTypes'
  BY <1>9 DEF SetTimeout, LearningTypes, Busy, buffers, acked, thread
<1>10. ASSUME NEW t \in Control, SetLearnWriter(t) PROVE LearningTypes'
  <2>1. at' \in [Thread -> {"idle", "swap", "writer"}]
    BY <1>10 DEF SetLearnWriter, LearningTypes
  <2>2. QED
    BY <1>10, <2>1 DEF SetLearnWriter, LearningTypes, Busy, buffers, acked, history
<1>11. ASSUME NEW t \in Control, ResetState(t) PROVE LearningTypes'
  <2>1. <<>> \in Seq(Sample) /\ DOMAIN <<>> = {} /\ <<>> \in [{} -> Entry]
    OBVIOUS
  <2>2. /\ buffer' = <<>> /\ bufferTmp' = <<>> /\ bufferId' = 0
        /\ filter' = {} /\ oldBuffers' = <<>> /\ resets' = resets + 1
        /\ UNCHANGED <<thread, tx, txMsg, sent, undefined>>
    BY <1>11 DEF ResetState
  <2>3. /\ DOMAIN oldBuffers' \subseteq 0..IdSpace - 1
        /\ oldBuffers' \in [DOMAIN oldBuffers' -> Entry]
    BY <2>1, <2>2
  <2>4. QED
    BY <2>1, <2>2, <2>3, Ids, FS_EmptySet DEF LearningTypes, Busy, thread
<1>12. ASSUME NEW m \in DOMAIN sent, AckBuffer(m) PROVE LearningTypes'
  <2>1. /\ sent' = Closed(m, sent[m].open) /\ UNCHANGED <<buffers, at, tx, txMsg, resets>>
    BY <1>12 DEF AckBuffer, thread
  <2>2. /\ undefined' \in BOOLEAN
        /\ UNCHANGED acked \/ \E b, gone : Releases(b, gone)
    BY <1>12, AckBufferReleases DEF LearningTypes
  <2>3. QED
    BY <2>1, <2>2, AckTypes
<1>13. ASSUME NEW m \in DOMAIN sent, NEW ids \in SUBSET sent[m].open, Ack(m, ids) PROVE LearningTypes'
  <2>1. /\ sent' = Closed(m, ids) /\ UNCHANGED <<buffers, at, tx, txMsg, resets>>
    BY <1>13 DEF Ack, thread
  <2>2. /\ undefined' \in BOOLEAN
        /\ UNCHANGED acked \/ \E b, gone : Releases(b, gone)
    BY <1>13, AckReleases DEF LearningTypes
  <2>3. QED
    BY <2>1, <2>2, AckTypes
<1>14. CASE UNCHANGED vars
  BY <1>14 DEF vars, LearningTypes, Busy, buffers, acked, thread, history
<1>15. QED
  BY <1>1, <1>2, <1>3, <1>4, <1>5, <1>6, <1>7, <1>8, <1>9, <1>10, <1>11, <1>12, <1>13, <1>14
     DEF Next, Transmit

-----------------------------------------------------------------------------
\* Filter, entries and counts stay in step when samples are added ...
LEMMA AddExact ==
    ASSUME LearningTypes, InPlace, FilterExact, NEW t \in Ingress, NEW s \in Sample, AddSample(t, s)
    PROVE  InPlace' /\ FilterExact'
<1> DEFINE old == Unacked(bufferId)
           node == NewNode(s)
<1>1. /\ old.count \in Nat /\ old.nodes \in Seq(Node)
      /\ node \in Node /\ node \notin filter
      /\ node.sample = s /\ node.buffer = bufferId /\ node.pos = Len(old.nodes) + 1
      /\ filter' = filter \union {node}
      /\ DOMAIN oldBuffers' = DOMAIN oldBuffers \union {bufferId}
      /\ oldBuffers'[bufferId].count = old.count + 1
      /\ oldBuffers'[bufferId].nodes = Append(old.nodes, node)
      /\ \A b \in DOMAIN oldBuffers : b # bufferId => oldBuffers'[b] = oldBuffers[b]
  BY AddLists
<1>2. \A n \in filter : n.sample # s
  BY DEF AddSample
<1>3. /\ bufferId \in DOMAIN oldBuffers => old = oldBuffers[bufferId]
      /\ bufferId \notin DOMAIN oldBuffers => old.count = 0 /\ old.nodes = <<>>
  BY DEF Unacked
<1>4. /\ \A i \in DOMAIN old.nodes : old.nodes[i].buffer = bufferId /\ old.nodes[i].pos = i
      /\ old.count = Cardinality(Of(filter, bufferId)) /\ IsFiniteSet(Of(filter, bufferId))
      /\ \A n \in Of(filter, bufferId) : n.pos \in DOMAIN old.nodes /\ old.nodes[n.pos] = n
  <2>1. CASE bufferId \in DOMAIN oldBuffers
    <3>1. \A i \in DOMAIN old.nodes : old.nodes[i].buffer = bufferId /\ old.nodes[i].pos = i
      BY <1>3, <2>1 DEF InPlace
    <3>2. old.count = Cardinality(Of(filter, bufferId)) /\ IsFiniteSet(Of(filter, bufferId))
      BY <1>3, <2>1, OfFacts
    <3>3. \A n \in Of(filter, bufferId) : n.pos \in DOMAIN old.nodes /\ old.nodes[n.pos] = n
      BY <1>3, <2>1 DEF FilterExact, Of
    <3>4. QED
      BY <3>1, <3>2, <3>3
  <2>2. CASE bufferId \notin DOMAIN oldBuffers
    <3>1. Of(filter, bufferId) = {}
      BY <2>2 DEF FilterExact, Of
    <3>2. QED
      BY <1>3, <2>2, <3>1, FS_EmptySet
  <2>3. QED
    BY <2>1, <2>2
<1> HIDE DEF old, node
<1>5. /\ DOMAIN Append(old.nodes, node) = DOMAIN old.nodes \union {Len(old.nodes) + 1}
      /\ Len(old.nodes) + 1 \notin DOMAIN old.nodes
      /\ \A i \in DOMAIN old.nodes : Append(old.nodes, node)[i] = old.nodes[i]
      /\ Append(old.nodes, node)[Len(old.nodes) + 1] = node
  <2> DEFINE q == old.nodes
  <2>1. q \in Seq(Node)
    BY <1>1
  <2> HIDE DEF q
  <2>2. /\ DOMAIN Append(q, node) = DOMAIN q \union {Len(q) + 1}
        /\ Len(q) + 1 \notin DOMAIN q
        /\ \A i \in DOMAIN q : Append(q, node)[i] = q[i]
        /\ Append(q, node)[Len(q) + 1] = node
    BY <1>1, <2>1, AppendFacts
  <2>3. QED
    BY <2>2 DEF q
<1>6. InPlace'
  <2> SUFFICES ASSUME NEW b \in DOMAIN oldBuffers', NEW i \in DOMAIN oldBuffers'[b].nodes
               PROVE  oldBuffers'[b].nodes[i].buffer = b /\ oldBuffers'[b].nodes[i].pos = i
    BY DEF InPlace
  <2>1. CASE b = bufferId
    <3>1. oldBuffers'[b].nodes = Append(old.nodes, node)
      BY <1>1, <2>1
    <3>2. i \in DOMAIN old.nodes \/ i = Len(old.nodes) + 1
      BY <1>5, <3>1
    <3>3. CASE i \in DOMAIN old.nodes
      BY <1>4, <1>5, <2>1, <3>1, <3>3
    <3>4. CASE i = Len(old.nodes) + 1
      BY <1>1, <1>5, <2>1, <3>1, <3>4
    <3>5. QED
      BY <3>2, <3>3, <3>4
  <2>2. CASE b # bufferId
    BY <1>1, <2>2 DEF InPlace
  <2>3. QED
    BY <2>1, <2>2
<1>7. ASSUME NEW n \in filter'
      PROVE  /\ n.buffer \in DOMAIN oldBuffers'
             /\ n.pos \in DOMAIN oldBuffers'[n.buffer].nodes
             /\ oldBuffers'[n.buffer].nodes[n.pos] = n
  <2>1. CASE n = node
    BY <1>1, <1>5, <2>1
  <2>2. CASE n \in filter /\ n.buffer = bufferId
    BY <1>1, <1>4, <1>5, <2>2 DEF Of
  <2>3. CASE n \in filter /\ n.buffer # bufferId
    BY <1>1, <2>3 DEF FilterExact
  <2>4. QED
    BY <1>1, <2>1, <2>2, <2>3
<1>8. ASSUME NEW b \in DOMAIN oldBuffers'
      PROVE  /\ oldBuffers'[b].count = Cardinality(Of(filter', b)) /\ oldBuffers'[b].count > 0
  <2>1. CASE b = bufferId
    <3>1. Of(filter', b) = Of(filter, b) \union {node} /\ node \notin Of(filter, b)
      BY <1>1, <2>1 DEF Of
    <3>2. Cardinality(Of(filter, b) \union {node}) = Cardinality(Of(filter, b)) + 1
      BY <1>4, <2>1, <3>1, FS_AddElement
    <3>3. Cardinality(Of(filter', b)) = old.count + 1
      BY <1>4, <2>1, <3>1, <3>2
    <3>4. oldBuffers'[b].count = old.count + 1 /\ old.count \in Nat
      BY <1>1, <2>1
    <3>5. old.count + 1 > 0
      BY <3>4
    <3>6. QED
      BY <3>3, <3>4, <3>5
  <2>2. CASE b # bufferId
    <3>1. Of(filter', b) = Of(filter, b)
      BY <1>1, <2>2 DEF Of
    <3>2. b \in DOMAIN oldBuffers /\ oldBuffers'[b] = oldBuffers[b]
      BY <1>1, <2>2
    <3>3. QED
      BY <3>1, <3>2, OfFacts
  <2>3. QED
    BY <2>1, <2>2
<1>9. \A n1, n2 \in filter' : n1.sample = n2.sample => n1 = n2
  BY <1>1, <1>2 DEF FilterExact
<1>10. QED
  BY <1>6, <1>7, <1>8, <1>9 DEF FilterExact, Of

\* ... and when they are acknowledged.
LEMMA ReleaseExact ==
    ASSUME LearningTypes, InPlace, FilterExact, NEW b, NEW gone, Releases(b, gone)
    PROVE  InPlace' /\ FilterExact'
<1>1. /\ filter' = filter \ gone /\ DOMAIN oldBuffers' \subseteq DOMAIN oldBuffers
      /\ \A c \in DOMAIN oldBuffers' : oldBuffers'[c].nodes = oldBuffers[c].nodes
      /\ \A c \in DOMAIN oldBuffers : c # b => c \in DOMAIN oldBuffers'
      /\ Of(filter, b) \ gone # {} => b \in DOMAIN oldBuffers'
      /\ b \in DOMAIN oldBuffers' => Of(filter, b) \ gone # {}
      /\ gone \subseteq Of(filter, b)
  BY DEF Releases
<1>2. InPlace'
  BY <1>1 DEF InPlace
<1>3. ASSUME NEW n \in filter'
      PROVE  /\ n.buffer \in DOMAIN oldBuffers'
             /\ n.pos \in DOMAIN oldBuffers'[n.buffer].nodes
             /\ oldBuffers'[n.buffer].nodes[n.pos] = n
  <2>1. n \in filter /\ n \notin gone
    BY <1>1
  <2>2. n.buffer \in DOMAIN oldBuffers'
    BY <1>1, <2>1 DEF FilterExact, Of
  <2>3. QED
    BY <1>1, <2>1, <2>2 DEF FilterExact
<1>4. ASSUME NEW c \in DOMAIN oldBuffers'
      PROVE  oldBuffers'[c].count = Cardinality(Of(filter', c)) /\ oldBuffers'[c].count > 0
  <2>1. oldBuffers'[c].count = Cardinality(Of(filter', c))
    BY DEF Releases
  <2>2. Of(filter', c) # {}
    <3>1. CASE c = b
      BY <1>1, <3>1 DEF Of
    <3>2. CASE c # b
      <4>1. Of(filter', c) = Of(filter, c)
        BY <1>1, <3>2 DEF Of
      <4>2. oldBuffers[c].count > 0 /\ oldBuffers[c].count = Cardinality(Of(filter, c))
        BY <1>1, OfFacts
      <4>3. QED
        BY <4>1, <4>2, FS_EmptySet
    <3>3. QED
      BY <3>1, <3>2
  <2>3. IsFiniteSet(Of(filter', c))
    <3>1. Of(filter', c) \in SUBSET filter /\ IsFiniteSet(filter)
      BY <1>1 DEF Of, LearningTypes
    <3>2. QED
      BY <3>1, FS_Subset
  <2>4. Cardinality(Of(filter', c)) \in Nat /\ Cardinality(Of(filter', c)) # 0
    BY <2>2, <2>3, FS_EmptySet, FS_CardinalityType
  <2>5. QED
    BY <2>1, <2>4
<1>5. \A n1, n2 \in filter' : n1.sample = n2.sample => n1 = n2
  BY <1>1 DEF FilterExact
<1>6. QED
  BY <1>2, <1>3, <1>4, <1>5 DEF FilterExact, Of

\* Every step keeps filter, entries and counts in step.
LEMMA StructureKept ==
    ASSUME LearningTypes, InPlace, FilterExact, Counting, [Next]_vars
    PROVE  InPlace' /\ FilterExact'
<1>1. ASSUME NEW t \in Ingress, NEW s \in Sample, AddSample(t, s) PROVE InPlace' /\ FilterExact'
  BY <1>1, AddExact
<1>2. CASE UNCHANGED acked
  <2>1. UNCHANGED <<filter, oldBuffers>>
    BY <1>2 DEF acked
  <2>2. InPlace'
    BY <2>1 DEF InPlace
  <2>3. FilterExact'
    BY <2>1 DEF FilterExact
  <2>4. QED
    BY <2>2, <2>3
<1>3. ASSUME NEW t \in Control, ResetState(t) PROVE InPlace' /\ FilterExact'
  BY <1>3 DEF ResetState, InPlace, FilterExact
<1>4. ASSUME NEW m \in DOMAIN sent, AckBuffer(m) PROVE InPlace' /\ FilterExact'
  BY <1>2, <1>4, AckBufferReleases, ReleaseExact
<1>5. ASSUME NEW m \in DOMAIN sent, NEW ids, Ack(m, ids) PROVE InPlace' /\ FilterExact'
  BY <1>2, <1>5, AckReleases, ReleaseExact
<1>6. ASSUME NEW t \in Thread, SwapAfterWait(t) PROVE UNCHANGED acked
  BY <1>6 DEF SwapAfterWait
<1>7. ASSUME NEW t \in Control, SetTimeout(t) \/ SetLearnWriter(t) PROVE UNCHANGED acked
  BY <1>7 DEF SetTimeout, SetLearnWriter
<1>8. ASSUME NEW t \in Control, NEW m \in MaxSamples, SetMaxSamples(t, m) PROVE UNCHANGED acked
  BY <1>8 DEF SetMaxSamples
<1>9. CASE Transmit \/ TimerFires \/ DeadlinePasses \/ UNCHANGED vars
  BY <1>2, <1>9 DEF Transmit, TxSleep, TxTake, TxHeader, TxSend, TxDone, TimerFires,
     DeadlinePasses, vars
<1>10. QED
  BY <1>1, <1>2, <1>3, <1>4, <1>5, <1>6, <1>7, <1>8, <1>9 DEF Next

\* Every step keeps the room left for buffer_id.
LEMMA CountingKept ==
    ASSUME LearningTypes, LearningTypes', Counting, [Next]_vars
    PROVE  Counting'
<1> DEFINE n == Cardinality(Thread)
<1>1. /\ n \in Nat /\ MaxId \in Nat /\ bufferId \in Nat /\ bufferId' \in Nat
      /\ Cardinality(Swapping) \in Nat /\ Cardinality(Swapping)' \in Nat
      /\ Cardinality(Swapping)' <= n
  <2>1. IsFiniteSet(Swapping') /\ Cardinality(Swapping') <= n
    <3>1. Swapping' \in SUBSET Thread
      BY DEF Swapping
    <3>2. QED
      BY <3>1, Threads, FS_Subset
  <2>2. Cardinality(Swapping') \in Nat
    BY <2>1, FS_CardinalityType
  <2>3. QED
    BY <2>1, <2>2, Threads, Ids, SwappingFacts DEF LearningTypes
<1> HIDE DEF n
<1>2. ASSUME bufferId <= MaxId, bufferId' = bufferId \/ (bufferId' = bufferId + 1 /\ buffer' = <<>>)
      PROVE  Counting'
  BY <1>1, <1>2 DEF Counting, n
<1>3. ASSUME UNCHANGED <<buffer, bufferId>>, Swapping' = Swapping PROVE Counting'
  BY <1>3 DEF Counting
<1>4. ASSUME NEW t \in Ingress, NEW s \in Sample, AddSample(t, s) PROVE Counting'
  <2>1. bufferId <= MaxId /\ (Grows(Append(buffer, s)) \/ Swaps(Append(buffer, s)))
    BY <1>4, AddMoves
  <2>2. QED
    BY <1>2, <2>1 DEF Grows, Swaps
<1>5. ASSUME NEW t \in Thread, SwapAfterWait(t) PROVE Counting'
  <2>1. /\ \/ Grows(buffer) /\ at' = at
           \/ Swaps(buffer) /\ at' = [at EXCEPT ![t] = "idle"]
        /\ at[t] = "swap"
    BY <1>5, WaitMoves
  <2>2. CASE Grows(buffer) /\ at' = at
    BY <1>3, <2>2 DEF Grows, Swapping
  <2>3. CASE Swaps(buffer) /\ at' = [at EXCEPT ![t] = "idle"]
    <3>1. Swapping' = Swapping \ {t} /\ t \in Swapping
      BY <2>1, <2>3 DEF Swapping, LearningTypes
    <3>2. Cardinality(Swapping') = Cardinality(Swapping) - 1
      BY <3>1, SwappingFacts
    <3>3. CASE bufferId <= MaxId
      BY <1>2, <2>3, <3>3 DEF Swaps
    <3>4. CASE bufferId > MaxId
      <4>1. bufferId + Cardinality(Swapping) <= MaxId + 1 + n
        BY <3>4 DEF Counting, n
      <4>2. bufferId' + Cardinality(Swapping') <= MaxId + 1 + n /\ buffer' = <<>>
        BY <1>1, <2>3, <3>2, <4>1 DEF Swaps
      <4>3. QED
        BY <4>2 DEF Counting, n
    <3>5. QED
      BY <1>1, <3>3, <3>4
  <2>4. QED
    BY <2>1, <2>2, <2>3
<1>6. ASSUME buffer # <<>> PROVE bufferId <= MaxId
  BY <1>1, <1>6 DEF Counting
<1>7. ASSUME NEW t \in Control, NEW m \in MaxSamples, SetMaxSamples(t, m) PROVE Counting'
  <2>1. /\ Grows(buffer) \/ Swaps(buffer)
        /\ buffer = <<>> => UNCHANGED <<buffers, at>>
    BY <1>7, SetMoves
  <2>2. CASE buffer # <<>>
    BY <1>2, <1>6, <2>1, <2>2 DEF Grows, Swaps
  <2>3. CASE buffer = <<>>
    BY <1>3, <2>1, <2>3 DEF buffers, Swapping
  <2>4. QED
    BY <2>2, <2>3
<1>8. CASE TxTake
  <2>1. /\ Grows(buffer) \/ (Swaps(buffer) /\ buffer # <<>>)
        /\ at' = at
    BY <1>8, TakeMoves
  <2>2. CASE Grows(buffer)
    BY <1>3, <2>1, <2>2 DEF Grows, Swapping
  <2>3. CASE Swaps(buffer) /\ buffer # <<>>
    BY <1>2, <1>6, <2>3 DEF Swaps
  <2>4. QED
    BY <2>1, <2>2, <2>3
<1>9. ASSUME NEW t \in Control, SetLearnWriter(t) PROVE Counting'
  <2>1. Swapping' = Swapping
    BY <1>9 DEF SetLearnWriter, Swapping, LearningTypes
  <2>2. QED
    BY <1>3, <1>9, <2>1 DEF SetLearnWriter, buffers
<1>10. ASSUME NEW t \in Control, SetTimeout(t) PROVE Counting'
  BY <1>3, <1>10 DEF SetTimeout, buffers, thread, Swapping
<1>11. ASSUME NEW t \in Control, ResetState(t) PROVE Counting'
  BY <1>1, <1>11 DEF ResetState, Counting
<1>12. ASSUME NEW m \in DOMAIN sent, AckBuffer(m) \/ \E ids \in SUBSET sent[m].open : Ack(m, ids)
       PROVE  Counting'
  BY <1>3, <1>12 DEF AckBuffer, Ack, buffers, thread, Swapping
<1>13. CASE TxSleep \/ TxHeader \/ TxSend \/ TimerFires \/ DeadlinePasses \/ UNCHANGED vars
  BY <1>3, <1>13 DEF TxSleep, TxHeader, TxSend, TimerFires, DeadlinePasses, vars, buffers, thread,
     Swapping
<1>14. CASE TxDone
  BY <1>3, <1>14 DEF TxDone, Swapping
<1>15. QED
  BY <1>4, <1>5, <1>7, <1>8, <1>9, <1>10, <1>11, <1>12, <1>13, <1>14 DEF Next, Transmit

-----------------------------------------------------------------------------
\* The other threads do not disturb the message under way.
Calm == tx' = tx \/ (~Busy /\ ~Busy')

\* Waking the transmit thread does not make it busy.
LEMMA QuietIsCalm == Quiet => Calm
BY DEF Quiet, Calm, Busy

\* A message sent and its parts.
LEMMA MessageFacts ==
    ASSUME LearningTypes, NEW m \in DOMAIN sent
    PROVE  /\ sent[m].epoch \in Nat /\ sent[m].id \in 0..IdSpace - 1 /\ sent[m].id \in Nat
           /\ sent[m].count \in Nat /\ sent[m].samples \in Seq(Sample)
           /\ sent[m].open \in SUBSET Nat
<1>1. sent[m] \in Message
  BY DEF LearningTypes
<1>2. QED
  BY <1>1, Ids DEF Message

\* A buffer is handed over only when the other one is free.
LEMMA MoveSends ==
    ASSUME LearningTypes, Sending, NEW buf, Grows(buf) \/ Swaps(buf), Calm,
           UNCHANGED <<txMsg, sent, resets>>
    PROVE  Sending'
<1>1. /\ Busy' <=> Busy
      /\ Busy => tx' = tx
      /\ AllSent' <=> AllSent
      /\ bufferId \in Nat
      /\ \A m \in DOMAIN sent : sent[m].id \in Nat
  <2>1. bufferId \in Nat
    BY Ids DEF LearningTypes
  <2>2. \A m \in DOMAIN sent : sent[m].id \in Nat
    BY MessageFacts
  <2>3. (Busy' <=> Busy) /\ (Busy => tx' = tx) /\ (AllSent' <=> AllSent)
    BY DEF Calm, Busy, AllSent, Current
  <2>4. QED
    BY <2>1, <2>2, <2>3
<1>2. CASE Grows(buf)
  <2>1. UNCHANGED <<bufferTmp, bufferId>>
    BY <1>2 DEF Grows
  <2>2. QED
    BY <1>1, <2>1 DEF Sending, Current
<1>3. CASE Swaps(buf)
  <2>1. bufferTmp = <<>> /\ bufferId' = bufferId + 1
    BY <1>3 DEF Swaps
  <2>2. ~(Busy' /\ Current(txMsg)')
    BY <1>1, <2>1 DEF Sending, Current
  <2>3. \A m \in DOMAIN sent : Current(sent[m]) => sent[m].id < bufferId' - 1 /\ sent[m].id < bufferId'
    BY <1>1, <2>1 DEF Sending
  <2>4. bufferId' > 0
    BY <1>1, <2>1
  <2>5. QED
    BY <2>2, <2>3, <2>4 DEF Sending, Current
<1>4. QED
  BY <1>2, <1>3

\* The message is of the buffer taken, after all those sent before.
LEMMA TakeSends ==
    ASSUME LearningTypes, Counting, Sending, TxTake
    PROVE  Sending'
<1>1. /\ (Grows(buffer) /\ bufferTmp # <<>>) \/ (Swaps(buffer) /\ buffer # <<>>)
      /\ tx = "run" /\ tx' = "header"
      /\ txMsg' = [epoch |-> resets, count |-> Len(bufferTmp')]
      /\ UNCHANGED <<sent, resets>>
  BY TakeMoves
<1>2. resets \in Nat /\ bufferId \in Nat /\ \A m \in DOMAIN sent : sent[m].id \in Nat
  BY Ids, MessageFacts DEF LearningTypes
<1>3. /\ bufferTmp' # <<>> /\ bufferId' > 0 /\ bufferId' \in Nat
      /\ \A m \in DOMAIN sent : Current(sent[m]) => sent[m].id < bufferId' - 1
  <2>1. CASE Grows(buffer) /\ bufferTmp # <<>>
    <3>1. UNCHANGED <<bufferTmp, bufferId>> /\ ~AllSent
      BY <1>1, <2>1 DEF Grows, AllSent
    <3>2. QED
      BY <1>2, <2>1, <3>1 DEF Sending
  <2>2. CASE Swaps(buffer) /\ buffer # <<>>
    <3>1. bufferTmp' = buffer /\ bufferId' = bufferId + 1
      BY <2>2 DEF Swaps
    <3>2. QED
      BY <1>2, <2>2, <3>1 DEF Sending
  <2>3. QED
    BY <1>1, <2>1, <2>2
<1>4. /\ txMsg'.epoch = resets /\ txMsg'.count = Len(bufferTmp')
  BY <1>1
<1>5. ASSUME NEW m \in DOMAIN sent'
      PROVE  /\ sent'[m].epoch <= resets' /\ sent'[m].open \subseteq DOMAIN sent'[m].samples
             /\ Current(sent[m])' => /\ sent'[m].id < bufferId'
                                     /\ sent'[m].id < bufferId' - 1
  BY <1>1, <1>2, <1>3 DEF Sending, Current
<1>6. \A m1, m2 \in DOMAIN sent' :
        m1 < m2 /\ Current(sent[m1])' /\ Current(sent[m2])' => sent'[m1].id < sent'[m2].id
  BY <1>1 DEF Sending, Current
<1>7. txMsg'.epoch \in 0..resets'
  BY <1>1, <1>2, <1>4
<1>8. QED
  BY <1>1, <1>3, <1>4, <1>5, <1>6, <1>7 DEF Sending

\* The header is read later, but buffer_id has not moved: both buffers would
\* have to change hands.
LEMMA HeaderSends ==
    ASSUME LearningTypes, Sending, TxHeader
    PROVE  Sending'
<1>1. /\ tx = "header" /\ tx' = "send"
      /\ txMsg'.epoch = txMsg.epoch /\ txMsg'.count = txMsg.count /\ txMsg'.id = HeaderId
      /\ UNCHANGED <<bufferTmp, bufferId, sent, resets>>
  BY DEF TxHeader, buffers, history
<1>2. bufferId > 0 => HeaderId = bufferId - 1
  BY Ids DEF HeaderId, LearningTypes
<1>3. ~AllSent /\ ~AllSent' /\ Busy
  BY <1>1 DEF AllSent, Busy
<1>4. QED
  BY <1>1, <1>2, <1>3 DEF Sending, Current

\* The message sent is the last one and has the highest id.
LEMMA SendSends ==
    ASSUME LearningTypes, Sending, TxSend
    PROVE  Sending'
<1> DEFINE msg == [epoch |-> txMsg.epoch, id |-> txMsg.id, count |-> txMsg.count,
                   samples |-> bufferTmp, open |-> DOMAIN bufferTmp]
           last == Len(sent) + 1
<1>1. /\ tx = "send" /\ tx' = "sent" /\ sent' = Append(sent, msg)
      /\ UNCHANGED <<bufferTmp, bufferId, txMsg, resets>>
  BY DEF TxSend, buffers, history
<1>2. /\ msg.epoch = txMsg.epoch /\ msg.id = txMsg.id /\ msg.samples = bufferTmp
      /\ msg.open = DOMAIN bufferTmp
  OBVIOUS
<1> HIDE DEF msg
<1>3. /\ DOMAIN sent' = DOMAIN sent \union {last} /\ sent'[last] = msg
      /\ \A m \in DOMAIN sent : sent'[m] = sent[m] /\ m < last
  BY <1>1 DEF LearningTypes
<1>4. /\ bufferId \in Nat /\ resets \in Nat
      /\ \A m \in DOMAIN sent : sent[m].id \in Nat
  BY Ids, MessageFacts DEF LearningTypes
<1>5. /\ Busy /\ ~AllSent /\ (AllSent' <=> Current(txMsg))
      /\ txMsg.epoch \in 0..resets
  BY <1>1 DEF Busy, AllSent, Current, Sending
<1>6. Current(txMsg) => /\ bufferTmp # <<>> /\ bufferId > 0 /\ txMsg.id = bufferId - 1
                        /\ \A m \in DOMAIN sent : Current(sent[m]) => sent[m].id < bufferId - 1
  BY <1>1, <1>5 DEF Sending
<1>7. ASSUME NEW m \in DOMAIN sent'
      PROVE  /\ sent'[m].epoch <= resets' /\ sent'[m].open \subseteq DOMAIN sent'[m].samples
             /\ Current(sent[m])' => /\ sent'[m].id < bufferId'
                                     /\ bufferTmp' # <<>> /\ ~AllSent' => sent'[m].id < bufferId' - 1
  <2>1. CASE m = last
    BY <1>1, <1>2, <1>3, <1>4, <1>5, <1>6, <2>1 DEF Current
  <2>2. CASE m \in DOMAIN sent
    <3>1. /\ sent[m].epoch <= resets /\ sent[m].open \subseteq DOMAIN sent[m].samples
          /\ Current(sent[m]) => /\ sent[m].id < bufferId
                                 /\ bufferTmp # <<>> => sent[m].id < bufferId - 1
      BY <1>5, <2>2 DEF Sending
    <3>2. QED
      BY <1>1, <1>3, <2>2, <3>1 DEF Current
  <2>3. QED
    BY <1>3, <2>1, <2>2
<1>8. ASSUME NEW m1 \in DOMAIN sent', NEW m2 \in DOMAIN sent', m1 < m2,
             Current(sent[m1])', Current(sent[m2])'
      PROVE  sent'[m1].id < sent'[m2].id
  <2>1. m1 \in DOMAIN sent
    <3>1. m2 \in DOMAIN sent \/ m2 = last
      BY <1>3
    <3>2. m1 # last
      BY <1>3, <1>8, <3>1 DEF LearningTypes
    <3>3. QED
      BY <1>3, <3>2
  <2>2. CASE m2 = last
    BY <1>1, <1>2, <1>3, <1>6, <1>8, <2>1, <2>2 DEF Current
  <2>3. CASE m2 \in DOMAIN sent
    BY <1>1, <1>3, <1>8, <2>1, <2>3 DEF Sending, Current
  <2>4. QED
    BY <1>3, <2>2, <2>3
<1>9. /\ txMsg'.epoch \in 0..resets'
      /\ bufferTmp' # <<>> => bufferId' > 0
      /\ Current(txMsg)' =>
          /\ bufferTmp' # <<>> /\ txMsg'.count = Len(bufferTmp')
          /\ txMsg'.id = bufferId' - 1
  BY <1>1, <1>5, <1>6 DEF Sending, Current
<1>10. QED
  BY <1>7, <1>8, <1>9 DEF Sending

\* Acknowledging keeps the order of those left.
LEMMA AckSends ==
    ASSUME LearningTypes, Sending, NEW m \in DOMAIN sent, NEW ids \in SUBSET sent[m].open,
           sent' = Closed(m, ids), UNCHANGED <<bufferTmp, bufferId, tx, txMsg, resets>>
    PROVE  Sending'
<1>1. /\ \A j \in DOMAIN sent' :
            LET k == From(m, ids, j) IN
            /\ k \in DOMAIN sent
            /\ sent'[j].epoch = sent[k].epoch /\ sent'[j].id = sent[k].id
            /\ sent'[j].samples = sent[k].samples
            /\ sent'[j].open \subseteq sent[k].open
      /\ \A i, j \in DOMAIN sent' : i < j => From(m, ids, i) < From(m, ids, j)
  <2> DEFINE later == Closed(m, ids)
  <2>1. /\ \A j \in DOMAIN later :
              LET k == From(m, ids, j) IN
              /\ k \in DOMAIN sent
              /\ later[j].epoch = sent[k].epoch /\ later[j].id = sent[k].id
              /\ later[j].samples = sent[k].samples
              /\ later[j].open = IF k = m THEN sent[k].open \ ids ELSE sent[k].open
        /\ \A i, j \in DOMAIN later : i < j => From(m, ids, i) < From(m, ids, j)
    BY ClosedFacts
  <2> HIDE DEF later
  <2>2. sent' = later
    BY DEF later
  <2>3. QED
    BY <2>1, <2>2
<1>2. AllSent' <=> AllSent
  BY DEF AllSent, Current
<1>3. ASSUME NEW j \in DOMAIN sent'
      PROVE  /\ sent'[j].epoch <= resets' /\ sent'[j].open \subseteq DOMAIN sent'[j].samples
             /\ Current(sent[j])' => /\ sent'[j].id < bufferId'
                                     /\ bufferTmp' # <<>> /\ ~AllSent' => sent'[j].id < bufferId' - 1
  <2> DEFINE k == From(m, ids, j)
  <2>1. /\ k \in DOMAIN sent
        /\ sent'[j].epoch = sent[k].epoch /\ sent'[j].id = sent[k].id
        /\ sent'[j].samples = sent[k].samples
        /\ sent'[j].open \subseteq sent[k].open
    BY <1>1
  <2> HIDE DEF k
  <2>2. /\ sent[k].epoch <= resets /\ sent[k].open \subseteq DOMAIN sent[k].samples
        /\ Current(sent[k]) => /\ sent[k].id < bufferId
                               /\ bufferTmp # <<>> /\ ~AllSent => sent[k].id < bufferId - 1
    BY <2>1 DEF Sending
  <2>3. QED
    BY <1>2, <2>1, <2>2 DEF Current
<1>4. ASSUME NEW i \in DOMAIN sent', NEW j \in DOMAIN sent', i < j,
             Current(sent[i])', Current(sent[j])'
      PROVE  sent'[i].id < sent'[j].id
  <2> DEFINE h == From(m, ids, i)  k == From(m, ids, j)
  <2>1. /\ h \in DOMAIN sent /\ sent'[i].epoch = sent[h].epoch /\ sent'[i].id = sent[h].id
        /\ k \in DOMAIN sent /\ sent'[j].epoch = sent[k].epoch /\ sent'[j].id = sent[k].id
        /\ h < k
    BY <1>1, <1>4
  <2> HIDE DEF h, k
  <2>2. QED
    BY <1>4, <2>1 DEF Sending, Current
<1>5. /\ txMsg'.epoch \in 0..resets'
      /\ bufferTmp' # <<>> => bufferId' > 0
      /\ Busy' /\ Current(txMsg)' =>
          /\ bufferTmp' # <<>> /\ txMsg'.count = Len(bufferTmp')
          /\ tx' # "header" => txMsg'.id = bufferId' - 1
  BY DEF Sending, Current, Busy
<1>6. QED
  BY <1>3, <1>4, <1>5 DEF Sending

\* Every step keeps the messages in order.
LEMMA SendingKept ==
    ASSUME LearningTypes, Counting, Sending, [Next]_vars
    PROVE  Sending'
<1>1. ASSUME NEW t \in Ingress, NEW s \in Sample, AddSample(t, s) PROVE Sending'
  <2>1. /\ Grows(Append(buffer, s)) \/ Swaps(Append(buffer, s))
        /\ Quiet /\ UNCHANGED <<txMsg, sent, resets>>
    BY <1>1, AddMoves
  <2>2. QED
    BY <2>1, QuietIsCalm, MoveSends
<1>2. ASSUME NEW t \in Thread, SwapAfterWait(t) PROVE Sending'
  <2>1. /\ Grows(buffer) \/ Swaps(buffer)
        /\ Quiet /\ UNCHANGED <<txMsg, sent, resets>>
    BY <1>2, WaitMoves
  <2>2. QED
    BY <2>1, QuietIsCalm, MoveSends
<1>3. ASSUME NEW t \in Control, NEW m \in MaxSamples, SetMaxSamples(t, m) PROVE Sending'
  <2>1. /\ Grows(buffer) \/ Swaps(buffer)
        /\ Quiet /\ UNCHANGED <<txMsg, sent, resets>>
    BY <1>3, SetMoves
  <2>2. QED
    BY <2>1, QuietIsCalm, MoveSends
<1>4. ASSUME UNCHANGED <<buffers, txMsg, sent, resets>>, Calm PROVE Sending'
  <2>1. Grows(buffer)
    BY <1>4 DEF buffers, Grows
  <2>2. QED
    BY <1>4, <2>1, MoveSends
<1>5. CASE TxSleep \/ TimerFires \/ DeadlinePasses \/ UNCHANGED vars
  BY <1>4, <1>5 DEF TxSleep, TimerFires, DeadlinePasses, vars, Calm, Busy, history
<1>6. ASSUME NEW t \in Control, SetTimeout(t) \/ SetLearnWriter(t) PROVE Sending'
  BY <1>4, <1>6 DEF SetTimeout, SetLearnWriter, Calm, history
<1>7. ASSUME NEW t \in Control, ResetState(t) PROVE Sending'
  <2>1. bufferTmp' = <<>> /\ resets' = resets + 1 /\ UNCHANGED <<tx, txMsg, sent>>
    BY <1>7 DEF ResetState
  <2>2. resets \in Nat /\ \A m \in DOMAIN sent : sent[m].epoch \in Nat /\ sent[m].epoch <= resets
    BY MessageFacts DEF LearningTypes, Sending
  <2>3. txMsg.epoch \in 0..resets
    BY DEF Sending
  <2>4. \A m \in DOMAIN sent : sent[m].epoch # resets' /\ sent[m].epoch <= resets'
    BY <2>1, <2>2
  <2>5. txMsg'.epoch # resets' /\ txMsg'.epoch \in 0..resets'
    BY <2>1, <2>2, <2>3
  <2>6. QED
    BY <2>1, <2>4, <2>5 DEF Sending, Current
<1>8. CASE TxDone
  <2>1. tx' = "run" /\ bufferTmp' = <<>> /\ txMsg'.epoch = 0 /\ UNCHANGED <<bufferId, sent, resets>>
    BY <1>8 DEF TxDone, history
  <2>2. 0 \in 0..resets'
    BY <2>1 DEF LearningTypes
  <2>3. QED
    BY <2>1, <2>2 DEF Sending, Busy, Current
<1>9. ASSUME NEW m \in DOMAIN sent, AckBuffer(m) PROVE Sending'
  <2>1. sent' = Closed(m, sent[m].open) /\ UNCHANGED <<bufferTmp, bufferId, tx, txMsg, resets>>
    BY <1>9 DEF AckBuffer, buffers
  <2>2. QED
    BY <2>1, AckSends
<1>10. ASSUME NEW m \in DOMAIN sent, NEW ids \in SUBSET sent[m].open, Ack(m, ids) PROVE Sending'
  <2>1. sent' = Closed(m, ids) /\ UNCHANGED <<bufferTmp, bufferId, tx, txMsg, resets>>
    BY <1>10 DEF Ack, buffers
  <2>2. QED
    BY <2>1, AckSends
<1>11. QED
  BY <1>1, <1>2, <1>3, <1>5, <1>6, <1>7, <1>8, <1>9, <1>10, TakeSends, HeaderSends, SendSends
     DEF Next, Transmit

-----------------------------------------------------------------------------
\* The list of the current buffer grows with it, or is handed over with it;
\* the other entries stay as they are.
Collects(buf) ==
    /\ filter \subseteq filter'
    /\ DOMAIN oldBuffers \subseteq DOMAIN oldBuffers'
    /\ DOMAIN oldBuffers' \subseteq DOMAIN oldBuffers \union {bufferId}
    /\ \A b \in DOMAIN oldBuffers : b # bufferId => oldBuffers'[b].nodes = oldBuffers[b].nodes
    /\ "stale" \notin upset =>
          IF bufferId \in DOMAIN oldBuffers'
          THEN /\ Samples(oldBuffers'[bufferId].nodes) = buf
               /\ Range(oldBuffers'[bufferId].nodes) \subseteq filter'
          ELSE buf = <<>>

\* Handing a buffer over keeps what the entries say of the buffers.
LEMMA MoveLists ==
    ASSUME LearningTypes, Sending, Listing, NEW buf, Grows(buf) \/ Swaps(buf), Collects(buf),
           Grows(buf) => (AllSent' <=> AllSent), UNCHANGED <<sent, resets>>,
           "stale" \notin upset' => "stale" \notin upset
    PROVE  Listing'
<1>1. bufferId \in Nat /\ DOMAIN oldBuffers \subseteq Nat
  BY Ids DEF LearningTypes
<1>2. /\ bufferId' = bufferId \/ bufferId' = bufferId + 1
      /\ DOMAIN oldBuffers' \subseteq Nat
      /\ \A b \in DOMAIN oldBuffers' : b <= bufferId
  BY <1>1 DEF Grows, Swaps, Collects, Listing
<1>3. \A b \in DOMAIN oldBuffers' : b <= bufferId'
  BY <1>1, <1>2
<1>4. ASSUME NEW b \in DOMAIN oldBuffers', b # bufferId
      PROVE  b \in DOMAIN oldBuffers /\ oldBuffers'[b].nodes = oldBuffers[b].nodes
  BY <1>4 DEF Collects
<1>5. ASSUME "stale" \notin upset', NEW m \in DOMAIN sent', Current(sent[m])', sent'[m].id \in DOMAIN oldBuffers'
      PROVE  /\ sent'[m].count = Len(oldBuffers'[sent'[m].id].nodes)
             /\ sent'[m].samples = Samples(oldBuffers'[sent'[m].id].nodes)
             /\ \A i \in sent'[m].open : oldBuffers'[sent'[m].id].nodes[i] \in filter'
  <2>1. sent' = sent /\ Current(sent[m])
    BY <1>5 DEF Current
  <2>2. sent[m].id < bufferId /\ sent[m].id \in Nat
    BY <1>5, <2>1, MessageFacts DEF Sending
  <2>3. sent[m].id # bufferId
    BY <1>1, <2>2
  <2>4. /\ sent[m].id \in DOMAIN oldBuffers
        /\ oldBuffers'[sent[m].id].nodes = oldBuffers[sent[m].id].nodes
    BY <1>4, <1>5, <2>1, <2>3
  <2>5. /\ sent[m].count = Len(oldBuffers[sent[m].id].nodes)
        /\ sent[m].samples = Samples(oldBuffers[sent[m].id].nodes)
        /\ \A i \in sent[m].open : oldBuffers[sent[m].id].nodes[i] \in filter
    BY <1>5, <2>1, <2>4 DEF Listing, Contents
  <2>6. filter \subseteq filter'
    BY DEF Collects
  <2>7. QED
    BY <2>1, <2>4, <2>5, <2>6
<1>6. ASSUME "stale" \notin upset'
      PROVE  /\ IF bufferId' \in DOMAIN oldBuffers'
                THEN /\ Samples(oldBuffers'[bufferId'].nodes) = buffer'
                     /\ Range(oldBuffers'[bufferId'].nodes) \subseteq filter'
                ELSE buffer' = <<>>
             /\ bufferTmp' # <<>> /\ bufferId' - 1 \in DOMAIN oldBuffers' =>
                   /\ Samples(oldBuffers'[bufferId' - 1].nodes) = bufferTmp'
                   /\ ~AllSent' => Range(oldBuffers'[bufferId' - 1].nodes) \subseteq filter'
  <2>1. CASE Grows(buf)
    <3>1. buffer' = buf /\ bufferTmp' = bufferTmp /\ bufferId' = bufferId
      BY <2>1 DEF Grows
    <3>2. ASSUME bufferTmp # <<>>, bufferId - 1 \in DOMAIN oldBuffers'
          PROVE  /\ Samples(oldBuffers'[bufferId - 1].nodes) = bufferTmp
                 /\ ~AllSent' => Range(oldBuffers'[bufferId - 1].nodes) \subseteq filter'
      <4>1. /\ bufferId - 1 \in DOMAIN oldBuffers
            /\ oldBuffers'[bufferId - 1].nodes = oldBuffers[bufferId - 1].nodes
        BY <1>1, <1>4, <3>2
      <4>2. /\ Samples(oldBuffers[bufferId - 1].nodes) = bufferTmp
            /\ ~AllSent => Range(oldBuffers[bufferId - 1].nodes) \subseteq filter
        BY <1>6, <3>2, <4>1 DEF Listing, Contents, Held
      <4>3. filter \subseteq filter' /\ (AllSent' <=> AllSent)
        BY <2>1 DEF Collects
      <4>4. QED
        BY <4>1, <4>2, <4>3
    <3>3. QED
      BY <1>6, <3>1, <3>2 DEF Collects
  <2>2. CASE Swaps(buf)
    <3>1. buffer' = <<>> /\ bufferTmp' = buf /\ bufferId' = bufferId + 1
      BY <2>2 DEF Swaps
    <3>2. bufferId' \notin DOMAIN oldBuffers' /\ bufferId' - 1 = bufferId
      BY <1>1, <1>2, <3>1
    <3>3. QED
      BY <1>6, <3>1, <3>2 DEF Collects
  <2>3. QED
    BY <2>1, <2>2
<1>7. QED
  BY <1>3, <1>5, <1>6 DEF Listing, Contents, Held

\* A sequence is the function of its elements.
LEMMA ItsElements == ASSUME NEW S, NEW q \in Seq(S) PROVE q = [i \in DOMAIN q |-> q[i]]
OBVIOUS

\* add_sample lists the sample in the place it has in the buffer.
LEMMA AddCollects ==
    ASSUME LearningTypes, Listing, NEW t \in Ingress, NEW s \in Sample, AddSample(t, s)
    PROVE  Collects(Append(buffer, s))
<1> DEFINE old == Unacked(bufferId).nodes
<1>1. /\ old \in Seq(Node) /\ NewNode(s).sample = s /\ NewNode(s) \in Node
      /\ filter' = filter \union {NewNode(s)}
      /\ DOMAIN oldBuffers' = DOMAIN oldBuffers \union {bufferId}
      /\ oldBuffers'[bufferId].nodes = Append(old, NewNode(s))
      /\ \A b \in DOMAIN oldBuffers : b # bufferId => oldBuffers'[b] = oldBuffers[b]
  BY AddLists
<1>2. ASSUME "stale" \notin upset
      PROVE  Samples(old) = buffer /\ Range(old) \subseteq filter
  <2>1. CASE bufferId \in DOMAIN oldBuffers
    <3>1. old = oldBuffers[bufferId].nodes
      BY <2>1 DEF Unacked
    <3>2. QED
      BY <1>2, <2>1, <3>1 DEF Listing, Contents, Held
  <2>2. CASE bufferId \notin DOMAIN oldBuffers
    <3>1. old = <<>> /\ buffer = <<>>
      BY <1>2, <2>2 DEF Unacked, Listing
    <3>2. DOMAIN old = {}
      BY <3>1
    <3>3. Samples(old) = <<>> /\ Range(old) = {}
      BY <3>1, <3>2 DEF Samples, Range
    <3>4. QED
      BY <3>1, <3>3
  <2>3. QED
    BY <2>1, <2>2
<1> HIDE DEF old
<1>3. /\ DOMAIN Append(old, NewNode(s)) = DOMAIN old \union {Len(old) + 1}
      /\ Len(old) + 1 \notin DOMAIN old
      /\ \A i \in DOMAIN old : Append(old, NewNode(s))[i] = old[i]
      /\ Append(old, NewNode(s))[Len(old) + 1] = NewNode(s)
  BY <1>1, AppendFacts
<1>4. ASSUME "stale" \notin upset
      PROVE  /\ Samples(Append(old, NewNode(s))) = Append(buffer, s)
             /\ Range(Append(old, NewNode(s))) \subseteq filter'
  <2>1. /\ buffer \in Seq(Sample) /\ Len(buffer) = Len(old) /\ DOMAIN buffer = DOMAIN old
        /\ \A i \in DOMAIN old : buffer[i] = old[i].sample
    <3>1. buffer \in Seq(Sample)
      BY DEF LearningTypes
    <3>2. DOMAIN buffer = DOMAIN old /\ \A i \in DOMAIN old : buffer[i] = old[i].sample
      BY <1>2, <1>4 DEF Samples
    <3>3. Len(buffer) = Len(old)
      BY <1>1, <3>1, <3>2
    <3>4. QED
      BY <3>1, <3>2, <3>3
  <2>2. /\ Append(buffer, s) \in Seq(Sample)
        /\ DOMAIN Append(buffer, s) = DOMAIN buffer \union {Len(buffer) + 1}
        /\ \A i \in DOMAIN buffer : Append(buffer, s)[i] = buffer[i]
        /\ Append(buffer, s)[Len(buffer) + 1] = s
    BY <2>1, AppendFacts
  <2>3. DOMAIN Samples(Append(old, NewNode(s))) = DOMAIN Append(buffer, s)
    BY <1>3, <2>1, <2>2 DEF Samples
  <2>4. ASSUME NEW i \in DOMAIN Append(buffer, s)
        PROVE  Samples(Append(old, NewNode(s)))[i] = Append(buffer, s)[i]
    <3>1. Samples(Append(old, NewNode(s)))[i] = Append(old, NewNode(s))[i].sample
      BY <2>3 DEF Samples
    <3>2. CASE i \in DOMAIN old
      BY <1>3, <2>1, <2>2, <3>1, <3>2
    <3>3. CASE i = Len(old) + 1
      BY <1>1, <1>3, <2>1, <2>2, <3>1, <3>3
    <3>4. QED
      BY <2>1, <2>2, <3>2, <3>3
  <2>5. Samples(Append(old, NewNode(s))) = [i \in DOMAIN Append(buffer, s) |-> Append(buffer, s)[i]]
    BY <2>3, <2>4 DEF Samples
  <2>6. Append(buffer, s) = [i \in DOMAIN Append(buffer, s) |-> Append(buffer, s)[i]]
    BY <2>2, ItsElements
  <2>7. Range(Append(old, NewNode(s))) \subseteq filter'
    BY <1>1, <1>2, <1>3, <1>4 DEF Range
  <2>8. QED
    BY <2>5, <2>6, <2>7
<1>5. QED
  BY <1>1, <1>4 DEF Collects

\* With filter and entries as they are.
LEMMA StillCollects ==
    ASSUME Listing, UNCHANGED acked
    PROVE  Collects(buffer)
BY DEF Listing, Collects, Contents, Held, acked

\* An acknowledgement of message m takes elements of its buffer away, none of
\* those that are still open.
Thins(m, ids) ==
    /\ filter' \subseteq filter
    /\ \A n \in filter \ filter' : n.buffer = sent[m].id
    /\ DOMAIN oldBuffers' \subseteq DOMAIN oldBuffers
    /\ DOMAIN oldBuffers \ {sent[m].id} \subseteq DOMAIN oldBuffers'
    /\ \A b \in DOMAIN oldBuffers' : oldBuffers'[b].nodes = oldBuffers[b].nodes
    /\ sent[m].id \in DOMAIN oldBuffers =>
          LET nodes == oldBuffers[sent[m].id].nodes
          IN  \A i \in (sent[m].open \ ids) \intersect DOMAIN nodes :
                  nodes[i] \in filter => nodes[i] \in filter'

\* An acknowledgement does not touch the buffers in memory, nor what is still
\* open in the messages.
LEMMA AckLists ==
    ASSUME LearningTypes, InPlace, Sending, Listing, NEW m \in DOMAIN sent, NEW ids \in SUBSET sent[m].open,
           sent' = Closed(m, ids), Thins(m, ids), UNCHANGED <<buffers, tx, txMsg, resets>>,
           "stale" \notin upset' => "stale" \notin upset /\ Current(sent[m])
    PROVE  Listing'
<1> DEFINE b == sent[m].id
<1>1. /\ bufferId \in Nat /\ DOMAIN oldBuffers \subseteq Nat /\ b \in Nat
      /\ UNCHANGED <<buffer, bufferTmp, bufferId>> /\ (AllSent' <=> AllSent)
  BY Ids, MessageFacts DEF LearningTypes, buffers, AllSent, Current
<1>2. \A c \in DOMAIN oldBuffers' : c <= bufferId'
  BY <1>1 DEF Thins, Listing
<1>3. ASSUME NEW c \in DOMAIN oldBuffers, c # b,
             NEW i \in DOMAIN oldBuffers[c].nodes, oldBuffers[c].nodes[i] \in filter
      PROVE  oldBuffers[c].nodes[i] \in filter'
  <2>1. oldBuffers[c].nodes[i].buffer = c
    BY DEF InPlace
  <2>2. QED
    BY <1>3, <2>1 DEF Thins
<1>4. ASSUME NEW c \in DOMAIN oldBuffers, c # b, Held(c)
      PROVE  Range(oldBuffers'[c].nodes) \subseteq filter' /\ c \in DOMAIN oldBuffers'
  BY <1>3, <1>4 DEF Thins, Held, Range
<1>5. ASSUME "stale" \notin upset'
      PROVE  /\ IF bufferId' \in DOMAIN oldBuffers'
                THEN /\ Samples(oldBuffers'[bufferId'].nodes) = buffer'
                     /\ Range(oldBuffers'[bufferId'].nodes) \subseteq filter'
                ELSE buffer' = <<>>
             /\ bufferTmp' # <<>> /\ bufferId' - 1 \in DOMAIN oldBuffers' =>
                   /\ Samples(oldBuffers'[bufferId' - 1].nodes) = bufferTmp'
                   /\ ~AllSent' => Range(oldBuffers'[bufferId' - 1].nodes) \subseteq filter'
  <2>1. "stale" \notin upset /\ b < bufferId /\ (bufferTmp # <<>> /\ ~AllSent => b < bufferId - 1)
    BY <1>5 DEF Sending
  <2>2. bufferId # b /\ (bufferTmp # <<>> /\ ~AllSent => bufferId - 1 # b)
    BY <1>1, <2>1
  <2>3. ASSUME bufferTmp # <<>>, bufferId - 1 \in DOMAIN oldBuffers'
        PROVE  /\ Samples(oldBuffers'[bufferId - 1].nodes) = bufferTmp
               /\ ~AllSent => Range(oldBuffers'[bufferId - 1].nodes) \subseteq filter'
    <3>1. bufferId - 1 \in DOMAIN oldBuffers /\ oldBuffers'[bufferId - 1].nodes = oldBuffers[bufferId - 1].nodes
      BY <2>3 DEF Thins
    <3>2. Samples(oldBuffers[bufferId - 1].nodes) = bufferTmp /\ (~AllSent => Held(bufferId - 1))
      BY <2>1, <2>3, <3>1 DEF Listing, Contents
    <3>3. ~AllSent => Range(oldBuffers'[bufferId - 1].nodes) \subseteq filter'
      BY <1>4, <2>2, <2>3, <3>1, <3>2
    <3>4. QED
      BY <3>1, <3>2, <3>3
  <2>4. CASE bufferId \in DOMAIN oldBuffers
    <3>1. Samples(oldBuffers[bufferId].nodes) = buffer /\ Held(bufferId)
      BY <2>1, <2>4 DEF Listing, Contents
    <3>2. bufferId \in DOMAIN oldBuffers' /\ Range(oldBuffers'[bufferId].nodes) \subseteq filter'
      BY <1>4, <2>2, <2>4, <3>1
    <3>3. oldBuffers'[bufferId].nodes = oldBuffers[bufferId].nodes
      BY <3>2 DEF Thins
    <3>4. Samples(oldBuffers'[bufferId].nodes) = buffer
      BY <3>1, <3>3
    <3>5. QED
      BY <1>1, <2>1, <2>2, <3>2, <3>4, <2>3
  <2>5. CASE bufferId \notin DOMAIN oldBuffers
    <3>1. buffer = <<>> /\ bufferId \notin DOMAIN oldBuffers'
      BY <2>1, <2>5 DEF Listing, Thins
    <3>2. QED
      BY <1>1, <2>3, <3>1
  <2>6. QED
    BY <2>4, <2>5
<1>6. ASSUME "stale" \notin upset', NEW j \in DOMAIN sent', Current(sent[j])', sent'[j].id \in DOMAIN oldBuffers'
      PROVE  /\ sent'[j].count = Len(oldBuffers'[sent'[j].id].nodes)
             /\ sent'[j].samples = Samples(oldBuffers'[sent'[j].id].nodes)
             /\ \A i \in sent'[j].open : oldBuffers'[sent'[j].id].nodes[i] \in filter'
  <2> DEFINE k == From(m, ids, j)  later == Closed(m, ids)
  <2>1. /\ k \in DOMAIN sent
        /\ later[j].epoch = sent[k].epoch /\ later[j].id = sent[k].id
        /\ later[j].count = sent[k].count /\ later[j].samples = sent[k].samples
        /\ later[j].open = IF k = m THEN sent[k].open \ ids ELSE sent[k].open
    BY ClosedFacts
  <2> HIDE DEF k, later
  <2>2. sent' = later
    BY DEF later
  <2> DEFINE c == sent[k].id
  <2>3. c \in DOMAIN oldBuffers /\ oldBuffers'[c].nodes = oldBuffers[c].nodes
    BY <1>6, <2>1, <2>2 DEF Thins
  <2>4. Current(sent[k]) /\ "stale" \notin upset /\ Current(sent[m])
    BY <1>6, <2>1, <2>2 DEF Current
  <2>5. /\ sent[k].count = Len(oldBuffers[c].nodes)
        /\ sent[k].samples = Samples(oldBuffers[c].nodes)
        /\ \A i \in sent[k].open : oldBuffers[c].nodes[i] \in filter
    BY <2>1, <2>3, <2>4 DEF Listing, Contents
  <2>6. sent[k].open \subseteq DOMAIN oldBuffers[c].nodes
    BY <2>1, <2>5 DEF Sending, Samples
  <2>7. ASSUME NEW i \in sent'[j].open
        PROVE  oldBuffers[c].nodes[i] \in filter'
    <3>1. CASE k = m
      <4>1. i \in (sent[m].open \ ids) \intersect DOMAIN oldBuffers[c].nodes /\ c = b
        BY <2>1, <2>2, <2>6, <3>1
      <4>2. QED
        BY <2>3, <2>5, <4>1, <3>1 DEF Thins
    <3>2. CASE k # m
      <4>1. k < m \/ m < k
        BY <2>1, <3>2 DEF LearningTypes
      <4>2. c < b \/ b < c
        BY <2>1, <2>4, <4>1 DEF Sending
      <4>3. c # b
        BY <2>1, <4>2, MessageFacts
      <4>4. i \in sent[k].open
        BY <2>1, <2>2, <3>2
      <4>5. QED
        BY <1>3, <2>3, <2>5, <2>6, <4>3, <4>4
    <3>3. QED
      BY <3>1, <3>2
  <2>8. QED
    BY <2>1, <2>2, <2>3, <2>5, <2>7
<1>7. QED
  BY <1>2, <1>5, <1>6 DEF Listing, Contents, Held

-----------------------------------------------------------------------------
\* A release takes away only what is acknowledged ...
LEMMA ReleaseThins ==
    ASSUME NEW m \in DOMAIN sent, NEW ids, NEW gone, Releases(sent[m].id, gone),
           \A i \in (sent[m].open \ ids) \intersect DOMAIN oldBuffers[sent[m].id].nodes :
               oldBuffers[sent[m].id].nodes[i] \notin gone
    PROVE  Thins(m, ids)
BY DEF Releases, Thins, Of

\* ... when samples are acknowledged one by one ...
LEMMA AckThins ==
    ASSUME LearningTypes, InPlace, FilterExact, NEW m \in DOMAIN sent, NEW ids, Ack(m, ids)
    PROVE  Thins(m, ids)
<1> DEFINE b == sent[m].id  nodes == oldBuffers[b].nodes  gone == {nodes[i] : i \in ids}
<1>1. ASSUME Releases(b, gone), ids \subseteq DOMAIN nodes
      PROVE  Thins(m, ids)
  <2>1. b \in DOMAIN oldBuffers
    BY <1>1 DEF Releases
  <2>2. \A i \in DOMAIN nodes : nodes[i].pos = i
    BY <2>1 DEF InPlace
  <2>3. ASSUME NEW i \in (sent[m].open \ ids) \intersect DOMAIN nodes
        PROVE  nodes[i] \notin gone
    BY <1>1, <2>2
  <2>4. QED
    BY <1>1, <2>3, ReleaseThins
<1>2. ASSUME UNCHANGED acked PROVE Thins(m, ids)
  BY <1>2 DEF Thins, acked
<1>3. QED
  BY <1>1, <1>2, AckReleases

\* ... or with their buffer.
LEMMA AckBufferThins ==
    ASSUME LearningTypes, InPlace, FilterExact, NEW m \in DOMAIN sent, AckBuffer(m)
    PROVE  Thins(m, sent[m].open)
<1>1. ASSUME Releases(sent[m].id, Of(filter, sent[m].id)) PROVE Thins(m, sent[m].open)
  BY <1>1, ReleaseThins
<1>2. ASSUME UNCHANGED acked PROVE Thins(m, sent[m].open)
  BY <1>2 DEF Thins, acked
<1>3. QED
  BY <1>1, <1>2, AckBufferReleases

\* An acknowledgement of a message from before a reset is noted.
LEMMA NotStale ==
    ASSUME NEW m \in DOMAIN sent, NEW whole, NoteAck(m, whole), "stale" \notin upset'
    PROVE  "stale" \notin upset /\ Current(sent[m])
BY DEF NoteAck, Current

\* The message lists what the full buffer has.
LEMMA SendLists ==
    ASSUME LearningTypes, Sending, Listing, TxSend
    PROVE  Listing'
<1> DEFINE msg == [epoch |-> txMsg.epoch, id |-> txMsg.id, count |-> txMsg.count,
                   samples |-> bufferTmp, open |-> DOMAIN bufferTmp]
           last == Len(sent) + 1
<1>1. /\ tx = "send" /\ tx' = "sent" /\ sent' = Append(sent, msg)
      /\ UNCHANGED <<buffer, bufferTmp, bufferId, txMsg, resets, filter, oldBuffers, upset>>
  BY DEF TxSend, buffers, history, acked
<1>2. /\ msg.epoch = txMsg.epoch /\ msg.id = txMsg.id /\ msg.samples = bufferTmp
      /\ msg.open = DOMAIN bufferTmp /\ msg.count = txMsg.count
  OBVIOUS
<1> HIDE DEF msg
<1>3. /\ DOMAIN sent' = DOMAIN sent \union {last} /\ sent'[last] = msg
      /\ \A m \in DOMAIN sent : sent'[m] = sent[m]
  BY <1>1 DEF LearningTypes
<1>4. ~AllSent /\ Busy
  BY <1>1 DEF AllSent, Busy
<1>5. ASSUME "stale" \notin upset, Current(msg), msg.id \in DOMAIN oldBuffers
      PROVE  /\ msg.count = Len(oldBuffers[msg.id].nodes)
             /\ msg.samples = Contents(msg.id)
             /\ \A i \in msg.open : oldBuffers[msg.id].nodes[i] \in filter
  <2>1. Current(txMsg)
    BY <1>2, <1>5 DEF Current
  <2>2. bufferTmp # <<>> /\ txMsg.id = bufferId - 1 /\ txMsg.count = Len(bufferTmp)
    BY <1>1, <1>4, <2>1 DEF Sending
  <2>3. Contents(msg.id) = bufferTmp /\ Held(msg.id)
    BY <1>2, <1>4, <1>5, <2>2 DEF Listing
  <2>4. DOMAIN bufferTmp = DOMAIN oldBuffers[msg.id].nodes
    BY <2>3 DEF Contents, Samples
  <2>5. oldBuffers[msg.id].nodes \in Seq(Node) /\ bufferTmp \in Seq(Sample)
    BY <1>5, EntryFacts DEF LearningTypes
  <2>6. Len(bufferTmp) = Len(oldBuffers[msg.id].nodes)
    BY <2>4, <2>5
  <2>7. QED
    BY <1>2, <2>2, <2>3, <2>4, <2>6 DEF Held, Range
<1>6. ASSUME "stale" \notin upset, NEW m \in DOMAIN sent', Current(sent[m])', sent'[m].id \in DOMAIN oldBuffers
      PROVE  /\ sent'[m].count = Len(oldBuffers[sent'[m].id].nodes)
             /\ sent'[m].samples = Contents(sent'[m].id)
             /\ \A i \in sent'[m].open : oldBuffers[sent'[m].id].nodes[i] \in filter
  <2>1. CASE m = last
    BY <1>1, <1>3, <1>5, <1>6, <2>1 DEF Current
  <2>2. CASE m \in DOMAIN sent
    <3>1. sent'[m] = sent[m] /\ Current(sent[m]) /\ sent[m].id \in DOMAIN oldBuffers
      BY <1>1, <1>3, <1>6, <2>2 DEF Current
    <3>2. /\ sent[m].count = Len(oldBuffers[sent[m].id].nodes)
          /\ sent[m].samples = Contents(sent[m].id)
          /\ \A i \in sent[m].open : oldBuffers[sent[m].id].nodes[i] \in filter
      BY <1>6, <2>2, <3>1 DEF Listing
    <3>3. QED
      BY <3>1, <3>2
  <2>3. QED
    BY <1>3, <2>1, <2>2
<1>7. /\ \A b : Contents(b)' = Contents(b) /\ (Held(b)' <=> Held(b))
  BY <1>1 DEF Contents, Held
<1>8. ASSUME "stale" \notin upset'
      PROVE  /\ IF bufferId' \in DOMAIN oldBuffers'
                THEN (Contents(bufferId) = buffer /\ Held(bufferId))'
                ELSE buffer' = <<>>
             /\ bufferTmp' # <<>> /\ bufferId' - 1 \in DOMAIN oldBuffers' =>
                    (Contents(bufferId - 1) = bufferTmp /\ (~AllSent => Held(bufferId - 1)))'
  BY <1>1, <1>4, <1>8 DEF Listing, Contents, Held
<1>9. ASSUME "stale" \notin upset', NEW m \in DOMAIN sent', Current(sent[m])', sent'[m].id \in DOMAIN oldBuffers'
      PROVE  /\ sent'[m].count = Len(oldBuffers'[sent'[m].id].nodes)
             /\ sent'[m].samples = Samples(oldBuffers'[sent'[m].id].nodes)
             /\ \A i \in sent'[m].open : oldBuffers'[sent'[m].id].nodes[i] \in filter'
  BY <1>1, <1>6, <1>9 DEF Contents
<1>10. \A b \in DOMAIN oldBuffers' : b <= bufferId'
  BY <1>1 DEF Listing
<1>11. QED
  BY <1>8, <1>9, <1>10 DEF Listing, Contents

\* Every step keeps entries, buffers and messages in agreement.
LEMMA ListingKept ==
    ASSUME LearningTypes, InPlace, FilterExact, Counting, Sending, Listing, [Next]_vars
    PROVE  Listing'
<1>1. ASSUME NEW t \in Ingress, NEW s \in Sample, AddSample(t, s) PROVE Listing'
  <2>1. /\ Grows(Append(buffer, s)) \/ Swaps(Append(buffer, s))
        /\ Quiet /\ UNCHANGED <<txMsg, sent, resets, upset>>
    BY <1>1, AddMoves
  <2>2. AllSent' <=> AllSent
    BY <2>1 DEF Quiet, AllSent, Current
  <2>3. Collects(Append(buffer, s))
    BY <1>1, AddCollects
  <2>4. QED
    BY <2>1, <2>2, <2>3, MoveLists
<1>2. ASSUME UNCHANGED acked, Grows(buffer) \/ Swaps(buffer), UNCHANGED <<sent, resets>>,
             Grows(buffer) => (AllSent' <=> AllSent), "stale" \in upset => "stale" \in upset'
      PROVE  Listing'
  <2>1. Collects(buffer)
    BY <1>2, StillCollects
  <2>2. QED
    BY <1>2, <2>1, MoveLists
<1>3. ASSUME NEW t \in Thread, SwapAfterWait(t) PROVE Listing'
  <2>1. /\ Grows(buffer) \/ Swaps(buffer)
        /\ Quiet /\ UNCHANGED <<acked, txMsg, sent, resets>>
        /\ upset' = upset \/ upset' = upset \union {"emptySwap"}
    BY <1>3, WaitMoves
  <2>2. AllSent' <=> AllSent
    BY <2>1 DEF Quiet, AllSent, Current
  <2>3. "stale" \in upset => "stale" \in upset'
    BY <2>1
  <2>4. QED
    BY <1>2, <2>1, <2>2, <2>3
<1>4. ASSUME NEW t \in Control, NEW m \in MaxSamples, SetMaxSamples(t, m) PROVE Listing'
  <2>1. /\ Grows(buffer) \/ Swaps(buffer)
        /\ Quiet /\ UNCHANGED <<acked, txMsg, sent, resets, upset>>
    BY <1>4, SetMoves
  <2>2. AllSent' <=> AllSent
    BY <2>1 DEF Quiet, AllSent, Current
  <2>3. QED
    BY <1>2, <2>1, <2>2
<1>5. CASE TxTake
  <2>1. /\ Grows(buffer) \/ Swaps(buffer)
        /\ tx = "run" /\ tx' = "header" /\ UNCHANGED <<acked, sent, resets, upset>>
    BY <1>5, TakeMoves
  <2>2. ~AllSent /\ ~AllSent'
    BY <2>1 DEF AllSent
  <2>3. QED
    BY <1>2, <2>1, <2>2
<1>6. ASSUME UNCHANGED <<buffers, acked, sent, resets>>, AllSent' <=> AllSent,
             "stale" \in upset => "stale" \in upset'
      PROVE  Listing'
  <2>1. Grows(buffer)
    BY <1>6 DEF buffers, Grows
  <2>2. QED
    BY <1>2, <1>6, <2>1
<1>7. CASE TxSleep \/ TimerFires \/ DeadlinePasses \/ TxHeader
  <2>1. \/ UNCHANGED <<buffers, acked, sent, resets, upset>> /\ ~AllSent' /\ ~AllSent
        \/ DeadlinePasses
    BY <1>7 DEF TxSleep, TimerFires, TxHeader, AllSent, history
  <2>2. DeadlinePasses => UNCHANGED <<buffers, acked, sent, resets, upset>> /\ (AllSent' <=> AllSent)
    BY DEF DeadlinePasses, AllSent, Current, history
  <2>3. QED
    BY <1>6, <2>1, <2>2
<1>8. CASE UNCHANGED vars
  BY <1>6, <1>8 DEF vars, history, AllSent, Current
<1>9. ASSUME NEW t \in Control, SetTimeout(t) \/ SetLearnWriter(t) PROVE Listing'
  <2>1. /\ UNCHANGED <<buffers, acked, sent, resets, tx, txMsg>>
        /\ "stale" \in upset => "stale" \in upset'
    BY <1>9 DEF SetTimeout, SetLearnWriter, history
  <2>2. AllSent' <=> AllSent
    BY <2>1 DEF AllSent, Current
  <2>3. QED
    BY <1>6, <2>1, <2>2
<1>10. ASSUME NEW t \in Control, ResetState(t) PROVE Listing'
  <2>1. /\ buffer' = <<>> /\ bufferTmp' = <<>> /\ bufferId' = 0 /\ oldBuffers' = <<>>
    BY <1>10 DEF ResetState
  <2>2. DOMAIN oldBuffers' = {}
    BY <2>1
  <2>3. QED
    BY <2>1, <2>2 DEF Listing
<1>11. CASE TxDone
  <2>1. /\ bufferTmp' = <<>> /\ UNCHANGED <<buffer, bufferId, acked, sent, resets, upset>>
    BY <1>11 DEF TxDone, history
  <2>2. QED
    BY <2>1 DEF Listing, Current, Contents, Held, acked
<1>12. ASSUME NEW m \in DOMAIN sent, AckBuffer(m) PROVE Listing'
  <2>1. /\ sent' = Closed(m, sent[m].open) /\ NoteAck(m, TRUE)
        /\ UNCHANGED <<buffers, tx, txMsg, resets>>
    BY <1>12 DEF AckBuffer
  <2>2. Thins(m, sent[m].open)
    BY <1>12, AckBufferThins
  <2>3. "stale" \notin upset' => "stale" \notin upset /\ Current(sent[m])
    BY <2>1, NotStale
  <2>4. QED
    BY <2>1, <2>2, <2>3, AckLists
<1>13. ASSUME NEW m \in DOMAIN sent, NEW ids \in SUBSET sent[m].open, Ack(m, ids) PROVE Listing'
  <2>1. /\ sent' = Closed(m, ids) /\ NoteAck(m, FALSE)
        /\ UNCHANGED <<buffers, tx, txMsg, resets>>
    BY <1>13 DEF Ack
  <2>2. Thins(m, ids)
    BY <1>13, AckThins
  <2>3. "stale" \notin upset' => "stale" \notin upset /\ Current(sent[m])
    BY <2>1, NotStale
  <2>4. QED
    BY <2>1, <2>2, <2>3, AckLists
<1>14. QED
  BY <1>1, <1>3, <1>4, <1>5, <1>7, <1>8, <1>9, <1>10, <1>11, <1>12, <1>13, SendLists DEF Next, Transmit

\* What is still open in a current message is listed and in the filter.
LEMMA OpenIsHeld ==
    ASSUME Sending, Listing, "stale" \notin upset, NEW m \in DOMAIN sent, Current(sent[m]),
           sent[m].id \in DOMAIN oldBuffers
    PROVE  LET nodes == oldBuffers[sent[m].id].nodes IN
           /\ DOMAIN sent[m].samples = DOMAIN nodes
           /\ sent[m].open \subseteq DOMAIN nodes
           /\ \A i \in sent[m].open : nodes[i] \in filter
<1>1. sent[m].samples = Samples(oldBuffers[sent[m].id].nodes)
  BY DEF Listing, Contents
<1>2. DOMAIN sent[m].samples = DOMAIN oldBuffers[sent[m].id].nodes
  BY <1>1 DEF Samples
<1>3. QED
  BY <1>2 DEF Listing, Sending

\* An acknowledgement meets only elements that are there.
LEMMA DanglingKept ==
    ASSUME LearningTypes, InPlace, FilterExact, Sending, Listing, Dangling, [Next]_vars
    PROVE  Dangling'
<1>1. ASSUME NEW m \in DOMAIN sent, AckBuffer(m), undefined', ~undefined
      PROVE  upset' \intersect {"mixed", "stale"} # {}
  <2> DEFINE nodes == oldBuffers[sent[m].id].nodes
  <2>1. sent[m].id \in DOMAIN oldBuffers /\ ~ Range(nodes) \subseteq filter
    BY <1>1, AckBufferReleases
  <2>2. NoteAck(m, TRUE)
    BY <1>1 DEF AckBuffer
  <2>3. SUFFICES ASSUME "stale" \notin upset' PROVE "mixed" \in upset'
    OBVIOUS
  <2>4. "stale" \notin upset /\ Current(sent[m])
    BY <2>2, <2>3, NotStale
  <2>5. /\ DOMAIN sent[m].samples = DOMAIN nodes
        /\ \A i \in sent[m].open : nodes[i] \in filter
    BY <2>1, <2>4, OpenIsHeld
  <2>6. sent[m].open # DOMAIN sent[m].samples
    BY <2>1, <2>5 DEF Range
  <2>7. QED
    BY <2>2, <2>6 DEF NoteAck
<1>2. ASSUME NEW m \in DOMAIN sent, NEW ids \in SUBSET sent[m].open, Ack(m, ids), undefined', ~undefined
      PROVE  upset' \intersect {"mixed", "stale"} # {}
  <2> DEFINE nodes == oldBuffers[sent[m].id].nodes
  <2>1. sent[m].id \in DOMAIN oldBuffers /\ ~(ids \subseteq DOMAIN nodes /\ \A i \in ids : nodes[i] \in filter)
    BY <1>2, AckReleases
  <2>2. NoteAck(m, FALSE)
    BY <1>2 DEF Ack
  <2>3. ASSUME "stale" \notin upset' PROVE FALSE
    <3>1. "stale" \notin upset /\ Current(sent[m])
      BY <2>2, <2>3, NotStale
    <3>2. sent[m].open \subseteq DOMAIN nodes /\ \A i \in sent[m].open : nodes[i] \in filter
      BY <2>1, <3>1, OpenIsHeld
    <3>3. QED
      BY <1>2, <2>1, <3>2
  <2>4. QED
    BY <2>3
<1>3. CASE UNCHANGED vars
  BY <1>3 DEF vars, Dangling, history
<1>4. CASE Next /\ ~undefined'
  BY <1>4 DEF Dangling
<1>5. CASE Next /\ undefined'
  <2>1. ~undefined
    BY <1>5 DEF Next
  <2>2. \/ \E m \in DOMAIN sent : AckBuffer(m) \/ \E ids \in SUBSET sent[m].open : Ack(m, ids)
        \/ undefined' = undefined
    BY <1>5 DEF Next, Transmit, AddSample, SwapAfterWait, TxSleep, TxTake, TxHeader, TxSend, TxDone,
                TimerFires, DeadlinePasses, SetTimeout, SetLearnWriter, ResetState, SetMaxSamples
  <2>3. QED
    BY <1>1, <1>2, <1>5, <2>1, <2>2 DEF Dangling
<1>6. QED
  BY <1>3, <1>4, <1>5

-----------------------------------------------------------------------------
\* The places an element can be kept in.
Kept(n) ==
    \/ n.buffer = bufferId
    \/ n.buffer = bufferId - 1 /\ bufferTmp # <<>> /\ tx # "sent"
    \/ \E m \in DOMAIN sent : Current(sent[m]) /\ sent[m].id = n.buffer /\ n.pos \in sent[m].open

\* An element of the current buffer, or of the full one, is where its entry
\* says it is.
LEMMA ItsPlace ==
    ASSUME FilterExact, Listing, "stale" \notin upset, NEW n \in filter
    PROVE  /\ n.buffer = bufferId => n.pos \in DOMAIN buffer /\ buffer[n.pos] = n.sample
           /\ n.buffer = bufferId - 1 /\ bufferTmp # <<>> =>
                  n.pos \in DOMAIN bufferTmp /\ bufferTmp[n.pos] = n.sample
<1> DEFINE nodes == oldBuffers[n.buffer].nodes
<1>1. n.buffer \in DOMAIN oldBuffers /\ n.pos \in DOMAIN nodes /\ nodes[n.pos] = n
  BY DEF FilterExact
<1>2. n.pos \in DOMAIN Samples(nodes) /\ Samples(nodes)[n.pos] = n.sample
  BY <1>1 DEF Samples
<1>3. /\ n.buffer = bufferId => Samples(nodes) = buffer
      /\ n.buffer = bufferId - 1 /\ bufferTmp # <<>> => Samples(nodes) = bufferTmp
  BY <1>1 DEF Listing, Contents
<1>4. QED
  BY <1>2, <1>3

\* A step that keeps or hands over the current buffer loses no element: a
\* buffer that is handed over with elements in it is not empty.
LEMMA MoveKeeps ==
    ASSUME LearningTypes, FilterExact, Sending, Listing, Keeping, ~undefined,
           NEW buf, Grows(buf) \/ Swaps(buf),
           \A n \in filter' : n \in filter \/ (n.buffer = bufferId /\ buf # <<>>),
           buffer # <<>> => buf # <<>>,
           UNCHANGED <<sent, resets>>,
           tx # "sent" => tx' # "sent",
           Busy' => (Busy /\ txMsg' = txMsg) \/ txMsg'.epoch = resets,
           upset' \intersect {"cut", "stale"} = {} => upset \intersect {"cut", "stale"} = {}
    PROVE  Keeping'
<1>1. SUFFICES ASSUME upset' \intersect {"cut", "stale"} = {}
      PROVE  (Busy' => Current(txMsg)') /\ \A n \in filter' : Kept(n)'
  BY DEF Keeping, Kept
<1>2. /\ "stale" \notin upset /\ (Busy => Current(txMsg))
      /\ \A n \in filter : Kept(n)
  BY <1>1 DEF Keeping, Kept
<1>3. Busy' => Current(txMsg)'
  BY <1>2 DEF Current
<1>4. ASSUME NEW n \in filter' PROVE Kept(n)'
  <2>1. CASE Grows(buf)
    <3>1. UNCHANGED <<bufferTmp, bufferId>>
      BY <2>1 DEF Grows
    <3>2. Kept(n)
      BY <1>2 DEF Kept
    <3>3. QED
      BY <3>1, <3>2 DEF Kept, Current
  <2>2. CASE Swaps(buf)
    <3>1. /\ bufferTmp = <<>> /\ bufferTmp' = buf /\ bufferId' = bufferId + 1
          /\ bufferId' - 1 = bufferId
      BY <2>2, Ids DEF Swaps, LearningTypes
    <3>2. tx' # "sent"
      BY <1>2, <3>1 DEF Sending, Busy
    <3>3. CASE n.buffer = bufferId
      <4>1. buf # <<>>
        <5>1. CASE n \in filter
          <6>1. n.pos \in DOMAIN buffer
            BY <1>2, <3>3, <5>1, ItsPlace
          <6>2. buffer # <<>>
            BY <6>1
          <6>3. QED
            BY <6>2
        <5>2. QED
          BY <5>1
      <4>2. QED
        BY <3>1, <3>2, <3>3, <4>1 DEF Kept
    <3>4. CASE n.buffer # bufferId
      <4>1. Kept(n)
        BY <1>2, <3>4
      <4>2. \E m \in DOMAIN sent : Current(sent[m]) /\ sent[m].id = n.buffer /\ n.pos \in sent[m].open
        BY <3>1, <3>4, <4>1 DEF Kept
      <4>3. QED
        BY <4>2 DEF Kept, Current
    <3>5. QED
      BY <3>3, <3>4
  <2>3. QED
    BY <2>1, <2>2
<1>5. QED
  BY <1>3, <1>4

\* The elements of the full buffer are open in the message it is sent in.
LEMMA SendKeeps ==
    ASSUME LearningTypes, FilterExact, Sending, Listing, Keeping, ~undefined, TxSend
    PROVE  Keeping'
<1> DEFINE msg == [epoch |-> txMsg.epoch, id |-> txMsg.id, count |-> txMsg.count,
                   samples |-> bufferTmp, open |-> DOMAIN bufferTmp]
           last == Len(sent) + 1
<1>1. /\ tx = "send" /\ tx' = "sent" /\ sent' = Append(sent, msg)
      /\ UNCHANGED <<bufferTmp, bufferId, txMsg, resets, filter, upset>>
  BY DEF TxSend, buffers, history, acked
<1>2. /\ msg.epoch = txMsg.epoch /\ msg.id = txMsg.id /\ msg.open = DOMAIN bufferTmp
  OBVIOUS
<1> HIDE DEF msg
<1>3. /\ DOMAIN sent' = DOMAIN sent \union {last} /\ sent'[last] = msg
      /\ \A m \in DOMAIN sent : sent'[m] = sent[m]
  BY <1>1 DEF LearningTypes
<1>4. Busy /\ Busy'
  BY <1>1 DEF Busy
<1>5. SUFFICES ASSUME upset' \intersect {"cut", "stale"} = {}
      PROVE  Current(txMsg)' /\ \A n \in filter' : Kept(n)'
  BY DEF Keeping, Kept
<1>6. /\ "stale" \notin upset /\ Current(txMsg) /\ \A n \in filter : Kept(n)
  BY <1>1, <1>4, <1>5 DEF Keeping, Kept
<1>7. bufferTmp # <<>> /\ txMsg.id = bufferId - 1
  BY <1>1, <1>4, <1>6 DEF Sending
<1>8. ASSUME NEW n \in filter PROVE Kept(n)'
  <2>1. CASE n.buffer = bufferId
    BY <1>1, <2>1 DEF Kept
  <2>2. CASE n.buffer = bufferId - 1
    <3>1. n.pos \in DOMAIN bufferTmp
      BY <1>6, <1>7, <2>2, ItsPlace
    <3>2. msg.epoch = resets' /\ msg.id = n.buffer /\ n.pos \in msg.open
      BY <1>1, <1>2, <1>6, <1>7, <2>2, <3>1 DEF Current
    <3>3. QED
      BY <1>3, <3>2 DEF Kept, Current
  <2>3. CASE \E m \in DOMAIN sent : Current(sent[m]) /\ sent[m].id = n.buffer /\ n.pos \in sent[m].open
    BY <1>1, <1>3, <2>3 DEF Kept, Current
  <2>4. QED
    BY <1>6, <2>1, <2>2, <2>3 DEF Kept
<1>9. QED
  BY <1>1, <1>6, <1>8 DEF Current

\* Elements whose acknowledgement came are not in the filter any more.
LEMMA AckKeeps ==
    ASSUME LearningTypes, Sending, Keeping, ~undefined, NEW m \in DOMAIN sent, NEW ids \in SUBSET sent[m].open,
           sent' = Closed(m, ids), UNCHANGED <<buffers, tx, txMsg, resets>>, upset \subseteq upset',
           filter' \subseteq filter,
           ~undefined' => \A n \in filter' : ~ (n.buffer = sent[m].id /\ n.pos \in ids)
    PROVE  Keeping'
<1>1. SUFFICES ASSUME upset' \intersect {"cut", "stale"} = {}
      PROVE  (Busy' => Current(txMsg)') /\ (~undefined' => \A n \in filter' : Kept(n)')
  BY DEF Keeping, Kept
<1>2. (Busy => Current(txMsg)) /\ \A n \in filter : Kept(n)
  BY <1>1 DEF Keeping, Kept
<1>3. Busy' => Current(txMsg)'
  BY <1>2 DEF Busy, Current
<1>4. ASSUME ~undefined', NEW n \in filter' PROVE Kept(n)'
  <2>1. UNCHANGED <<bufferId, bufferTmp, tx, resets>>
    BY DEF buffers
  <2>2. CASE n.buffer = bufferId \/ (n.buffer = bufferId - 1 /\ bufferTmp # <<>> /\ tx # "sent")
    BY <2>1, <2>2 DEF Kept
  <2>3. ASSUME NEW k \in DOMAIN sent, Current(sent[k]), sent[k].id = n.buffer, n.pos \in sent[k].open
        PROVE  Kept(n)'
    <3> DEFINE later == Closed(m, ids)
    <3>1. k # m \/ n.pos \notin ids
      BY <1>4, <2>3
    <3>2. k # m \/ ids # sent[m].open
      BY <2>3, <3>1
    <3>3. PICK j \in DOMAIN later : From(m, ids, j) = k
      BY <3>2, ClosedFacts
    <3> DEFINE h == From(m, ids, j)
    <3>4. /\ later[j].epoch = sent[h].epoch /\ later[j].id = sent[h].id
          /\ later[j].open = IF h = m THEN sent[h].open \ ids ELSE sent[h].open
      BY ClosedFacts
    <3> HIDE DEF later, h
    <3>5. h = k
      BY <3>3 DEF h
    <3>6. sent' = later
      BY DEF later
    <3>7. n.pos \in sent'[j].open
      BY <2>3, <3>1, <3>4, <3>6, <3>5
    <3>8. Current(sent[j])' /\ sent'[j].id = n.buffer
      BY <2>1, <2>3, <3>4, <3>6, <3>5 DEF Current
    <3>9. QED
      BY <3>3, <3>6, <3>7, <3>8 DEF Kept
  <2>4. Kept(n)
    BY <1>2
  <2>5. QED
    BY <2>2, <2>3, <2>4 DEF Kept
<1>5. QED
  BY <1>3, <1>4

\* Every step keeps the elements of the filter somewhere.
LEMMA KeepingKept ==
    ASSUME LearningTypes, InPlace, FilterExact, Counting, Sending, Listing, Keeping, [Next]_vars
    PROVE  Keeping'
<1>1. ASSUME NEW t \in Ingress, NEW s \in Sample, AddSample(t, s), ~undefined PROVE Keeping'
  <2>1. /\ Grows(Append(buffer, s)) \/ Swaps(Append(buffer, s))
        /\ Quiet /\ UNCHANGED <<txMsg, sent, resets, upset>>
    BY <1>1, AddMoves
  <2>2. /\ filter' = filter \union {NewNode(s)} /\ NewNode(s).buffer = bufferId
    BY <1>1, AddLists
  <2>3. Append(buffer, s) # <<>>
    BY AppendFacts DEF LearningTypes
  <2>4. (Busy' => Busy) /\ (tx # "sent" => tx' # "sent")
    BY <2>1 DEF Quiet, Busy
  <2>5. \A n \in filter' : n \in filter \/ (n.buffer = bufferId /\ Append(buffer, s) # <<>>)
    BY <2>2, <2>3
  <2> DEFINE buf == Append(buffer, s)
  <2> HIDE DEF buf
  <2>6. Grows(buf) \/ Swaps(buf)
    BY <2>1 DEF buf
  <2>7. buf # <<>> /\ \A n \in filter' : n \in filter \/ (n.buffer = bufferId /\ buf # <<>>)
    BY <2>3, <2>5 DEF buf
  <2>8. QED
    BY <1>1, <2>1, <2>4, <2>6, <2>7, MoveKeeps
<1>2. ASSUME ~undefined, Grows(buffer) \/ Swaps(buffer), UNCHANGED <<acked, sent, resets>>,
             tx # "sent" => tx' # "sent",
             Busy' => (Busy /\ txMsg' = txMsg) \/ txMsg'.epoch = resets, upset \subseteq upset'
      PROVE  Keeping'
  <2>1. \A n \in filter' : n \in filter
    BY <1>2 DEF acked
  <2>2. QED
    BY <1>2, <2>1, MoveKeeps
<1>3. ASSUME NEW t \in Thread, SwapAfterWait(t), ~undefined PROVE Keeping'
  <2>1. /\ Grows(buffer) \/ Swaps(buffer)
        /\ Quiet /\ UNCHANGED <<acked, txMsg, sent, resets>>
        /\ upset' = upset \/ upset' = upset \union {"emptySwap"}
    BY <1>3, WaitMoves
  <2>2. (Busy' => Busy) /\ (tx # "sent" => tx' # "sent")
    BY <2>1 DEF Quiet, Busy
  <2>3. upset \subseteq upset'
    BY <2>1
  <2>4. QED
    BY <1>2, <1>3, <2>1, <2>2, <2>3
<1>4. ASSUME NEW t \in Control, NEW m \in MaxSamples, SetMaxSamples(t, m), ~undefined PROVE Keeping'
  <2>1. /\ Grows(buffer) \/ Swaps(buffer)
        /\ Quiet /\ UNCHANGED <<acked, txMsg, sent, resets, upset>>
    BY <1>4, SetMoves
  <2>2. (Busy' => Busy) /\ (tx # "sent" => tx' # "sent")
    BY <2>1 DEF Quiet, Busy
  <2>3. QED
    BY <1>2, <1>4, <2>1, <2>2
<1>5. ASSUME TxTake, ~undefined PROVE Keeping'
  <2>1. /\ Grows(buffer) \/ Swaps(buffer)
        /\ tx = "run" /\ tx' = "header" /\ UNCHANGED <<acked, sent, resets, upset>>
        /\ txMsg' = [epoch |-> resets, count |-> Len(bufferTmp')]
    BY <1>5, TakeMoves
  <2>2. txMsg'.epoch = resets
    BY <2>1
  <2>3. QED
    BY <1>2, <1>5, <2>1, <2>2
<1>6. ASSUME TxHeader, ~undefined PROVE Keeping'
  <2>1. /\ tx = "header" /\ tx' = "send" /\ UNCHANGED <<buffers, acked, sent, resets, upset, undefined>>
        /\ txMsg'.epoch = txMsg.epoch
    BY <1>6 DEF TxHeader, history
  <2>2. Busy
    BY <2>1 DEF Busy
  <2>3. UNCHANGED <<bufferTmp, bufferId, filter>>
    BY <2>1 DEF buffers, acked
  <2>4. QED
    BY <1>6, <2>1, <2>2, <2>3 DEF Keeping, Current
<1>7. ASSUME UNCHANGED <<buffers, acked, sent, resets, txMsg>>, ~undefined, tx # "sent" => tx' # "sent",
             Busy' => Busy, upset \subseteq upset'
      PROVE  Keeping'
  <2>1. Grows(buffer)
    BY <1>7 DEF buffers, Grows
  <2>2. QED
    BY <1>2, <1>7, <2>1
<1>8. ASSUME TxSleep \/ TimerFires \/ DeadlinePasses, ~undefined PROVE Keeping'
  <2>1. UNCHANGED <<buffers, acked, sent, resets, txMsg, upset>>
    BY <1>8 DEF TxSleep, TimerFires, DeadlinePasses, history
  <2>2. (tx # "sent" => tx' # "sent") /\ (Busy' => Busy)
    BY <1>8 DEF TxSleep, TimerFires, DeadlinePasses, Busy
  <2>3. QED
    BY <1>7, <1>8, <2>1, <2>2
<1>9. ASSUME NEW t \in Control, SetTimeout(t) \/ SetLearnWriter(t), ~undefined PROVE Keeping'
  <2>1. UNCHANGED <<buffers, acked, sent, resets, txMsg, tx>> /\ upset \subseteq upset'
    BY <1>9 DEF SetTimeout, SetLearnWriter, history
  <2>2. Busy' => Busy
    BY <2>1 DEF Busy
  <2>3. QED
    BY <1>7, <1>9, <2>1, <2>2
<1>10. ASSUME NEW t \in Control, ResetState(t) PROVE Keeping'
  <2>1. /\ filter' = {} /\ tx' = tx /\ (Busy => "cut" \in upset')
    BY <1>10 DEF ResetState
  <2>2. QED
    BY <2>1 DEF Keeping, Busy
<1>11. ASSUME TxDone, ~undefined PROVE Keeping'
  <2>1. /\ tx = "sent" /\ tx' = "run" /\ UNCHANGED <<bufferId, filter, sent, resets, upset, undefined>>
    BY <1>11 DEF TxDone, history, acked
  <2>2. ~Busy'
    BY <2>1 DEF Busy
  <2>3. QED
    BY <1>11, <2>1, <2>2 DEF Keeping, Current
<1>12. ASSUME NEW m \in DOMAIN sent, AckBuffer(m), ~undefined PROVE Keeping'
  <2> DEFINE b == sent[m].id
  <2>1. /\ sent' = Closed(m, sent[m].open) /\ NoteAck(m, TRUE)
        /\ UNCHANGED <<buffers, tx, txMsg, resets>>
    BY <1>12 DEF AckBuffer
  <2>2. upset \subseteq upset'
    BY <2>1 DEF NoteAck
  <2>3. filter' \subseteq filter
    BY <1>12, AckBufferThins DEF Thins
  <2>4. ASSUME ~undefined', NEW n \in filter' PROVE n.buffer # b
    <3>1. CASE b \notin DOMAIN oldBuffers
      BY <2>3, <3>1 DEF FilterExact
    <3>2. CASE Releases(b, Of(filter, b))
      BY <2>4, <3>2 DEF Releases, Of
    <3>3. QED
      BY <1>12, <2>4, <3>1, <3>2, AckBufferReleases
  <2>5. QED
    BY <1>12, <2>1, <2>2, <2>3, <2>4, AckKeeps
<1>13. ASSUME NEW m \in DOMAIN sent, NEW ids \in SUBSET sent[m].open, Ack(m, ids), ~undefined PROVE Keeping'
  <2> DEFINE b == sent[m].id  nodes == oldBuffers[b].nodes  gone == {nodes[i] : i \in ids}
  <2>1. /\ sent' = Closed(m, ids) /\ NoteAck(m, FALSE)
        /\ UNCHANGED <<buffers, tx, txMsg, resets>>
    BY <1>13 DEF Ack
  <2>2. upset \subseteq upset'
    BY <2>1 DEF NoteAck
  <2>3. filter' \subseteq filter
    BY <1>13, AckThins DEF Thins
  <2>4. ASSUME ~undefined', NEW n \in filter', n.buffer = b, n.pos \in ids PROVE FALSE
    <3>1. n \in filter /\ b \in DOMAIN oldBuffers /\ nodes[n.pos] = n
      BY <2>3, <2>4 DEF FilterExact
    <3>2. n \in gone
      BY <2>4, <3>1
    <3>3. Releases(b, gone)
      BY <1>13, <2>4, <3>1, AckReleases
    <3>4. QED
      BY <2>4, <3>2, <3>3 DEF Releases
  <2>5. QED
    BY <1>13, <2>1, <2>2, <2>3, <2>4, AckKeeps
<1>14. CASE UNCHANGED vars
  BY <1>14 DEF vars, Keeping, buffers, acked, history, Busy, Current
<1>15. QED
  BY <1>1, <1>3, <1>4, <1>5, <1>6, <1>8, <1>9, <1>10, <1>11, <1>12, <1>13, <1>14, SendKeeps DEF Next, Transmit

-----------------------------------------------------------------------------
\* A new list has nothing in any of its structures.
LEMMA LearningStarts == Init => LearningInv
<1> SUFFICES ASSUME Init PROVE LearningInv
  OBVIOUS
<1>1. /\ buffer = <<>> /\ bufferTmp = <<>> /\ bufferId = 0 /\ filter = {} /\ oldBuffers = <<>>
      /\ at = [t \in Thread |-> "idle"] /\ tx = "run" /\ txMsg.epoch = 0 /\ sent = <<>>
      /\ resets = 0 /\ upset = {} /\ undefined = FALSE
  BY DEF Init
<1>2. DOMAIN oldBuffers = {} /\ DOMAIN sent = {} /\ ~Busy
  BY <1>1 DEF Busy
<1>3. LearningTypes
  <2>1. <<>> \in Seq(Sample) /\ <<>> \in Seq(Message)
    OBVIOUS
  <2>2. IsFiniteSet(filter)
    BY <1>1, FS_EmptySet
  <2>3. oldBuffers \in [DOMAIN oldBuffers -> Entry]
    <3>1. <<>> \in [{} -> Entry]
      OBVIOUS
    <3>2. QED
      BY <1>1, <1>2, <3>1
  <2>4. QED
    BY <1>1, <1>2, <2>1, <2>2, <2>3, Ids DEF LearningTypes
<1>4. InPlace /\ FilterExact
  BY <1>1, <1>2 DEF InPlace, FilterExact
<1>5. Counting
  BY <1>1, Ids DEF Counting
<1>6. Sending /\ Listing /\ Dangling /\ Keeping
  BY <1>1, <1>2 DEF Sending, Listing, Dangling, Keeping
<1>7. QED
  BY <1>3, <1>4, <1>5, <1>6 DEF LearningInv

\* The invariant the properties follow from, whatever the number of threads,
\* the samples and the settings of the list.
THEOREM LearningInvariant == Spec => []LearningInv
<1>1. LearningInv /\ [Next]_vars => LearningInv'
  <2> SUFFICES ASSUME LearningInv, [Next]_vars PROVE LearningInv'
    OBVIOUS
  <2>1. /\ LearningTypes /\ InPlace /\ FilterExact /\ Counting
        /\ Sending /\ Listing /\ Dangling /\ Keeping
    BY DEF LearningInv
  <2>2. LearningTypes'
    BY <2>1, NextTypes
  <2>3. InPlace' /\ FilterExact'
    BY <2>1, StructureKept
  <2>4. Counting'
    BY <2>1, <2>2, CountingKept
  <2>5. Sending'
    BY <2>1, SendingKept
  <2>6. Listing' /\ Dangling' /\ Keeping'
    BY <2>1, ListingKept, DanglingKept, KeepingKept
  <2>7. QED
    BY <2>2, <2>3, <2>4, <2>5, <2>6 DEF LearningInv
<1>2. QED
  BY <1>1, LearningStarts, PTL DEF Spec

\* LearnList::add_sample, ack, ack_buffer and reset_state keep the filter,
\* the lists of old_buffers and unacked_count in step.
THEOREM StructuresInStep == Spec => []FilterExact
<1>1. LearningInv => FilterExact
  BY DEF LearningInv
<1>2. QED
  BY <1>1, LearningInvariant, PTL

\* The message buffer_transmit builds without the mutex carries the id its
\* samples are listed under, and ids go out in order: with acks that are
\* neither stale nor of a buffer acknowledged in part, no iterator dangles.
THEOREM MessagesAreTheirBuffers == Spec => []MessageIsItsBuffer
<1>1. LearningInv => MessageIsItsBuffer
  BY DEF LearningInv, MessageIsItsBuffer, Sending, Listing, Dangling, Contents, Samples, Current
<1>2. QED
  BY <1>1, LearningInvariant, PTL

\* A sample that the filter holds back is in a buffer or can still be
\* acknowledged, unless a reset cut a message short.
THEOREM NothingIsForgotten == Spec => []NothingForgotten
<1>1. LearningInv => NothingForgotten
  <2> SUFFICES ASSUME LearningInv, upset \intersect {"cut", "stale"} = {}, ~undefined, NEW n \in filter
               PROVE  \/ n.sample \in Range(buffer)
                      \/ n.sample \in Range(bufferTmp)
                      \/ \E m \in DOMAIN sent : /\ sent[m].epoch = resets /\ sent[m].id = n.buffer
                                                /\ n.pos \in sent[m].open
    BY DEF NothingForgotten
  <2>1. Kept(n) /\ "stale" \notin upset /\ FilterExact /\ Listing
    BY DEF LearningInv, Keeping, Kept
  <2>2. CASE n.buffer = bufferId
    BY <2>1, <2>2, ItsPlace DEF Range
  <2>3. CASE n.buffer = bufferId - 1 /\ bufferTmp # <<>>
    BY <2>1, <2>3, ItsPlace DEF Range
  <2>4. QED
    BY <2>1, <2>2, <2>3 DEF Kept, Current
<1>2. QED
  BY <1>1, LearningInvariant, PTL
=============================================================================
