------------------------------ MODULE Learning ------------------------------
(***************************************************************************)
(* A learn list of the behavioral model (bm_sim/learning.cpp, LearnList):  *)
(* samples collected by the packet threads, sent in numbered buffers by a  *)
(* transmit thread, and kept in a filter until the controller acknowledges *)
(* them.  A section under the mutex is one step; the transmit thread works *)
(* without it between TxTake and TxDone.  A node is an element of the      *)
(* filter: its sample and the place it has in a buffer.                    *)
(***************************************************************************)
EXTENDS Integers, FiniteSets, SequencesExt

CONSTANTS Sample,      \* the contents a sample can have
          Ingress,     \* the threads that call add_sample
          Control,     \* the threads of the Thrift server
          MaxSamples,  \* the values set_max_samples may be given
          Timeouts,    \* whether a list is created with a timeout
          IdSpace,     \* buffer_id counts modulo this number (2^64)
          MaxId,       \* bound: no samples are added beyond this buffer
          MaxResets,   \* bound: calls of reset_state
          MaxTimeouts, \* bound: calls of set_timeout
          MaxUpset     \* bound: no more calls once so many things went wrong

ASSUME LearningAssumption ==
    /\ MaxSamples \subseteq Nat \ {0} /\ MaxSamples # {}
    /\ Timeouts \subseteq BOOLEAN /\ Timeouts # {}
    /\ MaxId \in Nat /\ MaxResets \in Nat /\ MaxTimeouts \in Nat /\ MaxUpset \in Nat
    /\ Ingress \intersect Control = {}
    /\ IsFiniteSet(Ingress \union Control)
    /\ IdSpace \in Nat /\ MaxId + 1 + Cardinality(Ingress \union Control) < IdSpace

VARIABLES maxSamples, withTimeout, late, \* late: now >= buffer_started + timeout
          buffer, bufferTmp, bufferId,   \* num_samples is Len(buffer)
          filter, oldBuffers,
          at, woken,                     \* threads in a wait, those of them notified
          tx, txMsg,                     \* the transmit thread and its message
          sent, resets, timeouts, upset, undefined

control == <<maxSamples, withTimeout>>
buffers == <<buffer, bufferTmp, bufferId>>
acked == <<filter, oldBuffers>>
thread == <<at, woken>>
history == <<resets, timeouts, upset>>
vars == <<control, late, buffers, acked, thread, tx, txMsg, sent, history, undefined>>

Thread == Ingress \union Control
Node == [sample : Sample, buffer : 0..IdSpace - 1, pos : Nat \ {0}]
Busy == tx \in {"header", "send", "sent"}          \* writer_busy

Init ==
    /\ maxSamples \in MaxSamples /\ withTimeout \in Timeouts /\ late = TRUE
    /\ buffer = <<>> /\ bufferTmp = <<>> /\ bufferId = 0
    /\ filter = {} /\ oldBuffers = <<>>
    /\ at = [t \in Thread |-> "idle"] /\ woken = {}
    /\ tx = "run" /\ txMsg = [epoch |-> 0] /\ sent = <<>>
    /\ resets = 0 /\ timeouts = 0 /\ upset = {} /\ undefined = FALSE

----------------------------------------------------------------------------
\* b_can_send.notify_one(): the transmit thread is the only one to wait there.
WakeNobody == UNCHANGED tx
WakeTransmit == tx' = IF tx \in {"wait", "timed"} THEN "run" ELSE tx

SwapBuffers ==
    /\ bufferTmp' = buffer /\ buffer' = bufferTmp
    /\ bufferId' = (bufferId + 1) % IdSpace

\* A second thread that was waiting too finds nothing left to swap.
NoteEmptySwap == upset' = IF buffer = <<>> THEN upset \union {"emptySwap"} ELSE upset

ProcessFullAtOnce(t, buf) ==
    /\ bufferTmp' = buf /\ buffer' = bufferTmp
    /\ bufferId' = (bufferId + 1) % IdSpace
    /\ WakeTransmit
    /\ UNCHANGED at

\* process_full_buffer, from the mutex being held to the wait or to the end.
ProcessFull(t, buf) ==
    IF bufferTmp # <<>>
    THEN /\ at' = [at EXCEPT ![t] = "swap"]
         /\ buffer' = buf /\ UNCHANGED <<bufferTmp, bufferId, tx>>
    ELSE /\ bufferTmp' = buf /\ buffer' = bufferTmp
         /\ bufferId' = (bufferId + 1) % IdSpace
         /\ WakeTransmit
         /\ UNCHANGED at

Unacked(b) == IF b \in DOMAIN oldBuffers THEN oldBuffers[b] ELSE [count |-> 0, nodes |-> <<>>]
Listed(b, entry) == [i \in DOMAIN oldBuffers \union {b} |-> IF i = b THEN entry ELSE oldBuffers[i]]
Unlisted(b) == [i \in DOMAIN oldBuffers \ {b} |-> oldBuffers[i]]

AddSample(t, s) ==
    /\ at[t] = "idle"
    /\ \A n \in filter : n.sample # s
    /\ bufferId <= MaxId
    /\ LET old == Unacked(bufferId)
           node == [sample |-> s, buffer |-> bufferId, pos |-> Len(old.nodes) + 1]
       IN  /\ filter' = filter \union {node}
           /\ oldBuffers' = Listed(bufferId, [count |-> old.count + 1, nodes |-> Append(old.nodes, node)])
    /\ \/ /\ buffer = <<>> /\ maxSamples > 1
          /\ buffer' = <<s>> /\ late' = FALSE /\ WakeTransmit
          /\ UNCHANGED <<bufferTmp, bufferId, at>>
       \/ /\ ~(buffer = <<>> /\ maxSamples > 1) /\ Len(buffer) + 1 >= maxSamples
          /\ ProcessFull(t, Append(buffer, s)) /\ UNCHANGED late
       \/ /\ buffer # <<>> /\ Len(buffer) + 1 < maxSamples
          /\ buffer' = Append(buffer, s)
          /\ UNCHANGED <<bufferTmp, bufferId, at, tx, late>>
    /\ UNCHANGED <<control, woken, txMsg, sent, history, undefined>>

\* The end of the wait in process_full_buffer: back to sleep if the other
\* buffer is in use again.
SwapAfterWait(t) ==
    /\ at[t] = "swap" /\ t \in woken
    /\ woken' = woken \ {t}
    /\ IF bufferTmp # <<>>
       THEN UNCHANGED <<buffers, at, tx, upset>>
       ELSE SwapBuffers /\ WakeTransmit /\ NoteEmptySwap /\ at' = [at EXCEPT ![t] = "idle"]
    /\ UNCHANGED <<control, late, acked, txMsg, sent, resets, timeouts, undefined>>

----------------------------------------------------------------------------
\* buffer_transmit: the condition of the wait, evaluated with the mutex held.
TimedOut == withTimeout /\ buffer # <<>> /\ late

TxSleep ==
    /\ tx = "run" /\ bufferTmp = <<>> /\ ~TimedOut
    /\ tx' = IF withTimeout /\ buffer # <<>> THEN "timed" ELSE "wait"
    /\ UNCHANGED <<control, late, buffers, acked, thread, txMsg, sent, history, undefined>>

\* Nobody looks at the time when there is no timeout or no sample.
DeadlinePasses ==
    /\ ~late /\ withTimeout /\ buffer # <<>>
    /\ late' = TRUE
    /\ UNCHANGED <<control, buffers, acked, thread, tx, txMsg, sent, history, undefined>>

TimerFires ==
    /\ tx = "timed" /\ tx' = "run"
    /\ UNCHANGED <<control, late, buffers, acked, thread, txMsg, sent, history, undefined>>

\* The samples to send are those of the full buffer, or the ones collected
\* so far.  num_samples_to_send and last_sent are fixed, the mutex released.
TxTake ==
    /\ tx = "run" /\ (bufferTmp # <<>> \/ TimedOut)
    /\ IF bufferTmp # <<>> THEN UNCHANGED buffers ELSE SwapBuffers
    /\ txMsg' = [epoch |-> resets, count |-> Len(bufferTmp')]
    /\ tx' = "header"
    /\ UNCHANGED <<control, late, acked, thread, sent, history, undefined>>

HeaderIdNow == bufferId
HeaderId == (bufferId + IdSpace - 1) % IdSpace

\* msg_hdr.buffer_id = buffer_id - 1, without the mutex.
TxHeader ==
    /\ tx = "header" /\ tx' = "send"
    /\ txMsg' = [epoch |-> txMsg.epoch, count |-> txMsg.count,
                 id |-> HeaderId]
    /\ UNCHANGED <<control, late, buffers, acked, thread, sent, history, undefined>>

\* send_msgs or the callback, given the contents of buffer_tmp; open is what
\* the controller has still to acknowledge.
TxSend ==
    /\ tx = "send" /\ tx' = "sent"
    /\ sent' = Append(sent, [epoch |-> txMsg.epoch, id |-> txMsg.id, count |-> txMsg.count,
                             samples |-> bufferTmp, open |-> DOMAIN bufferTmp])
    /\ UNCHANGED <<control, late, buffers, acked, thread, txMsg, history, undefined>>

\* can_change_writer.notify_all() and b_can_swap.notify_one().
TxDone ==
    /\ tx = "sent" /\ tx' = "run"
    /\ bufferTmp' = <<>> /\ txMsg' = [epoch |-> 0]
    /\ LET writers == {t \in Thread : at[t] = "writer"}
           asleep == {t \in Thread : at[t] = "swap"} \ woken
       IN  \/ asleep = {} /\ woken' = woken \union writers
           \/ \E t \in asleep : woken' = woken \union writers \union {t}
    /\ UNCHANGED <<control, late, buffer, bufferId, acked, at, sent, history, undefined>>

----------------------------------------------------------------------------
\* set_timeout: notifies nobody.
SetTimeout(t) ==
    /\ at[t] = "idle" /\ timeouts < MaxTimeouts
    /\ timeouts' = timeouts + 1
    /\ withTimeout' \in BOOLEAN
    /\ late' \in IF withTimeout' /\ buffer # <<>> THEN BOOLEAN ELSE {late}
    /\ upset' = IF withTimeout' /\ buffer # <<>> /\ tx = "wait"
                THEN upset \union {"timeout"} ELSE upset
    /\ UNCHANGED <<maxSamples, buffers, acked, thread, tx, txMsg, sent, resets, undefined>>

SetMaxSamples(t, m) ==
    /\ at[t] = "idle"
    /\ maxSamples' = m
    /\ IF buffer # <<>> /\ Len(buffer) >= m
       THEN ProcessFull(t, buffer)
       ELSE UNCHANGED <<buffers, at, tx>>
    /\ UNCHANGED <<withTimeout, late, acked, woken, txMsg, sent, history, undefined>>

\* set_learn_writer and set_learn_cb wait while the old writer is in use.
SetLearnWriter(t) ==
    /\ \/ at[t] = "idle" /\ UNCHANGED woken
       \/ at[t] = "writer" /\ t \in woken /\ woken' = woken \ {t}
    /\ at' = [at EXCEPT ![t] = IF Busy THEN "writer" ELSE "idle"]
    /\ UNCHANGED <<control, late, buffers, acked, tx, txMsg, sent, history, undefined>>

ResetState(t) ==
    /\ at[t] = "idle" /\ resets < MaxResets
    /\ buffer' = <<>> /\ bufferTmp' = <<>> /\ bufferId' = 0
    /\ filter' = {} /\ oldBuffers' = <<>>
    /\ resets' = resets + 1
    /\ upset' = IF Busy \/ bufferTmp # <<>> THEN upset \union {"cut"} ELSE upset
    /\ UNCHANGED <<control, late, thread, tx, txMsg, sent, timeouts, undefined>>

----------------------------------------------------------------------------
\* The controller has forgotten what it acknowledged.
Closed(m, ids) == IF ids = sent[m].open THEN RemoveAt(sent, m) ELSE [sent EXCEPT ![m].open = @ \ ids]

\* Erasing through an iterator whose element is gone, or past the end of the
\* list of them, is undefined: the model stops there.
NoteAck(m, whole) ==
    upset' = upset \union (IF sent[m].epoch # resets THEN {"stale"} ELSE {})
                   \union (IF whole /\ sent[m].open # DOMAIN sent[m].samples THEN {"mixed"} ELSE {})

\* unacked_count goes down with each sample; at 0 the buffer is forgotten.
ReleasedKept(b, n) == Listed(b, [oldBuffers[b] EXCEPT !.count = @ - n])
Released(b, n) ==
    IF oldBuffers[b].count = n THEN Unlisted(b) ELSE Listed(b, [oldBuffers[b] EXCEPT !.count = @ - n])

\* ack(buffer_id, sample_ids), the ids among those of message m not yet acked.
Ack(m, ids) ==
    LET b == sent[m].id
        old == oldBuffers[b]
        nodes == {old.nodes[i] : i \in ids}
    IN  /\ ids # {} /\ ids \subseteq sent[m].open
        /\ sent' = Closed(m, ids)
        /\ NoteAck(m, FALSE)
        /\ IF b \notin DOMAIN oldBuffers THEN UNCHANGED <<acked, undefined>>
           ELSE IF ids \subseteq DOMAIN old.nodes /\ nodes \subseteq filter
           THEN /\ filter' = filter \ nodes
                /\ oldBuffers' = Released(b, Cardinality(ids))
                /\ UNCHANGED undefined
           ELSE undefined' = TRUE /\ UNCHANGED acked
        /\ UNCHANGED <<control, late, buffers, thread, tx, txMsg, resets, timeouts>>

AckBuffer(m) ==
    LET b == sent[m].id
        nodes == {oldBuffers[b].nodes[i] : i \in DOMAIN oldBuffers[b].nodes}
    IN  /\ sent' = Closed(m, sent[m].open)
        /\ NoteAck(m, TRUE)
        /\ IF b \notin DOMAIN oldBuffers THEN UNCHANGED <<acked, undefined>>
           ELSE IF oldBuffers[b].count = Cardinality(filter)
           THEN filter' = {} /\ oldBuffers' = Unlisted(b) /\ UNCHANGED undefined
           ELSE IF nodes \subseteq filter
           THEN filter' = filter \ nodes /\ oldBuffers' = Unlisted(b) /\ UNCHANGED undefined
           ELSE undefined' = TRUE /\ UNCHANGED acked
        /\ UNCHANGED <<control, late, buffers, thread, tx, txMsg, resets, timeouts>>

----------------------------------------------------------------------------
Transmit == TxSleep \/ TxTake \/ TxHeader \/ TxSend \/ TxDone

Next ==
    /\ ~undefined
    /\ \/ \E t \in Ingress, s \in Sample : AddSample(t, s)
       \/ \E t \in Thread : SwapAfterWait(t)
       \/ Transmit \/ TimerFires \/ DeadlinePasses
       \/ /\ Cardinality(upset) < MaxUpset
          /\ \E t \in Control : SetTimeout(t) \/ SetLearnWriter(t) \/ ResetState(t)
       \/ /\ Cardinality(upset) < MaxUpset
          /\ \E t \in Control, m \in MaxSamples : SetMaxSamples(t, m)
       \/ \E m \in DOMAIN sent : AckBuffer(m) \/ \E ids \in SUBSET sent[m].open : Ack(m, ids)

Spec == Init /\ [][Next]_vars

\* A notified thread gets the mutex, the transmit thread runs, time passes;
\* nobody has to learn, to acknowledge or to call.
FairSpec ==
    /\ Spec
    /\ WF_vars(~undefined /\ Transmit)
    /\ WF_vars(~undefined /\ TimerFires) /\ WF_vars(~undefined /\ DeadlinePasses)
    /\ \A t \in Thread : WF_vars(~undefined /\ SwapAfterWait(t))
=============================================================================
