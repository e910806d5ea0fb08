-------------------------- MODULE TaskQueueProofs --------------------------
(***************************************************************************)
(* What the task queue guarantees for every set of tasks and consumers,    *)
(* every prefetch, every retry limit and every number of faults.           *)
(***************************************************************************)
EXTENDS TaskQueue, SequenceTheorems, TLAPS

-----------------------------------------------------------------------------
(***************************************************************************)
(* How the operations of a queue (publish, deliver, settle, requeue)       *)
(* change the set of messages it holds, for any set of messages.           *)
(***************************************************************************)
\* Publishing adds one message at the end.
LEMMA AppendFacts ==
  ASSUME NEW S, NEW s \in Seq(S), NEW e \in S
  PROVE  /\ Append(s, e) \in Seq(S)
         /\ Range(Append(s, e)) = Range(s) \cup {e}
         /\ Append(s, e) # <<>>
<1>1. Append(s, e) \in Seq(S) /\ Len(Append(s, e)) = Len(s) + 1
  OBVIOUS
<1>5. Append(s, e) # <<>>
  BY <1>1, EmptySeq
<1>2. DOMAIN Append(s, e) = DOMAIN s \cup {Len(s) + 1}
  OBVIOUS
<1>3. Append(s, e)[Len(s) + 1] = e
  OBVIOUS
<1>4. \A i \in DOMAIN s : Append(s, e)[i] = s[i]
  OBVIOUS
<1> QED
  BY <1>1, <1>2, <1>3, <1>4, <1>5 DEF Range

\* Delivering or settling takes the first message away.
LEMMA HeadTailFacts ==
  ASSUME NEW S, NEW s \in Seq(S), s # <<>>
  PROVE  /\ Head(s) \in S
         /\ Tail(s) \in Seq(S)
         /\ Range(s) = {Head(s)} \cup Range(Tail(s))
<1>1. Head(s) \in S /\ Tail(s) \in Seq(S)
  OBVIOUS
<1>2. Len(s) \in Nat /\ Len(s) >= 1 /\ DOMAIN s = 1..Len(s) /\ Head(s) = s[1]
  OBVIOUS
<1>3. DOMAIN Tail(s) = 1..(Len(s) - 1)
  OBVIOUS
<1>4. \A i \in 1..(Len(s) - 1) : Tail(s)[i] = s[i + 1]
  OBVIOUS
<1>5. ASSUME NEW x \in Range(s) PROVE x \in {Head(s)} \cup Range(Tail(s))
  <2>1. PICK i \in 1..Len(s) : x = s[i]
    BY <1>2, <1>5 DEF Range
  <2>2. CASE i = 1
    BY <2>1, <2>2, <1>2
  <2>3. CASE i # 1
    <3>1. i - 1 \in 1..(Len(s) - 1) /\ Tail(s)[i - 1] = s[i]
      BY <2>1, <2>3, <1>2, <1>4
    <3> QED
      BY <3>1, <2>1, <1>3 DEF Range
  <2> QED
    BY <2>2, <2>3
<1>6. ASSUME NEW x \in Range(Tail(s)) PROVE x \in Range(s)
  <2>1. PICK i \in 1..(Len(s) - 1) : x = Tail(s)[i]
    BY <1>3, <1>6 DEF Range
  <2>2. i + 1 \in 1..Len(s) /\ x = s[i + 1]
    BY <2>1, <1>2, <1>4
  <2> QED
    BY <2>2, <1>2 DEF Range
<1>7. Head(s) \in Range(s)
  BY <1>2 DEF Range
<1> QED
  BY <1>1, <1>5, <1>6, <1>7

\* A delivery appended to a nonempty window leaves its oldest entry alone.
LEMMA AppendHeadTail ==
  ASSUME NEW S, NEW s \in Seq(S), NEW e \in S, s # <<>>
  PROVE  /\ Head(Append(s, e)) = Head(s)
         /\ Tail(Append(s, e)) = Append(Tail(s), e)
OBVIOUS

\* Requeueing puts a window in front of the queue.
LEMMA ConcatFacts ==
  ASSUME NEW S, NEW s \in Seq(S), NEW t \in Seq(S)
  PROVE  /\ s \o t \in Seq(S)
         /\ Range(s \o t) = Range(s) \cup Range(t)
BY RangeConcatenation

\* An empty queue holds nothing.
LEMMA EmptyRange == Range(<<>>) = {}
BY DEF Range

\* A queue holds only messages of its type.
LEMMA RangeTyped ==
  ASSUME NEW S, NEW s \in Seq(S)
  PROVE  Range(s) \subseteq S
BY RangeOfSeq

-----------------------------------------------------------------------------
(***************************************************************************)
(* Messages.                                                               *)
(***************************************************************************)

\* What enqueue publishes is a message of the work queue.
LEMMA NewEnvelopeTyped ==
  ASSUME NEW j \in Jobs
  PROVE  NewEnvelope(j) \in Msg /\ NewEnvelope(j).job = j
BY QueueAssumption DEF NewEnvelope, Msg

\* A retry has the same task and one more attempt.
LEMMA RetriedTyped ==
  ASSUME NEW m \in Msg, m.attempts + 1 < MaxRetries
  PROVE  /\ Retried(m) \in Msg
         /\ Retried(m).job = m.job
         /\ Retried(m).attempts = m.attempts + 1
BY QueueAssumption DEF Retried, Msg

\* What _to_dlq publishes is a message of the dead-letter queue.
LEMMA DeadLetterTyped ==
  ASSUME NEW m \in Msg
  PROVE  DeadLetter(m) \in DeadMsg /\ DeadLetter(m).job = m.job
<1>1. m.job \in Jobs /\ m.attempts \in 0..MaxRetries /\ m.attempts + 1 \in 0..MaxRetries
  BY QueueAssumption DEF Msg
<1> QED
  BY <1>1 DEF DeadLetter, DeadMsg, Reasons

\* The parts of a message of the work queue.
LEMMA MsgFields ==
  ASSUME NEW m \in Msg
  PROVE  m.job \in Jobs /\ m.attempts \in Nat /\ m.attempts < MaxRetries
BY QueueAssumption DEF Msg

-----------------------------------------------------------------------------
(***************************************************************************)
(* The structure of the queue: types, what a process holds in each of its  *)
(* states, and the window of unacknowledged deliveries.  The three parts   *)
(* need each other: a requeue keeps the type of the work queue only        *)
(* because the window is not empty, and a retry stays below MaxRetries     *)
(* only because of the branch the worker took.                             *)
(***************************************************************************)
\* What a process has when it is not running, when its connection is gone, and
\* when it handles a delivery.
ProcessShape ==
  \A w \in Workers :
    /\ pc[w] = "off" => conn[w] = "lost" /\ buffer[w] = <<>>
    /\ conn[w] = "lost" => unacked[w] = <<>>
    /\ pc[w] \in Busy => cur[w] \in Msg
    /\ pc[w] = "retry" => cur[w].attempts + 1 < MaxRetries

Structure == TypeOK /\ ProcessShape /\ WindowMatches

\* Nothing runs and nothing is queued.
LEMMA StructureInit == Init => Structure
<1> SUFFICES ASSUME Init PROVE Structure
  OBVIOUS
<1> USE QueueAssumption DEF Init
<1>1. TypeOK
  BY DEF TypeOK
<1>2. ProcessShape
  BY DEF ProcessShape, Busy
<1>3. WindowMatches
  BY DEF WindowMatches
<1> QED
  BY <1>1, <1>2, <1>3 DEF Structure

\* Publishing from outside the consumers.
LEMMA StructureProducer ==
  ASSUME Structure, NEW j \in Jobs, Enqueue(j) \/ ForeignPublish(j)
  PROVE  Structure'
<1> USE QueueAssumption DEF Structure
<1>1. Append(ready, NewEnvelope(j)) \in Seq(Msg)
  BY NewEnvelopeTyped, AppendFacts DEF TypeOK
<1>2. UNCHANGED <<unacked, dlq, workerVars, historyVars, stops>>
  BY DEF Enqueue, EnqueueConfirmed, EnqueueFailed, EnqueueUnconfirmed,
         ForeignPublish, brokerVars
<1>3. dlqBound' \in BOOLEAN
  <2>1. dlqBound' = dlqBound \/ dlqBound' = TRUE
    BY DEF Enqueue, EnqueueConfirmed, EnqueueFailed, EnqueueUnconfirmed,
           EnsureChannel, ForeignPublish
  <2> QED
    BY <2>1, Zenon DEF TypeOK
<1>4. ready' \in {ready, Append(ready, NewEnvelope(j))}
  BY DEF Enqueue, EnqueueConfirmed, EnqueueFailed, EnqueueUnconfirmed,
         ForeignPublish, brokerVars
<1>5. producer' \in {"none", "open", "stale"} /\ faults' \in 0..MaxFaults
  BY DEF TypeOK, Enqueue, EnqueueConfirmed, EnqueueFailed, EnqueueUnconfirmed,
         ForeignPublish, Fault
<1>6. \E x \in {"true", "false", "unconfirmed", "foreign"} :
        result' = [result EXCEPT ![j] = x]
  BY DEF Enqueue, EnqueueConfirmed, EnqueueFailed, EnqueueUnconfirmed, ForeignPublish
<1>7. TypeOK'
  <2>1. ready' \in Seq(Msg) /\ producer' \in {"none", "open", "stale"}
    BY <1>1, <1>4, <1>5 DEF TypeOK
  <2>2. result' \in [Jobs -> {"new", "true", "false", "unconfirmed", "foreign"}]
    BY <1>6 DEF TypeOK
  <2>3. dlqBound' \in BOOLEAN
    BY <1>3
  <2> QED
    BY <1>2, <1>3, <1>5, <2>1, <2>2, <2>3 DEF TypeOK, workerVars, historyVars
<1>8. ProcessShape' /\ WindowMatches'
  BY <1>2 DEF ProcessShape, WindowMatches, workerVars
<1> QED
  BY <1>7, <1>8

\* The broker pushes a delivery: the same message joins the window and the
\* buffer, at the end of both.
LEMMA StructureDeliver ==
  ASSUME Structure, NEW w \in Workers, Deliver(w)
  PROVE  Structure'
<1> USE DEF Structure
<1> DEFINE m == Head(ready)
<1>1. m \in Msg /\ Tail(ready) \in Seq(Msg)
  BY HeadTailFacts DEF Deliver, TypeOK
<1>2. unacked[w] \in Seq(Msg) /\ buffer[w] \in Seq(Msg)
  BY DEF TypeOK
<1>3. Append(unacked[w], m) \in Seq(Msg) /\ Append(buffer[w], m) \in Seq(Msg)
  BY <1>1, <1>2, AppendFacts
<1>4. TypeOK'
  BY <1>1, <1>3 DEF Deliver, TypeOK, producerVars, historyVars
<1>5. ProcessShape'
  BY DEF Deliver, TypeOK, ProcessShape
<1>6. WindowMatches'
  <2>1. ASSUME unacked[w] # <<>>
        PROVE  /\ Head(Append(unacked[w], m)) = Head(unacked[w])
               /\ Tail(Append(unacked[w], m)) = Append(Tail(unacked[w]), m)
    BY <2>1, <1>1, <1>2, AppendHeadTail
  <2>2. Append(unacked[w], m) # <<>>
    BY <1>1, <1>2, AppendFacts
  <2> HIDE DEF m
  <2>3. /\ unacked' = [unacked EXCEPT ![w] = Append(unacked[w], m)]
        /\ buffer' = [buffer EXCEPT ![w] = Append(buffer[w], m)]
        /\ UNCHANGED <<pc, conn, cur>>
    BY DEF Deliver, m
  <2> QED
    BY <2>1, <2>2, <2>3 DEF TypeOK, WindowMatches
<1> QED
  BY <1>4, <1>5, <1>6

\* A consumer process ends, for whatever reason.
LEMMA StructureExit ==
  ASSUME Structure, NEW w \in Workers, NEW code \in {"clean", "failed"}, Exit(w, code),
         faults' \in 0..MaxFaults, stops' \in 0..MaxStops
  PROVE  Structure'
<1> USE DEF Structure, Exit, DropConnection, Requeued
<1>1. unacked[w] \o ready \in Seq(Msg)
  BY ConcatFacts DEF TypeOK
<1>2. <<>> \in Seq(Msg)
  BY EmptySeq
<1>3. TypeOK'
  BY <1>1, <1>2 DEF TypeOK, producerVars, historyVars
<1>4. ProcessShape'
  BY DEF TypeOK, ProcessShape, Busy
<1>5. WindowMatches'
  BY DEF TypeOK, WindowMatches
<1> QED
  BY <1>3, <1>4, <1>5

\* What happens around the consumers, and a consumer that starts.
LEMMA StructureEnvironment ==
  ASSUME Structure,
         \/ ProducerConnectionDies
         \/ DlqUnbound
         \/ \E w \in Workers : ConnectionLost(w) \/ Connect(w) \/ ConnectFails(w) \/ Stop(w)
  PROVE  Structure'
<1> USE QueueAssumption DEF Structure
<1>1. CASE ProducerConnectionDies
  BY <1>1 DEF ProducerConnectionDies, TypeOK, ProcessShape, WindowMatches,
              brokerVars, workerVars, historyVars
<1>2. CASE DlqUnbound
  <2>1. UNCHANGED <<ready, unacked, dlq, producerVars, workerVars, historyVars, stops>>
    BY <1>2 DEF DlqUnbound
  <2>2. faults' \in 0..MaxFaults
    BY <1>2 DEF DlqUnbound, Fault, TypeOK
  <2>3. dlqBound' \in BOOLEAN
    BY <1>2, Zenon DEF DlqUnbound
  <2>4. TypeOK'
    BY <2>1, <2>2, <2>3 DEF TypeOK, producerVars, workerVars, historyVars
  <2>5. ProcessShape' /\ WindowMatches'
    BY <2>1 DEF ProcessShape, WindowMatches, workerVars
  <2> QED
    BY <2>4, <2>5
<1>3. ASSUME NEW w \in Workers, ConnectionLost(w) PROVE Structure'
  <2> USE <1>3 DEF ConnectionLost, DropConnection, Requeued
  <2>1. unacked[w] \o ready \in Seq(Msg)
    BY ConcatFacts DEF TypeOK
  <2>2. TypeOK'
    BY <2>1, EmptySeq DEF TypeOK, Fault, producerVars, historyVars
  <2>3. ProcessShape' /\ WindowMatches'
    BY DEF TypeOK, ProcessShape, WindowMatches
  <2> QED
    BY <2>2, <2>3
<1>4. ASSUME NEW w \in Workers, Connect(w) PROVE Structure'
  <2>1. TypeOK'
    BY <1>4 DEF Connect, TypeOK, producerVars, historyVars
  <2>2. ProcessShape' /\ WindowMatches'
    BY <1>4 DEF Connect, TypeOK, ProcessShape, WindowMatches, Busy
  <2> QED
    BY <2>1, <2>2
<1>5. ASSUME NEW w \in Workers, ConnectFails(w) PROVE Structure'
  <2>1. UNCHANGED <<ready, unacked, dlq, producerVars, pc, conn, buffer, cur, stopping,
                    historyVars, stops>>
    BY <1>5 DEF ConnectFails
  <2>2. faults' \in 0..MaxFaults /\ exitcode' \in [Workers -> {"new", "clean", "failed"}]
    BY <1>5 DEF ConnectFails, Fault, TypeOK
  <2>3. dlqBound' \in BOOLEAN
    BY <1>5, Zenon DEF ConnectFails, TypeOK
  <2>4. TypeOK'
    BY <2>1, <2>2, <2>3 DEF TypeOK, producerVars, historyVars
  <2>5. ProcessShape' /\ WindowMatches'
    BY <2>1 DEF ProcessShape, WindowMatches
  <2> QED
    BY <2>4, <2>5
<1>6. ASSUME NEW w \in Workers, Stop(w) PROVE Structure'
  BY <1>6 DEF Stop, TypeOK, ProcessShape, WindowMatches,
              brokerVars, producerVars, historyVars
<1> QED
  BY <1>1, <1>2, <1>3, <1>4, <1>5, <1>6

\* A consumer moves to another point of _handle_delivery and touches nothing
\* but the history, the dead-letter queue, or the end of the work queue.
LEMMA StructureMove ==
  ASSUME Structure, NEW w \in Workers, pc[w] \in Busy,
         NEW label \in Busy, GoTo(w, label),
         label = "retry" => cur[w].attempts + 1 < MaxRetries,
         UNCHANGED <<unacked, dlqBound, producerVars, conn, buffer, cur, stopping,
                     exitcode, stops>>,
         ready' \in Seq(Msg), dlq' \subseteq DeadMsg, done' \subseteq Jobs,
         failures' \in [Jobs -> Nat], faults' \in 0..MaxFaults
  PROVE  Structure'
<1> USE DEF Structure, GoTo
<1>1. TypeOK'
  BY DEF TypeOK, producerVars
<1>2. ProcessShape'
  BY DEF TypeOK, ProcessShape, Busy
<1>3. WindowMatches'
  BY DEF TypeOK, WindowMatches, Busy
<1> QED
  BY <1>1, <1>2, <1>3

\* The same, when the connection breaks on the way.
LEMMA StructureMoveLost ==
  ASSUME Structure, NEW w \in Workers, pc[w] \in Busy,
         NEW label \in {"requeue", "reject"}, GoTo(w, label),
         NEW q \in Seq(Msg), DropConnection(w, q),
         UNCHANGED <<dlqBound, producerVars, buffer, cur, stopping, exitcode,
                     historyVars, stops>>,
         dlq' \subseteq DeadMsg, faults' \in 0..MaxFaults
  PROVE  Structure'
<1> USE DEF Structure, GoTo, DropConnection, Requeued
<1>1. unacked[w] \o q \in Seq(Msg)
  BY ConcatFacts DEF TypeOK
<1>2. TypeOK'
  BY <1>1, EmptySeq DEF TypeOK, producerVars, historyVars, Busy
<1>3. ProcessShape'
  BY DEF TypeOK, ProcessShape, Busy
<1>4. WindowMatches'
  BY DEF TypeOK, WindowMatches, Busy
<1> QED
  BY <1>2, <1>3, <1>4

\* A consumer takes the next delivery from its buffer.
LEMMA StructureBegin ==
  ASSUME Structure, NEW w \in Workers, BeginDelivery(w)
  PROVE  Structure'
<1> USE DEF Structure, BeginDelivery, NextDelivery
<1>1. Head(buffer[w]) \in Msg /\ Tail(buffer[w]) \in Seq(Msg)
  BY HeadTailFacts DEF TypeOK
<1>2. Dispatch(Head(buffer[w])) \in {"handler", "todlq"}
  BY DEF Dispatch
<1>3. TypeOK'
  BY <1>1, <1>2 DEF TypeOK, Busy, brokerVars, producerVars, historyVars
<1>4. ProcessShape'
  BY <1>1, <1>2 DEF TypeOK, ProcessShape, Busy, brokerVars
<1>5. WindowMatches'
  BY <1>1, <1>2 DEF TypeOK, WindowMatches, Busy, brokerVars
<1> QED
  BY <1>3, <1>4, <1>5

\* A handler returns or raises.
LEMMA StructureHandler ==
  ASSUME Structure, NEW w \in Workers, HandlerReturns(w) \/ HandlerRaises(w)
  PROVE  Structure'
<1>1. pc[w] \in Busy /\ cur[w] \in Msg /\ cur[w].job \in Jobs
  BY MsgFields DEF Structure, ProcessShape, Busy, HandlerReturns, HandlerRaises
<1>2. CASE HandlerReturns(w)
  <2>1. done' \subseteq Jobs
    BY <1>1, <1>2 DEF HandlerReturns, Structure, TypeOK
  <2>2. ready' \in Seq(Msg) /\ dlq' \subseteq DeadMsg /\ failures' \in [Jobs -> Nat]
         /\ faults' \in 0..MaxFaults
    BY <1>2 DEF HandlerReturns, Structure, TypeOK, brokerVars
  <2>3. UNCHANGED <<unacked, dlqBound, producerVars, conn, buffer, cur, stopping,
                    exitcode, stops>> /\ GoTo(w, "ack")
    BY <1>2 DEF HandlerReturns, brokerVars
  <2>4. "ack" \in Busy
    BY DEF Busy
  <2> QED
    BY <1>1, <2>1, <2>2, <2>3, <2>4, StructureMove
<1>3. CASE HandlerRaises(w)
  <2> DEFINE label == AfterFailure(cur[w])
  <2>1. failures' \in [Jobs -> Nat]
    BY <1>1, <1>3 DEF HandlerRaises, Structure, TypeOK
  <2>2. ready' \in Seq(Msg) /\ dlq' \subseteq DeadMsg /\ done' \subseteq Jobs
         /\ faults' \in 0..MaxFaults
    BY <1>3 DEF HandlerRaises, Structure, TypeOK, brokerVars
  <2>3. UNCHANGED <<unacked, dlqBound, producerVars, conn, buffer, cur, stopping,
                    exitcode, stops>> /\ GoTo(w, label)
    BY <1>3 DEF HandlerRaises, brokerVars
  <2>4. label \in Busy /\ (label = "retry" => cur[w].attempts + 1 < MaxRetries)
    BY <1>1, QueueAssumption, MsgFields DEF AfterFailure, Busy
  <2> HIDE DEF label
  <2> QED
    BY <1>1, <2>1, <2>2, <2>3, <2>4, StructureMove
<1> QED
  BY <1>2, <1>3

\* A retry is published, refused, or published without a confirm.
LEMMA StructureRepublish ==
  ASSUME Structure, NEW w \in Workers, Republish(w)
  PROVE  Structure'
<1> USE QueueAssumption
<1> DEFINE q == Append(ready, Retried(cur[w]))
<1>1. /\ pc[w] = "retry" /\ pc[w] \in Busy
      /\ cur[w] \in Msg /\ cur[w].attempts + 1 < MaxRetries
  BY DEF Structure, ProcessShape, Busy, Republish, RepublishConfirmed, RepublishFails,
         RepublishUnconfirmed
<1>2. q \in Seq(Msg) /\ ready \in Seq(Msg)
  BY <1>1, RetriedTyped, AppendFacts DEF Structure, TypeOK
<1>3. faults' \in 0..MaxFaults
  BY DEF Republish, RepublishConfirmed, RepublishFails, RepublishUnconfirmed, Fault,
         Structure, TypeOK
<1>4. CASE RepublishConfirmed(w)
  <2>1. /\ ready' = q /\ GoTo(w, "ack")
        /\ UNCHANGED <<unacked, dlq, dlqBound, producerVars, conn, buffer, cur,
                       stopping, exitcode, stops>>
        /\ UNCHANGED historyVars
    BY <1>4 DEF RepublishConfirmed
  <2>2. dlq' \subseteq DeadMsg /\ done' \subseteq Jobs /\ failures' \in [Jobs -> Nat]
    BY <2>1 DEF Structure, TypeOK, historyVars
  <2>3. "ack" \in Busy
    BY DEF Busy
  <2> HIDE DEF q
  <2> QED
    BY <1>1, <1>2, <1>3, <2>1, <2>2, <2>3, StructureMove
<1>5. CASE RepublishFails(w)
  <2>1. /\ GoTo(w, "requeue")
        /\ UNCHANGED <<ready, unacked, dlq, dlqBound, producerVars, conn, buffer, cur,
                       stopping, exitcode, stops>>
        /\ UNCHANGED historyVars
    BY <1>5 DEF RepublishFails, brokerVars
  <2>2. dlq' \subseteq DeadMsg /\ done' \subseteq Jobs /\ failures' \in [Jobs -> Nat]
    BY <2>1 DEF Structure, TypeOK, historyVars
  <2>3. "requeue" \in Busy
    BY DEF Busy
  <2> QED
    BY <1>1, <1>2, <1>3, <2>1, <2>2, <2>3, StructureMove
<1>6. CASE RepublishUnconfirmed(w)
  <2>1. /\ GoTo(w, "requeue") /\ DropConnection(w, q)
        /\ UNCHANGED <<dlq, dlqBound, producerVars, buffer, cur, stopping, exitcode,
                       historyVars, stops>>
    BY <1>6 DEF RepublishUnconfirmed
  <2>2. dlq' \subseteq DeadMsg
    BY <2>1 DEF Structure, TypeOK
  <2> HIDE DEF q
  <2> QED
    BY <1>1, <1>2, <1>3, <2>1, <2>2, StructureMoveLost
<1> QED
  BY <1>4, <1>5, <1>6 DEF Republish

\* A dead letter is published, refused, or published without a confirm.
LEMMA StructureToDlq ==
  ASSUME Structure, NEW w \in Workers, ToDlq(w)
  PROVE  Structure'
<1> USE QueueAssumption
<1>1. pc[w] \in Busy /\ cur[w] \in Msg
  BY DEF Structure, ProcessShape, Busy, ToDlq, ToDlqConfirmed, ToDlqFails, ToDlqUnconfirmed
<1>2. dlq' \subseteq DeadMsg
  <2>1. dlq' = dlq \/ dlq' = dlq \cup {DeadLetter(cur[w])}
    BY DEF ToDlq, ToDlqConfirmed, ToDlqFails, ToDlqUnconfirmed, brokerVars
  <2> QED
    BY <1>1, <2>1, DeadLetterTyped DEF Structure, TypeOK
<1>3. faults' \in 0..MaxFaults
  <2>1. faults' = faults \/ Fault
    BY DEF ToDlq, ToDlqConfirmed, ToDlqFails, ToDlqUnconfirmed
  <2> QED
    BY <2>1 DEF Fault, Structure, TypeOK
<1>4. UNCHANGED <<dlqBound, producerVars, buffer, cur, stopping, exitcode,
                  historyVars, stops>>
  BY DEF ToDlq, ToDlqConfirmed, ToDlqFails, ToDlqUnconfirmed, brokerVars
<1>5. ready \in Seq(Msg) /\ done' \subseteq Jobs /\ failures' \in [Jobs -> Nat]
  BY <1>4 DEF Structure, TypeOK, historyVars
<1>6. CASE ToDlqConfirmed(w) \/ ToDlqFails(w)
  <2>1. UNCHANGED <<ready, unacked, conn>>
    BY <1>6 DEF ToDlqConfirmed, ToDlqFails, brokerVars
  <2>2. PICK label \in {"ack", "reject"} : GoTo(w, label)
    BY <1>6 DEF ToDlqConfirmed, ToDlqFails
  <2>3. label \in Busy /\ label # "retry"
    BY DEF Busy
  <2> QED
    BY <1>1, <1>2, <1>3, <1>4, <1>5, <2>1, <2>2, <2>3, StructureMove
<1>7. CASE ToDlqUnconfirmed(w)
  <2>1. GoTo(w, "reject") /\ DropConnection(w, ready)
    BY <1>7 DEF ToDlqUnconfirmed
  <2> QED
    BY <1>1, <1>2, <1>3, <1>4, <1>5, <2>1, StructureMoveLost
<1> QED
  BY <1>6, <1>7 DEF ToDlq

\* An ack or nack settles the delivery in hand on an open connection, and
\* nothing on a lost one.
LEMMA StructureSettle ==
  ASSUME Structure, NEW w \in Workers, Ack(w) \/ NackRequeue(w) \/ NackReject(w)
  PROVE  Structure'
<1>1. pc[w] \in Busy /\ cur[w] \in Msg /\ EndDelivery(w) /\ UNCHANGED dlqBound
  BY DEF Structure, ProcessShape, Busy, Ack, NackRequeue, NackReject
<1>2. \/ conn[w] = "open" /\ Settled(w)
      \/ conn[w] = "lost" /\ UNCHANGED unacked
  BY DEF Ack, NackRequeue, NackReject
<1>3. ready' \in {ready, <<Head(unacked[w])>> \o ready}
  BY DEF Ack, NackRequeue, NackReject
<1>4. dlq' \in {dlq, dlq \cup {[job |-> cur[w].job, attempts |-> cur[w].attempts,
                                reason |-> "none"]}}
  BY DEF Ack, NackRequeue, NackReject
<1>5. /\ unacked[w] \in Seq(Msg) /\ buffer[w] \in Seq(Msg)
      /\ conn[w] = "open" => /\ unacked[w] # <<>>
                             /\ Head(unacked[w]) \in Msg
                             /\ Tail(unacked[w]) \in Seq(Msg)
                             /\ Tail(unacked[w]) = buffer[w]
  BY <1>1, HeadTailFacts DEF Structure, TypeOK, WindowMatches, Busy
<1>6. ready' \in Seq(Msg)
  <2>1. CASE ready' = ready
    BY <2>1 DEF Structure, TypeOK
  <2>2. CASE ready' # ready
    <3>1. NackRequeue(w) /\ conn[w] = "open"
      BY <2>2 DEF Ack, NackRequeue, NackReject
    <3>2. <<Head(unacked[w])>> \in Seq(Msg)
      BY <3>1, <1>5
    <3>3. <<Head(unacked[w])>> \o ready \in Seq(Msg)
      BY <3>2, ConcatFacts, Zenon DEF Structure, TypeOK
    <3> QED
      BY <1>3, <2>2, <3>3
  <2> QED
    BY <2>1, <2>2
<1>7. dlq' \subseteq DeadMsg
  <2>1. cur[w].job \in Jobs /\ cur[w].attempts \in 0..MaxRetries
    BY <1>1, QueueAssumption DEF Msg
  <2>2. [job |-> cur[w].job, attempts |-> cur[w].attempts, reason |-> "none"] \in DeadMsg
    BY <2>1 DEF DeadMsg, Reasons
  <2> QED
    BY <1>4, <2>2 DEF Structure, TypeOK
<1>8. TypeOK'
  BY <1>1, <1>2, <1>5, <1>6, <1>7
     DEF Structure, TypeOK, Settled, EndDelivery, GoTo, producerVars, historyVars
<1>9. ProcessShape'
  BY <1>1, <1>2 DEF Structure, TypeOK, ProcessShape, Settled, EndDelivery, GoTo, Busy
<1>10. WindowMatches'
  BY <1>1, <1>2, <1>5, ZenonT(40)
     DEF Structure, TypeOK, WindowMatches, Settled, EndDelivery, GoTo, Busy
<1> QED
  BY <1>8, <1>9, <1>10 DEF Structure

\* Every step keeps the structure.
LEMMA StructureStep ==
  ASSUME Structure, [Next]_vars
  PROVE  Structure'
<1>1. CASE UNCHANGED vars
  BY <1>1 DEF Structure, TypeOK, ProcessShape, WindowMatches, vars
<1>2. CASE \E j \in Jobs : Enqueue(j) \/ ForeignPublish(j)
  BY <1>2, StructureProducer
<1>3. CASE ProducerConnectionDies \/ DlqUnbound
  BY <1>3, StructureEnvironment
<1>4. ASSUME NEW w \in Workers,
             Connect(w) \/ ConnectFails(w) \/ ConnectionLost(w) \/ Stop(w)
      PROVE  Structure'
  BY <1>4, StructureEnvironment
<1>5. ASSUME NEW w \in Workers, Deliver(w) PROVE Structure'
  BY <1>5, StructureDeliver
<1>6. ASSUME NEW w \in Workers,
             \/ StopBetweenDeliveries(w) \/ Interrupt(w) \/ ConsumeError(w)
             \/ Crash(w) \/ EnvelopeError(w)
      PROVE  Structure'
  <2>1. PICK code \in {"clean", "failed"} : Exit(w, code)
    BY <1>6 DEF StopBetweenDeliveries, Interrupt, ConsumeError, Crash, EnvelopeError
  <2>2. (faults' = faults \/ Fault) /\ stops' = stops
    BY <1>6 DEF StopBetweenDeliveries, Interrupt, ConsumeError, Crash, EnvelopeError
  <2>3. faults' \in 0..MaxFaults /\ stops' \in 0..MaxStops
    BY <2>2, QueueAssumption DEF Structure, TypeOK, Fault
  <2> QED
    BY <2>1, <2>3, StructureExit
<1>7. ASSUME NEW w \in Workers, BeginDelivery(w) PROVE Structure'
  BY <1>7, StructureBegin
<1>8. ASSUME NEW w \in Workers, HandlerReturns(w) \/ HandlerRaises(w) PROVE Structure'
  BY <1>8, StructureHandler
<1>9. ASSUME NEW w \in Workers, Republish(w) PROVE Structure'
  BY <1>9, StructureRepublish
<1>10. ASSUME NEW w \in Workers, ToDlq(w) PROVE Structure'
  BY <1>10, StructureToDlq
<1>11. ASSUME NEW w \in Workers, Ack(w) \/ NackRequeue(w) \/ NackReject(w)
       PROVE  Structure'
  BY <1>11, StructureSettle
<1> QED
  BY <1>1, <1>2, <1>3, <1>4, <1>5, <1>6, <1>7, <1>8, <1>9, <1>10, <1>11
     DEF Next, WorkerStep

\* Types, process states and the acknowledgement window hold in every
\* reachable state.
THEOREM StructureInvariant == Spec => []Structure
<1>1. Init => Structure
  BY StructureInit
<1>2. Structure /\ [Next]_vars => Structure'
  BY StructureStep
<1> QED
  BY <1>1, <1>2, PTL DEF Spec

\* Every variable of the queue, the broker and the consumers keeps its type:
\* in particular no message on the work queue ever carries MaxRetries attempts
\* (the poison guard of _handle_delivery), and no queue receives a body that
\* is not a message.
THEOREM TypeCorrect == Spec => []TypeOK
<1>1. Structure => TypeOK
  BY DEF Structure
<1> QED
  BY <1>1, StructureInvariant, PTL

\* A delivery tag that a consumer acks or nacks on an open connection is the
\* tag of the delivery it has just handled, for every prefetch.
THEOREM AckSettlesWhatWasHandled == Spec => []WindowMatches
<1>1. Structure => WindowMatches
  BY DEF Structure
<1> QED
  BY <1>1, StructureInvariant, PTL

-----------------------------------------------------------------------------
(***************************************************************************)
(* The attempts counter.  DeadLetterJustified is about the last step of a  *)
(* long journey: the counter travels in copies of the message that are     *)
(* redelivered, requeued and duplicated, and only a history variable knows *)
(* how often the handler has raised.  Counted is the invariant that ties   *)
(* the two together at every place where a copy can be.                    *)
(***************************************************************************)
\* Every copy of a message: in the queue, in a window, in a process.
Circulating ==
  Range(ready) \cup (UNION {Range(unacked[w]) \cup Range(buffer[w]) : w \in Workers})
    \cup {cur[w] : w \in {v \in Workers : pc[v] \in Busy}}

\* A copy belongs to a task that entered the queue, and never claims more
\* attempts than its handler has made.
Tracked(m) == m.job \in Entered /\ failures[m.job] >= m.attempts

\* What a consumer knows of the delivery in hand, from the branches it took.
Standing(w) ==
  /\ Kind[cur[w].job] # "nonobject"
  /\ pc[w] = "retry" => failures[cur[w].job] > cur[w].attempts
  /\ pc[w] \in {"todlq", "reject"} /\ Kind[cur[w].job] = "registered" =>
       failures[cur[w].job] >= MaxRetries

Counted ==
  /\ \A m \in Circulating : Tracked(m)
  /\ \A w \in Workers : pc[w] \in Busy => Standing(w)
  /\ DeadLetterJustified

\* Where a copy can be.
LEMMA CirculatingIn ==
  ASSUME NEW m
  PROVE  m \in Circulating <=>
           \/ m \in Range(ready)
           \/ \E w \in Workers : m \in Range(unacked[w]) \/ m \in Range(buffer[w])
           \/ \E w \in Workers : pc[w] \in Busy /\ m = cur[w]
BY DEF Circulating

\* The same, after a step.
LEMMA CirculatingNext ==
  ASSUME NEW m
  PROVE  m \in Circulating' <=>
           \/ m \in Range(ready')
           \/ \E w \in Workers : m \in Range(unacked'[w]) \/ m \in Range(buffer'[w])
           \/ \E w \in Workers : pc'[w] \in Busy /\ m = cur'[w]
BY DEF Circulating

\* All copies are messages.
LEMMA CirculatingTyped == Structure => Circulating \subseteq Msg
<1> SUFFICES ASSUME Structure, NEW m \in Circulating PROVE m \in Msg
  OBVIOUS
<1>1. Range(ready) \subseteq Msg
  BY RangeTyped DEF Structure, TypeOK
<1>2. ASSUME NEW w \in Workers
      PROVE  /\ Range(unacked[w]) \subseteq Msg
             /\ Range(buffer[w]) \subseteq Msg
             /\ pc[w] \in Busy => cur[w] \in Msg
  BY RangeTyped DEF Structure, TypeOK, ProcessShape
<1> QED
  BY <1>1, <1>2, CirculatingIn

\* A step adds no copy but those of X when it adds none to any place.
LEMMA CirculatingIf ==
  ASSUME NEW X,
         Range(ready') \subseteq Circulating \cup X,
         \A w \in Workers :
           /\ Range(unacked'[w]) \subseteq Circulating \cup X
           /\ Range(buffer'[w]) \subseteq Circulating \cup X
           /\ pc'[w] \in Busy => cur'[w] \in Circulating \cup X
  PROVE  Circulating' \subseteq Circulating \cup X
<1> SUFFICES ASSUME NEW m \in Circulating' PROVE m \in Circulating \cup X
  OBVIOUS
<1> QED
  BY CirculatingNext

\* The counters only grow, so what a step leaves alone stays counted.
LEMMA CountedIf ==
  ASSUME Structure, Structure', Counted,
         Entered \subseteq Entered',
         \A j \in Jobs : failures'[j] >= failures[j],
         \A m \in Circulating' : m \in Circulating \/ Tracked(m)',
         \A w \in Workers : pc'[w] \in Busy =>
           (pc'[w] = pc[w] /\ cur'[w] = cur[w]) \/ Standing(w)',
         \A m \in dlq' : m \in dlq \/ m.reason # "max-retries"
                                   \/ failures'[m.job] >= MaxRetries
  PROVE  Counted'
<1>1. \A j \in Jobs : failures[j] \in Nat /\ failures'[j] \in Nat
  BY DEF Structure, TypeOK
<1>2. MaxRetries \in Nat
  BY QueueAssumption
<1>3. ASSUME NEW m \in Circulating' PROVE Tracked(m)'
  <2> SUFFICES ASSUME m \in Circulating PROVE Tracked(m)'
    BY <1>3
  <2>1. m \in Msg /\ m.job \in Jobs /\ m.attempts \in Nat
    BY CirculatingTyped, MsgFields
  <2>2. m.job \in Entered /\ failures[m.job] >= m.attempts
    BY DEF Counted, Tracked
  <2> QED
    BY <1>1, <2>1, <2>2 DEF Tracked
<1>4. ASSUME NEW w \in Workers, pc'[w] \in Busy PROVE Standing(w)'
  <2> SUFFICES ASSUME pc'[w] = pc[w], cur'[w] = cur[w] PROVE Standing(w)'
    BY <1>4
  <2>1. Standing(w) /\ cur[w] \in Msg
    BY <1>4 DEF Counted, Structure, ProcessShape
  <2>2. cur[w].job \in Jobs /\ cur[w].attempts \in Nat
    BY <2>1, MsgFields
  <2>3. PICK c \in Msg : c = cur[w] /\ c = cur'[w]
    BY <2>1
  <2>4. c.job \in Jobs /\ c.attempts \in Nat
    BY MsgFields
  <2>5. failures'[c.job] \in Nat /\ failures[c.job] \in Nat /\ failures'[c.job] >= failures[c.job]
    BY <1>1, <2>4
  <2> QED
    BY <1>2, <2>1, <2>3, <2>4, <2>5 DEF Standing
<1>5. DeadLetterJustified'
  <2> SUFFICES ASSUME NEW m \in dlq', m.reason = "max-retries"
               PROVE  failures'[m.job] >= MaxRetries
    BY DEF DeadLetterJustified
  <2>1. CASE m \in dlq
    <3>1. failures[m.job] >= MaxRetries /\ m.job \in Jobs
      BY <2>1 DEF Counted, DeadLetterJustified, Structure, TypeOK, DeadMsg
    <3> QED
      BY <1>1, <1>2, <3>1
  <2> QED
    BY <2>1
<1> QED
  BY <1>3, <1>4, <1>5 DEF Counted

-----------------------------------------------------------------------------
(***************************************************************************)
(* Which copies each kind of step makes.                                   *)
(***************************************************************************)
\* A copy is in one of its places.
LEMMA CirculatingParts ==
  /\ Range(ready) \subseteq Circulating
  /\ \A w \in Workers :
       /\ Range(unacked[w]) \subseteq Circulating
       /\ Range(buffer[w]) \subseteq Circulating
       /\ pc[w] \in Busy => cur[w] \in Circulating
<1>1. \A m : m \in Range(ready) => m \in Circulating
  BY CirculatingIn
<1>2. \A w \in Workers : \A m : m \in Range(unacked[w]) \/ m \in Range(buffer[w])
                                  => m \in Circulating
  BY CirculatingIn
<1> QED
  BY <1>1, <1>2, CirculatingIn

\* A publish makes one copy.
LEMMA CirculatingPublish ==
  ASSUME Structure, NEW n \in Msg, ready' = Append(ready, n),
         UNCHANGED <<unacked, buffer, cur>>,
         \A w \in Workers : pc'[w] \in Busy => pc[w] \in Busy
  PROVE  Circulating' \subseteq Circulating \cup {n}
<1>1. Range(ready') = Range(ready) \cup {n}
  BY AppendFacts DEF Structure, TypeOK
<1> QED
  BY <1>1, CirculatingParts, CirculatingIf

\* A delivery moves a copy.
LEMMA CirculatingDeliver ==
  ASSUME Structure, NEW w \in Workers, Deliver(w)
  PROVE  Circulating' \subseteq Circulating
<1>1. Head(ready) \in Msg /\ Range(ready) = {Head(ready)} \cup Range(Tail(ready))
  BY HeadTailFacts DEF Deliver, Structure, TypeOK
<1>2. /\ ready' = Tail(ready)
      /\ unacked'[w] = Append(unacked[w], Head(ready))
      /\ buffer'[w] = Append(buffer[w], Head(ready))
      /\ \A v \in Workers : v # w => unacked'[v] = unacked[v] /\ buffer'[v] = buffer[v]
      /\ UNCHANGED <<pc, cur>>
  BY DEF Deliver, Structure, TypeOK
<1>3. /\ Range(unacked'[w]) = Range(unacked[w]) \cup {Head(ready)}
      /\ Range(buffer'[w]) = Range(buffer[w]) \cup {Head(ready)}
  BY <1>1, <1>2, AppendFacts DEF Structure, TypeOK
<1> QED
  BY <1>1, <1>2, <1>3, CirculatingParts, CirculatingIf

\* A connection that ends moves its window, and makes the copies of q.
LEMMA CirculatingDrop ==
  ASSUME Structure, NEW w \in Workers, NEW q \in Seq(Msg), DropConnection(w, q),
         NEW X, Range(q) \subseteq Circulating \cup X,
         \A v \in Workers :
           /\ buffer'[v] = buffer[v] \/ buffer'[v] = <<>>
           /\ pc'[v] \in Busy => pc[v] \in Busy /\ cur'[v] = cur[v]
  PROVE  Circulating' \subseteq Circulating \cup X
<1>1. Range(ready') = Range(unacked[w]) \cup Range(q)
  BY ConcatFacts DEF DropConnection, Requeued, Structure, TypeOK
<1>2. \A v \in Workers : unacked'[v] = unacked[v] \/ unacked'[v] = <<>>
  BY DEF DropConnection, Structure, TypeOK
<1> QED
  BY <1>1, <1>2, EmptyRange, CirculatingParts, CirculatingIf

\* A consumer takes a copy from its buffer.
LEMMA CirculatingBegin ==
  ASSUME Structure, NEW w \in Workers, BeginDelivery(w)
  PROVE  Circulating' \subseteq Circulating /\ Head(buffer[w]) \in Circulating
<1>1. Head(buffer[w]) \in Msg /\ Range(buffer[w]) = {Head(buffer[w])} \cup Range(Tail(buffer[w]))
  BY HeadTailFacts DEF BeginDelivery, NextDelivery, Structure, TypeOK
<1>2. /\ UNCHANGED <<ready, unacked>>
      /\ buffer'[w] = Tail(buffer[w]) /\ cur'[w] = Head(buffer[w])
      /\ \A v \in Workers : v # w => buffer'[v] = buffer[v] /\ cur'[v] = cur[v] /\ pc'[v] = pc[v]
  BY DEF BeginDelivery, brokerVars, Structure, TypeOK
<1> QED
  BY <1>1, <1>2, CirculatingParts, CirculatingIf

\* A delivery that ends gives its copy up, or returns it to the queue.
LEMMA CirculatingSettle ==
  ASSUME Structure, NEW w \in Workers, pc[w] \in Busy, EndDelivery(w),
         Settled(w) \/ UNCHANGED unacked,
         conn[w] = "lost" => UNCHANGED unacked,
         \/ ready' = ready
         \/ conn[w] = "open" /\ ready' = <<Head(unacked[w])>> \o ready
  PROVE  Circulating' \subseteq Circulating
<1>1. /\ UNCHANGED buffer
      /\ \A v \in Workers : pc'[v] \in Busy => pc[v] \in Busy /\ cur'[v] = cur[v]
  BY DEF EndDelivery, GoTo, Busy, Structure, TypeOK
<1>2. ASSUME conn[w] = "open"
      PROVE  Head(unacked[w]) = cur[w] /\ unacked[w] # <<>> /\ cur[w] \in Msg
  BY <1>2 DEF Structure, WindowMatches, ProcessShape, Busy
<1>3. Range(ready') \subseteq Circulating
  <2>1. CASE ready' = ready
    BY <2>1, CirculatingParts
  <2>2. CASE conn[w] = "open" /\ ready' = <<Head(unacked[w])>> \o ready
    <3>1. PICK m \in Msg : m = cur[w]
      BY <1>2, <2>2
    <3> DEFINE t == <<m>>
    <3>2. t \in Seq(Msg) /\ Range(t) = {m} /\ ready' = t \o ready
      BY <1>2, <2>2, <3>1 DEF Range
    <3> HIDE DEF t
    <3>3. Range(ready') = {m} \cup Range(ready)
      BY <3>2, ConcatFacts DEF Structure, TypeOK
    <3> QED
      BY <3>1, <3>3, CirculatingParts
  <2> QED
    BY <2>1, <2>2
<1>4. \A v \in Workers : Range(unacked'[v]) \subseteq Circulating
  <2>1. CASE UNCHANGED unacked
    BY <2>1, CirculatingParts
  <2>2. CASE Settled(w) /\ conn[w] = "open"
    <3>1. Range(Tail(unacked[w])) \subseteq Range(unacked[w])
      BY <1>2, <2>2, HeadTailFacts DEF Structure, TypeOK
    <3>2. unacked'[w] = Tail(unacked[w]) /\ \A v \in Workers : v # w => unacked'[v] = unacked[v]
      BY <2>2 DEF Settled, Structure, TypeOK
    <3> QED
      BY <3>1, <3>2, CirculatingParts
  <2>3. conn[w] = "open" \/ conn[w] = "lost"
    BY DEF Structure, TypeOK
  <2> QED
    BY <2>1, <2>2, <2>3
<1> QED
  BY <1>1, <1>3, <1>4, CirculatingParts, CirculatingIf

-----------------------------------------------------------------------------
(***************************************************************************)
(* Every step keeps the counters honest.                                   *)
(***************************************************************************)
\* Steps that touch neither the history nor the dead-letter queue, and let no
\* consumer learn anything new.
LEMMA CountedQuiet ==
  ASSUME Structure, Structure', Counted, Circulating' \subseteq Circulating,
         UNCHANGED <<result, failures, dlq>>,
         \A w \in Workers : pc'[w] \in Busy =>
           (pc'[w] = pc[w] /\ cur'[w] = cur[w]) \/ Standing(w)'
  PROVE  Counted'
<1>1. Entered' = Entered
  BY DEF Entered
<1>2. \A j \in Jobs : failures'[j] >= failures[j]
  BY DEF Structure, TypeOK
<1> QED
  BY <1>1, <1>2, CountedIf

\* A task enters with no attempts.
LEMMA CountedProducer ==
  ASSUME Structure, Structure', Counted, NEW j \in Jobs, Enqueue(j) \/ ForeignPublish(j)
  PROVE  Counted'
<1>1. UNCHANGED <<unacked, dlq, pc, buffer, cur, failures>>
  BY DEF Enqueue, EnqueueConfirmed, EnqueueFailed, EnqueueUnconfirmed,
         ForeignPublish, brokerVars, workerVars, historyVars
<1>2. \A i \in Jobs : failures'[i] >= failures[i] /\ failures'[i] \in Nat
  BY <1>1 DEF Structure, TypeOK
<1>3. result[j] = "new" /\ \A i \in Jobs : i # j => result'[i] = result[i]
  BY DEF Enqueue, EnqueueConfirmed, EnqueueFailed, EnqueueUnconfirmed, Enqueueable,
         ForeignPublish, Structure, TypeOK
<1>4. Entered \subseteq Entered'
  BY <1>3 DEF Entered
<1>5. CASE EnqueueFailed(j)
  <2>1. ready' = ready
    BY <1>5 DEF EnqueueFailed, brokerVars
  <2>2. Circulating' \subseteq Circulating
    BY <1>1, <2>1 DEF Circulating
  <2> QED
    BY <1>1, <1>2, <1>4, <2>2, CountedIf
<1>6. CASE ~EnqueueFailed(j)
  <2>1. ready' = Append(ready, NewEnvelope(j))
    BY <1>6 DEF Enqueue, EnqueueConfirmed, EnqueueUnconfirmed, ForeignPublish
  <2>2. NewEnvelope(j) \in Msg /\ NewEnvelope(j).job = j /\ NewEnvelope(j).attempts = 0
    BY NewEnvelopeTyped DEF NewEnvelope
  <2>3. j \in Entered'
    BY <1>6 DEF Entered, Enqueue, EnqueueConfirmed, EnqueueUnconfirmed, ForeignPublish,
       Structure, TypeOK
  <2>4. Tracked(NewEnvelope(j))'
    <3>1. PICK n \in Msg : n = NewEnvelope(j)
      BY <2>2
    <3> QED
      BY <1>2, <2>2, <2>3, <3>1 DEF Tracked, NewEnvelope
  <2>5. Circulating' \subseteq Circulating \cup {NewEnvelope(j)}
    BY <1>1, <2>1, <2>2, CirculatingPublish
  <2>6. \A m \in Circulating' : m \in Circulating \/ Tracked(m)'
    BY <2>4, <2>5 DEF NewEnvelope
  <2> QED
    BY <1>1, <1>2, <1>4, <2>6, CountedIf
<1> QED
  BY <1>5, <1>6

\* The dispatch sends only tasks with a handler to the handler, and only bodies
\* nobody can use straight to the dead-letter queue.
LEMMA CountedBegin ==
  ASSUME Structure, Structure', Counted, NEW w \in Workers, BeginDelivery(w)
  PROVE  Counted'
<1>1. UNCHANGED <<result, failures, dlq>>
  BY DEF BeginDelivery, brokerVars, producerVars, historyVars
<1>2. /\ Kind[cur'[w].job] # "nonobject"
      /\ pc'[w] = "handler" \/ (pc'[w] = "todlq" /\ Kind[cur'[w].job] # "registered")
  BY DEF BeginDelivery, Dispatch, Structure, TypeOK
<1>3. Standing(w)'
  BY <1>2 DEF Standing
<1>4. \A v \in Workers : v # w => pc'[v] = pc[v] /\ cur'[v] = cur[v]
  BY DEF BeginDelivery, Structure, TypeOK
<1> QED
  BY <1>1, <1>3, <1>4, CirculatingBegin, CountedQuiet

\* The handler raises: the task has failed once more than its copy says.
LEMMA CountedRaises ==
  ASSUME Structure, Structure', Counted, NEW w \in Workers, HandlerRaises(w)
  PROVE  Counted'
<1>1. /\ UNCHANGED <<ready, unacked, buffer, cur, result, dlq>>
      /\ pc[w] = "handler" /\ pc[w] \in Busy /\ pc'[w] = AfterFailure(cur[w])
      /\ \A v \in Workers : v # w => pc'[v] = pc[v]
  BY DEF HandlerRaises, GoTo, brokerVars, producerVars, Structure, TypeOK, Busy
<1>2. PICK m \in Msg : m = cur[w] /\ m = cur'[w]
  BY <1>1 DEF Structure, ProcessShape
<1>3. m.job \in Jobs /\ m.attempts \in Nat /\ m.attempts < MaxRetries /\ MaxRetries \in Nat
  BY MsgFields, QueueAssumption
<1>4. failures' = [failures EXCEPT ![m.job] = @ + 1] /\ failures \in [Jobs -> Nat]
  BY <1>2 DEF HandlerRaises, Structure, TypeOK
<1>5. \A j \in Jobs : failures'[j] >= failures[j]
  BY <1>4
<1>6. Tracked(m) /\ Kind[m.job] # "nonobject"
  BY <1>1, <1>2, CirculatingParts DEF Counted, Standing
<1>7. failures'[m.job] >= m.attempts + 1 /\ failures'[m.job] \in Nat
  BY <1>3, <1>4, <1>6 DEF Tracked
<1>8. Standing(w)'
  <2>1. pc'[w] \in {"retry", "todlq"} /\ (pc'[w] = "todlq" => m.attempts + 1 >= MaxRetries)
    BY <1>1, <1>2 DEF AfterFailure
  <2>2. failures'[m.job] > m.attempts
    BY <1>3, <1>7
  <2>3. pc'[w] = "todlq" => failures'[m.job] >= MaxRetries
    BY <1>3, <1>7, <2>1
  <2> QED
    BY <1>2, <1>6, <2>1, <2>2, <2>3 DEF Standing
<1>9. Circulating' \subseteq Circulating
  <2>1. \A v \in Workers : pc'[v] \in Busy => pc[v] \in Busy
    BY <1>1
  <2> QED
    BY <1>1, <2>1, CirculatingParts, CirculatingIf
<1>10. Entered' = Entered
  BY <1>1 DEF Entered
<1> QED
  BY <1>1, <1>5, <1>8, <1>9, <1>10, CountedIf

\* A retry claims one attempt more, and the handler has made it.
LEMMA CountedRepublish ==
  ASSUME Structure, Structure', Counted, NEW w \in Workers, Republish(w)
  PROVE  Counted'
<1>1. /\ UNCHANGED <<buffer, cur, result, failures, dlq>>
      /\ pc[w] = "retry" /\ pc[w] \in Busy /\ pc'[w] \in {"ack", "requeue"}
      /\ \A v \in Workers : v # w => pc'[v] = pc[v]
  BY DEF Republish, RepublishConfirmed, RepublishFails, RepublishUnconfirmed, GoTo,
         brokerVars, producerVars, historyVars, Structure, TypeOK, Busy
<1>2. PICK m \in Msg : m = cur[w] /\ m = cur'[w]
  BY <1>1 DEF Structure, ProcessShape
<1>3. PICK n \in Msg : n = Retried(m) /\ n.job = m.job /\ n.attempts = m.attempts + 1
  <2>1. m.attempts + 1 < MaxRetries
    BY <1>1, <1>2 DEF Structure, ProcessShape
  <2> QED
    BY <2>1, RetriedTyped
<1>4. m \in Circulating /\ Standing(w)
  BY <1>1, <1>2, CirculatingParts DEF Counted
<1>5. Entered' = Entered /\ \A j \in Jobs : failures'[j] >= failures[j] /\ failures[j] \in Nat
  BY <1>1 DEF Entered, Structure, TypeOK
<1>6. Tracked(n)'
  <2>1. m.job \in Jobs /\ m.attempts \in Nat
    BY MsgFields
  <2>2. failures[m.job] > m.attempts /\ m.job \in Entered
    BY <1>1, <1>2, <1>4 DEF Standing, Counted, Tracked
  <2> QED
    BY <1>1, <1>3, <1>5, <2>1, <2>2 DEF Tracked
<1>7. Standing(w)'
  BY <1>1, <1>2, <1>4 DEF Standing
<1>8. Circulating' \subseteq Circulating \cup {n}
  <2>1. CASE RepublishConfirmed(w)
    BY <1>1, <1>2, <1>3, <2>1, CirculatingPublish DEF RepublishConfirmed
  <2>2. CASE RepublishFails(w)
    <3>1. UNCHANGED <<ready, unacked>>
      BY <2>2 DEF RepublishFails, brokerVars
    <3> QED
      BY <1>1, <3>1, CirculatingParts, CirculatingIf
  <2>3. CASE RepublishUnconfirmed(w)
    <3>1. DropConnection(w, Append(ready, n))
      BY <1>2, <1>3, <2>3 DEF RepublishUnconfirmed
    <3>2. Append(ready, n) \in Seq(Msg) /\ Range(Append(ready, n)) = Range(ready) \cup {n}
      BY AppendFacts DEF Structure, TypeOK
    <3>3. Range(Append(ready, n)) \subseteq Circulating \cup {n}
      BY <3>2, CirculatingParts
    <3> QED
      BY <1>1, <3>1, <3>2, <3>3, CirculatingDrop
  <2> QED
    BY <2>1, <2>2, <2>3 DEF Republish
<1>9. \A k \in Circulating' : k \in Circulating \/ Tracked(k)'
  BY <1>6, <1>8
<1> QED
  BY <1>1, <1>5, <1>7, <1>9, CountedIf

\* A message is dead-lettered for max-retries only from the branch that has
\* counted to MaxRetries.
LEMMA CountedToDlq ==
  ASSUME Structure, Structure', Counted, NEW w \in Workers, ToDlq(w)
  PROVE  Counted'
<1>1. /\ UNCHANGED <<buffer, cur, result, failures>>
      /\ pc[w] = "todlq" /\ pc[w] \in Busy /\ pc'[w] \in {"ack", "reject"}
      /\ \A v \in Workers : v # w => pc'[v] = pc[v]
      /\ dlq' = dlq \/ dlq' = dlq \cup {DeadLetter(cur[w])}
  BY DEF ToDlq, ToDlqConfirmed, ToDlqFails, ToDlqUnconfirmed, GoTo,
         brokerVars, producerVars, historyVars, Structure, TypeOK, Busy
<1>2. PICK m \in Msg : m = cur[w] /\ m = cur'[w]
  BY <1>1 DEF Structure, ProcessShape
<1>3. /\ Kind[m.job] # "nonobject"
      /\ Kind[m.job] = "registered" => failures[m.job] >= MaxRetries
  BY <1>1, <1>2 DEF Counted, Standing
<1>4. Entered' = Entered /\ \A j \in Jobs : failures'[j] >= failures[j]
  BY <1>1 DEF Entered, Structure, TypeOK
<1>5. Standing(w)'
  BY <1>1, <1>2, <1>3 DEF Standing
<1>6. ASSUME NEW d \in dlq'
      PROVE  d \in dlq \/ d.reason # "max-retries" \/ failures'[d.job] >= MaxRetries
  <2>1. d \in dlq \/ d = DeadLetter(m)
    BY <1>1, <1>2
  <2>2. Kind[m.job] \in Kinds
    BY MsgFields, QueueAssumption
  <2> QED
    BY <1>1, <1>3, <2>1, <2>2 DEF DeadLetter, Kinds
<1>7. Circulating' \subseteq Circulating
  <2>1. CASE ToDlqConfirmed(w) \/ ToDlqFails(w)
    <3>1. UNCHANGED <<ready, unacked>>
      BY <2>1 DEF ToDlqConfirmed, ToDlqFails, brokerVars
    <3> QED
      BY <1>1, <3>1, CirculatingParts, CirculatingIf
  <2>2. CASE ToDlqUnconfirmed(w)
    <3>1. DropConnection(w, ready) /\ ready \in Seq(Msg)
      BY <2>2 DEF ToDlqUnconfirmed, Structure, TypeOK
    <3> DEFINE none == {}
    <3>2. Range(ready) \subseteq Circulating \cup none
      BY CirculatingParts
    <3>3. Circulating' \subseteq Circulating \cup none
      <4> HIDE DEF none
      <4> QED
        BY <1>1, <3>1, <3>2, CirculatingDrop
    <3> QED
      BY <3>3
  <2> QED
    BY <2>1, <2>2 DEF ToDlq
<1> QED
  BY <1>1, <1>4, <1>5, <1>6, <1>7, CountedIf

\* The broker's own dead letters carry no reason.
LEMMA CountedSettle ==
  ASSUME Structure, Structure', Counted, NEW w \in Workers,
         Ack(w) \/ NackRequeue(w) \/ NackReject(w)
  PROVE  Counted'
<1>1. pc[w] \in Busy /\ EndDelivery(w)
  BY DEF Busy, Ack, NackRequeue, NackReject
<1>2. /\ UNCHANGED <<result, failures>>
      /\ \A v \in Workers : pc'[v] \in Busy => pc'[v] = pc[v] /\ cur'[v] = cur[v]
  BY <1>1 DEF EndDelivery, GoTo, producerVars, historyVars, Busy, Structure, TypeOK
<1>3. Circulating' \subseteq Circulating
  <2>1. /\ Settled(w) \/ UNCHANGED unacked
        /\ conn[w] = "lost" => UNCHANGED unacked
        /\ \/ ready' = ready
           \/ conn[w] = "open" /\ ready' = <<Head(unacked[w])>> \o ready
    BY DEF Ack, NackRequeue, NackReject, Structure, TypeOK
  <2> QED
    BY <1>1, <2>1, CirculatingSettle
<1>4. \A d \in dlq' : d \in dlq \/ d.reason # "max-retries"
  BY DEF Ack, NackRequeue, NackReject
<1>5. Entered' = Entered /\ \A j \in Jobs : failures'[j] >= failures[j]
  BY <1>2 DEF Entered, Structure, TypeOK
<1> QED
  BY <1>2, <1>3, <1>4, <1>5, CountedIf

\* A process that ends, and a connection that breaks under it.
LEMMA CountedDrop ==
  ASSUME Structure, Structure', Counted, NEW w \in Workers,
         ConnectionLost(w) \/ \E code \in {"clean", "failed"} : Exit(w, code)
  PROVE  Counted'
<1>1. /\ UNCHANGED <<result, failures, dlq>>
      /\ DropConnection(w, ready) /\ ready \in Seq(Msg)
      /\ \A v \in Workers :
           /\ buffer'[v] = buffer[v] \/ buffer'[v] = <<>>
           /\ pc'[v] \in Busy => pc'[v] = pc[v] /\ cur'[v] = cur[v]
  <2>1. /\ UNCHANGED <<result, failures, dlq>>
        /\ DropConnection(w, ready)
    BY DEF ConnectionLost, Exit, producerVars, historyVars
  <2>2. /\ buffer \in [Workers -> Seq(Msg)] /\ cur \in [Workers -> Msg \cup {NoMsg}]
        /\ pc \in [Workers -> {"off", "idle"} \cup Busy] /\ ready \in Seq(Msg)
    BY DEF Structure, TypeOK, Busy
  <2>3. CASE ConnectionLost(w)
    BY <2>1, <2>2, <2>3 DEF ConnectionLost
  <2>4. ASSUME NEW code \in {"clean", "failed"}, Exit(w, code)
        PROVE  \A v \in Workers :
                 /\ buffer'[v] = buffer[v] \/ buffer'[v] = <<>>
                 /\ pc'[v] \in Busy => pc'[v] = pc[v] /\ cur'[v] = cur[v]
    BY <2>2, <2>4 DEF Exit, Busy
  <2> QED
    BY <2>1, <2>2, <2>3, <2>4
<1> DEFINE none == {}
<1>2. Range(ready) \subseteq Circulating \cup none
  BY CirculatingParts
<1>3. Circulating' \subseteq Circulating \cup none
  <2> HIDE DEF none
  <2> QED
    BY <1>1, <1>2, CirculatingDrop
<1> QED
  BY <1>1, <1>3, CountedQuiet

\* Every step keeps the counters honest.
LEMMA CountedStep ==
  ASSUME Structure, Structure', Counted, [Next]_vars
  PROVE  Counted'
<1>1. CASE UNCHANGED vars
  <2>1. Circulating' = Circulating
    BY <1>1 DEF Circulating, vars
  <2> QED
    BY <1>1, <2>1, CountedQuiet DEF vars
<1>2. CASE \E j \in Jobs : Enqueue(j) \/ ForeignPublish(j)
  BY <1>2, CountedProducer
<1>3. CASE ProducerConnectionDies \/ DlqUnbound
  <2>1. UNCHANGED <<ready, unacked, buffer, cur, pc, result, failures, dlq>>
    BY <1>3 DEF ProducerConnectionDies, DlqUnbound, brokerVars, producerVars, workerVars,
       historyVars
  <2>2. Circulating' = Circulating
    BY <2>1 DEF Circulating
  <2> QED
    BY <2>1, <2>2, CountedQuiet
<1>4. ASSUME NEW w \in Workers, Connect(w) \/ ConnectFails(w) \/ Stop(w)
      PROVE  Counted'
  <2>1. /\ UNCHANGED <<ready, unacked, buffer, cur, result, failures, dlq>>
        /\ \A v \in Workers : pc'[v] \in Busy => pc'[v] = pc[v]
    <3>1. UNCHANGED <<ready, unacked, buffer, cur, result, failures, dlq>>
      BY <1>4 DEF Connect, ConnectFails, Stop, brokerVars, producerVars, historyVars
    <3>2. UNCHANGED pc \/ pc' = [pc EXCEPT ![w] = "idle"]
      BY <1>4 DEF Connect, ConnectFails, Stop
    <3> QED
      BY <3>1, <3>2 DEF Structure, TypeOK, Busy
  <2>2. Circulating' \subseteq Circulating
    BY <2>1, CirculatingParts, CirculatingIf
  <2> QED
    BY <2>1, <2>2, CountedQuiet
<1>5. ASSUME NEW w \in Workers, Deliver(w) PROVE Counted'
  <2>1. UNCHANGED <<pc, cur, result, failures, dlq>>
    BY <1>5 DEF Deliver, producerVars, historyVars
  <2> QED
    BY <1>5, <2>1, CirculatingDeliver, CountedQuiet
<1>6. ASSUME NEW w \in Workers,
             \/ ConnectionLost(w) \/ StopBetweenDeliveries(w) \/ Interrupt(w)
             \/ ConsumeError(w) \/ Crash(w) \/ EnvelopeError(w)
      PROVE  Counted'
  BY <1>6, CountedDrop DEF StopBetweenDeliveries, Interrupt, ConsumeError, Crash,
     EnvelopeError
<1>7. ASSUME NEW w \in Workers, HandlerReturns(w) PROVE Counted'
  <2>1. /\ UNCHANGED <<ready, unacked, buffer, cur, result, failures, dlq>>
        /\ pc[w] = "handler" /\ pc'[w] = "ack"
        /\ \A v \in Workers : v # w => pc'[v] = pc[v]
    BY <1>7 DEF HandlerReturns, GoTo, brokerVars, producerVars, Structure, TypeOK
  <2>2. \A v \in Workers : pc'[v] \in Busy => pc[v] \in Busy
    BY <2>1 DEF Busy
  <2>3. Circulating' \subseteq Circulating
    BY <2>1, <2>2, CirculatingParts, CirculatingIf
  <2>4. Standing(w)'
    <3>1. Standing(w)
      BY <2>1 DEF Counted, Busy
    <3> QED
      BY <2>1, <3>1 DEF Standing
  <2> QED
    BY <2>1, <2>3, <2>4, CountedQuiet
<1>8. ASSUME NEW w \in Workers, BeginDelivery(w) \/ HandlerRaises(w) PROVE Counted'
  BY <1>8, CountedBegin, CountedRaises
<1>9. ASSUME NEW w \in Workers, Republish(w) \/ ToDlq(w) PROVE Counted'
  BY <1>9, CountedRepublish, CountedToDlq
<1>10. ASSUME NEW w \in Workers, Ack(w) \/ NackRequeue(w) \/ NackReject(w)
       PROVE  Counted'
  BY <1>10, CountedSettle
<1> QED
  BY <1>1, <1>2, <1>3, <1>4, <1>5, <1>6, <1>7, <1>8, <1>9, <1>10 DEF Next, WorkerStep

\* Nothing circulates.
LEMMA CountedInit == Init => Counted
<1> SUFFICES ASSUME Init PROVE Counted
  OBVIOUS
<1>1. dlq = {} /\ \A w \in Workers : pc[w] \notin Busy
  BY DEF Init, Busy
<1>2. Circulating = {}
  <2>1. Range(ready) = {} /\ \A w \in Workers : Range(unacked[w]) = {} /\ Range(buffer[w]) = {}
    BY EmptyRange DEF Init
  <2> QED
    BY <1>1, <2>1, CirculatingIn
<1> QED
  BY <1>1, <1>2 DEF Counted, DeadLetterJustified

\* The attempts counter is honest wherever a copy of the message travels.
THEOREM CountedInvariant == Spec => [](Structure /\ Counted)
<1>1. Init => Structure /\ Counted
  BY StructureInit, CountedInit
<1>2. Structure /\ Counted /\ [Next]_vars => Structure' /\ Counted'
  BY StructureStep, CountedStep
<1> QED
  BY <1>1, <1>2, PTL DEF Spec

\* A message is dead-lettered for max-retries only after the handler of its
\* task has raised MaxRetries times, whatever is duplicated, requeued,
\* redelivered or lost on the way, and whether or not anything is bound to the
\* dead-letter exchange.
THEOREM DeadLettersAreEarned == Spec => []DeadLetterJustified
<1>1. Counted => DeadLetterJustified
  BY DEF Counted
<1> QED
  BY <1>1, CountedInvariant, PTL

-----------------------------------------------------------------------------
(***************************************************************************)
(* Before the first fault.  Nothing in the code compares two deliveries:   *)
(* that a task is not executed twice at once, or after it has succeeded,   *)
(* rests on the queue holding one copy of it.  Calm says so: the live      *)
(* copies (those whose consumer has not yet got as far as its ack) belong  *)
(* to different tasks, none of them settled, and each copy's counter is    *)
(* the number of failures of its task.                                     *)
(***************************************************************************)
JobsOf(s) == {m.job : m \in Range(s)}

Distinct(s) == \A i, k \in 1..Len(s) : s[i].job = s[k].job => i = k

\* The delivery in hand is still to be executed, republished or dead-lettered.
InHand(w) == pc[w] \in {"handler", "retry", "todlq"}

\* The tasks whose live copy is in process w.
HeldBy(w) == JobsOf(buffer[w]) \cup (IF InHand(w) THEN {cur[w].job} ELSE {})

Alone ==
  /\ Distinct(ready)
  /\ \A w \in Workers :
       /\ Distinct(buffer[w])
       /\ InHand(w) => cur[w].job \notin JobsOf(buffer[w])
       /\ HeldBy(w) \cap JobsOf(ready) = {}
  /\ \A v, w \in Workers : v # w => HeldBy(v) \cap HeldBy(w) = {}

Unsettled(j) == j \notin done /\ j \notin DeadJobs

\* A copy that waits in a queue or a buffer.
Waiting(m) == Unsettled(m.job) /\ failures[m.job] = m.attempts

\* A delivery in hand.
Handled(w) ==
  /\ Unsettled(cur[w].job)
  /\ pc[w] = "handler" => failures[cur[w].job] = cur[w].attempts
  /\ pc[w] = "retry" => failures[cur[w].job] = cur[w].attempts + 1

Calm ==
  /\ dlqBound
  /\ \A w \in Workers :
       /\ conn[w] = "lost" => pc[w] = "off"
       /\ pc[w] \notin {"requeue", "reject"}
  /\ Alone
  /\ \A m \in Range(ready) : Waiting(m)
  /\ \A w \in Workers : \A m \in Range(buffer[w]) : Waiting(m)
  /\ \A w \in Workers : InHand(w) => Handled(w)
  /\ \A j \in Jobs : j \notin Entered => Unsettled(j) /\ failures[j] = 0
  /\ \A j \in Jobs : failures[j] <= MaxRetries
  /\ done \cap DeadJobs = {}

-----------------------------------------------------------------------------
(***************************************************************************)
(* Sequences of messages of different tasks.                               *)
(***************************************************************************)
\* Publishing a task that is not in the queue.
LEMMA DistinctAppend ==
  ASSUME NEW s \in Seq(Msg), NEW e \in Msg
  PROVE  /\ JobsOf(Append(s, e)) = JobsOf(s) \cup {e.job}
         /\ Distinct(s) /\ e.job \notin JobsOf(s) => Distinct(Append(s, e))
<1>1. Range(Append(s, e)) = Range(s) \cup {e}
  BY AppendFacts
<1>2. JobsOf(Append(s, e)) = JobsOf(s) \cup {e.job}
  BY <1>1 DEF JobsOf
<1>3. ASSUME Distinct(s), e.job \notin JobsOf(s) PROVE Distinct(Append(s, e))
  <2> DEFINE t == Append(s, e)
             n == Len(s)
  <2>1. n \in Nat /\ Len(t) = n + 1 /\ t[n + 1] = e /\ \A i \in 1..n : t[i] = s[i]
    OBVIOUS
  <2>2. \A i \in 1..n : s[i].job \in JobsOf(s)
    BY DEF JobsOf, Range
  <2>3. \A i \in 1..n : t[i].job # e.job
    BY <1>3, <2>1, <2>2
  <2>4. \A i, k \in 1..n : t[i].job = t[k].job => i = k
    BY <1>3, <2>1 DEF Distinct
  <2> HIDE DEF t, n
  <2>5. \A i \in 1..(n + 1) : i \in 1..n \/ i = n + 1
    BY <2>1
  <2>6. \A i, k \in 1..(n + 1) : t[i].job = t[k].job => i = k
    BY <2>1, <2>3, <2>4, <2>5
  <2> QED
    BY <2>1, <2>6 DEF Distinct, t
<1> QED
  BY <1>2, <1>3

\* Delivering the first message.
LEMMA DistinctTail ==
  ASSUME NEW s \in Seq(Msg), s # <<>>
  PROVE  /\ JobsOf(s) = JobsOf(Tail(s)) \cup {Head(s).job}
         /\ Distinct(s) => Distinct(Tail(s)) /\ Head(s).job \notin JobsOf(Tail(s))
<1>1. Range(s) = {Head(s)} \cup Range(Tail(s))
  BY HeadTailFacts
<1>2. JobsOf(s) = JobsOf(Tail(s)) \cup {Head(s).job}
  BY <1>1 DEF JobsOf
<1>3. ASSUME Distinct(s) PROVE Distinct(Tail(s)) /\ Head(s).job \notin JobsOf(Tail(s))
  <2>1. PICK n \in Nat : Len(s) = n + 1
    <3>1. Len(s) \in Nat /\ Len(s) # 0
      OBVIOUS
    <3> QED
      BY <3>1
  <2>2. /\ Len(Tail(s)) = n /\ DOMAIN Tail(s) = 1..n /\ Head(s) = s[1]
        /\ \A i \in 1..n : Tail(s)[i] = s[i + 1]
    BY <2>1
  <2>3. \A i \in 1..n : i + 1 \in 1..(n + 1) /\ i + 1 # 1
    OBVIOUS
  <2>4. Distinct(Tail(s))
    BY <1>3, <2>1, <2>2, <2>3 DEF Distinct
  <2>5. \A i \in 1..n : Tail(s)[i].job # Head(s).job
    BY <1>3, <2>1, <2>2, <2>3 DEF Distinct
  <2>6. Head(s).job \notin JobsOf(Tail(s))
    BY <2>2, <2>5 DEF JobsOf, Range
  <2> QED
    BY <2>4, <2>6
<1> QED
  BY <1>2, <1>3

\* Requeueing a window whose tasks are not in the queue.
LEMMA DistinctConcat ==
  ASSUME NEW s \in Seq(Msg), NEW t \in Seq(Msg)
  PROVE  /\ JobsOf(s \o t) = JobsOf(s) \cup JobsOf(t)
         /\ Distinct(s) /\ Distinct(t) /\ JobsOf(s) \cap JobsOf(t) = {} => Distinct(s \o t)
<1>1. JobsOf(s \o t) = JobsOf(s) \cup JobsOf(t)
  <2>1. Range(s \o t) = Range(s) \cup Range(t)
    BY ConcatFacts
  <2> QED
    BY <2>1 DEF JobsOf
<1>2. ASSUME Distinct(s), Distinct(t), JobsOf(s) \cap JobsOf(t) = {} PROVE Distinct(s \o t)
  <2>1. PICK n \in Nat : Len(s) = n
    OBVIOUS
  <2>2. PICK k \in Nat : Len(t) = k
    OBVIOUS
  <2>3. Len(s \o t) = n + k
    BY <2>1, <2>2
  <2>4. \A i \in 1..n : (s \o t)[i] = s[i] /\ s[i].job \in JobsOf(s)
    BY <2>1 DEF JobsOf, Range
  <2>5. \A i \in (n + 1)..(n + k) :
          i - n \in 1..k /\ (s \o t)[i] = t[i - n] /\ t[i - n].job \in JobsOf(t)
    BY <2>1, <2>2 DEF JobsOf, Range
  <2>6. SUFFICES ASSUME NEW a \in 1..(n + k), NEW b \in 1..(n + k),
                        (s \o t)[a].job = (s \o t)[b].job
                 PROVE  a = b
    BY <2>3 DEF Distinct
  <2>7. CASE a \in 1..n /\ b \in 1..n
    BY <1>2, <2>1, <2>4, <2>6, <2>7 DEF Distinct
  <2>8. CASE a \in (n + 1)..(n + k) /\ b \in (n + 1)..(n + k)
    <3>1. a - n \in 1..k /\ b - n \in 1..k /\ t[a - n].job = t[b - n].job
      BY <2>5, <2>6, <2>8
    <3>2. a - n = b - n
      BY <1>2, <2>2, <3>1 DEF Distinct
    <3> QED
      BY <3>2
  <2>9. (a \in 1..n \/ a \in (n + 1)..(n + k)) /\ (b \in 1..n \/ b \in (n + 1)..(n + k))
    OBVIOUS
  <2>10. CASE a \in 1..n /\ b \in (n + 1)..(n + k)
    BY <1>2, <2>4, <2>5, <2>6, <2>10
  <2>11. CASE b \in 1..n /\ a \in (n + 1)..(n + k)
    BY <1>2, <2>4, <2>5, <2>6, <2>11
  <2> QED
    BY <2>7, <2>8, <2>9, <2>10, <2>11
<1> QED
  BY <1>1, <1>2

-----------------------------------------------------------------------------
(***************************************************************************)
(* When a step keeps the live copies apart, and when it keeps Calm.        *)
(***************************************************************************)
\* A process and the queue exchange copies.
LEMMA AloneMove ==
  ASSUME Alone, NEW w \in Workers,
         \A v \in Workers : v # w => HeldBy(v)' = HeldBy(v) /\ UNCHANGED <<buffer[v], cur[v], pc[v]>>,
         Distinct(ready'), Distinct(buffer'[w]),
         InHand(w)' => cur'[w].job \notin JobsOf(buffer'[w]),
         HeldBy(w)' \cap JobsOf(ready') = {},
         HeldBy(w)' \subseteq HeldBy(w) \cup JobsOf(ready),
         JobsOf(ready') \subseteq HeldBy(w) \cup JobsOf(ready)
  PROVE  Alone'
<1>1. ASSUME NEW v \in Workers
      PROVE  /\ Distinct(buffer'[v])
             /\ InHand(v)' => cur'[v].job \notin JobsOf(buffer'[v])
             /\ HeldBy(v)' \cap JobsOf(ready') = {}
  <2>1. CASE v = w
    BY <2>1
  <2>2. CASE v # w
    BY <2>2 DEF Alone, InHand
  <2> QED
    BY <2>1, <2>2
<1>2. ASSUME NEW u \in Workers, NEW v \in Workers, u # v
      PROVE  HeldBy(u)' \cap HeldBy(v)' = {}
  <2>1. \A x \in Workers : x # w => HeldBy(x)' = HeldBy(x)
    OBVIOUS
  <2>2. \A x, y \in Workers : x # y => HeldBy(x) \cap HeldBy(y) = {}
    BY DEF Alone
  <2>3. \A x \in Workers : HeldBy(x) \cap JobsOf(ready) = {}
    BY DEF Alone
  <2> QED
    BY <1>2, <2>1, <2>2, <2>3
<1> QED
  BY <1>1, <1>2 DEF Alone

\* The steps of Calm: the history changes for at most one task, which no queue
\* and no other process has a live copy of.
LEMMA CalmIf ==
  ASSUME Structure, Structure', Calm, NEW j \in Jobs,
         dlqBound',
         \A w \in Workers : (conn'[w] = "lost" => pc'[w] = "off")
                            /\ pc'[w] \notin {"requeue", "reject"},
         Alone',
         Entered \subseteq Entered', j \in Entered',
         \A i \in Jobs : i # j =>
           (Unsettled(i)' <=> Unsettled(i)) /\ failures'[i] = failures[i],
         \A m \in Range(ready') : m.job = j => Waiting(m)',
         \A m \in Range(ready') : m.job # j =>
           m \in Range(ready) \/ \E w \in Workers : m \in Range(buffer[w]),
         \A w \in Workers : \A m \in Range(buffer'[w]) : m.job = j => Waiting(m)',
         \A w \in Workers : \A m \in Range(buffer'[w]) : m.job # j =>
           m \in Range(ready) \/ m \in Range(buffer[w]),
         \A w \in Workers : InHand(w)' =>
           \/ Handled(w)'
           \/ cur'[w].job # j /\ UNCHANGED <<cur[w], pc[w]>>,
         failures'[j] <= MaxRetries,
         done' \cap DeadJobs' = {}
  PROVE  Calm'
<1>1. \A m \in Range(ready) : Waiting(m)
  BY DEF Calm
<1>2. \A w \in Workers : \A m \in Range(buffer[w]) : Waiting(m)
  BY DEF Calm
<1>3. /\ Range(ready') \subseteq Msg
      /\ \A w \in Workers : Range(buffer'[w]) \subseteq Msg
  BY RangeTyped DEF Structure, TypeOK
<1>4. ASSUME NEW m \in Msg, m.job # j, Waiting(m) PROVE Waiting(m)'
  BY <1>4, MsgFields DEF Waiting
<1>5. \A m \in Range(ready') : Waiting(m)'
  BY <1>1, <1>2, <1>3, <1>4
<1>6. \A w \in Workers : \A m \in Range(buffer'[w]) : Waiting(m)'
  BY <1>1, <1>2, <1>3, <1>4
<1>7. ASSUME NEW w \in Workers, InHand(w)' PROVE Handled(w)'
  <2> SUFFICES ASSUME cur'[w].job # j, UNCHANGED <<cur[w], pc[w]>> PROVE Handled(w)'
    BY <1>7
  <2>1. InHand(w) /\ Handled(w) /\ cur[w].job \in Jobs
    BY <1>7, MsgFields DEF Calm, InHand, Structure, ProcessShape, Busy
  <2>2. PICK c : c = cur[w] /\ c = cur'[w]
    OBVIOUS
  <2> QED
    BY <2>1, <2>2 DEF Handled
<1>8. \A i \in Jobs : i \notin Entered' => Unsettled(i)' /\ failures'[i] = 0
  BY DEF Calm
<1>9. \A i \in Jobs : failures'[i] <= MaxRetries
  BY DEF Calm
<1> QED
  BY <1>5, <1>6, <1>7, <1>8, <1>9 DEF Calm

\* The same, when the history does not change.
LEMMA CalmQuiet ==
  ASSUME Structure, Structure', Calm, UNCHANGED <<done, dlq, failures>>, Entered' = Entered,
         dlqBound',
         \A w \in Workers : (conn'[w] = "lost" => pc'[w] = "off")
                            /\ pc'[w] \notin {"requeue", "reject"},
         Alone',
         \A m \in Range(ready') : m \in Range(ready) \/ \E w \in Workers : m \in Range(buffer[w]),
         \A w \in Workers : \A m \in Range(buffer'[w]) : m \in Range(ready) \/ m \in Range(buffer[w]),
         \A w \in Workers : InHand(w)' => Handled(w)' \/ UNCHANGED <<cur[w], pc[w]>>
  PROVE  Calm'
<1>1. DeadJobs' = DeadJobs
  BY DEF DeadJobs
<1>2. \A m : Waiting(m)' <=> Waiting(m)
  BY <1>1 DEF Waiting, Unsettled
<1>3. \A m \in Range(ready') : Waiting(m)'
  BY <1>2 DEF Calm
<1>4. \A w \in Workers : \A m \in Range(buffer'[w]) : Waiting(m)'
  BY <1>2 DEF Calm
<1>5. ASSUME NEW w \in Workers, InHand(w)' PROVE Handled(w)'
  BY <1>1, <1>5 DEF Calm, InHand, Handled, Unsettled
<1> QED
  BY <1>1, <1>3, <1>4, <1>5 DEF Calm, Unsettled

-----------------------------------------------------------------------------
(***************************************************************************)
(* The steps that need no fault.                                           *)
(***************************************************************************)
\* Steps that move no copy.
LEMMA CalmStill ==
  ASSUME Structure, Structure', Calm,
         UNCHANGED <<ready, buffer, done, dlq, failures>>, Entered' = Entered,
         dlqBound' = dlqBound \/ dlqBound' = TRUE,
         \A w \in Workers : (conn'[w] = "lost" => pc'[w] = "off")
                            /\ pc'[w] \notin {"requeue", "reject"},
         \A w \in Workers : UNCHANGED <<pc[w], cur[w]>> \/ (~InHand(w) /\ ~InHand(w)')
  PROVE  Calm'
<1>1. \A w \in Workers : InHand(w)' = InHand(w)
  BY DEF InHand
<1>2. \A w \in Workers : HeldBy(w)' = HeldBy(w)
  BY <1>1 DEF HeldBy
<1>3. Alone'
  <2>1. \A w \in Workers : InHand(w)' => cur'[w] = cur[w]
    OBVIOUS
  <2> QED
    BY <1>1, <1>2, <2>1 DEF Alone, Calm
<1>4. dlqBound'
  BY DEF Calm
<1> QED
  BY <1>1, <1>3, <1>4, CalmQuiet

\* A task enters: it is new to the queue and to every process.
LEMMA CalmProducer ==
  ASSUME Structure, Structure', Counted, Calm, NEW j \in Jobs,
         EnqueueConfirmed(j) \/ ForeignPublish(j)
  PROVE  Calm'
<1>1. /\ UNCHANGED <<unacked, dlq, pc, conn, buffer, cur, done, failures>>
      /\ ready' = Append(ready, NewEnvelope(j))
  BY DEF EnqueueConfirmed, ForeignPublish, workerVars, historyVars
<1>2. PICK n \in Msg : n = NewEnvelope(j) /\ n.job = j /\ n.attempts = 0
  BY NewEnvelopeTyped DEF NewEnvelope
<1>3. /\ j \notin Entered /\ j \in Entered'
      /\ Entered \subseteq Entered' /\ DeadJobs' = DeadJobs
  BY <1>1 DEF EnqueueConfirmed, ForeignPublish, Enqueueable, Entered, DeadJobs, Structure, TypeOK
<1>4. Unsettled(j) /\ failures[j] = 0
  BY <1>3 DEF Calm
<1>5. \A m \in Circulating : m.job # j
  BY <1>3 DEF Counted, Tracked
<1>6. j \notin JobsOf(ready) /\ \A w \in Workers : j \notin HeldBy(w)
  <2>1. j \notin JobsOf(ready)
    BY <1>5, CirculatingParts DEF JobsOf
  <2>2. ASSUME NEW w \in Workers PROVE j \notin HeldBy(w)
    <3>1. \A m \in Range(buffer[w]) : m.job # j
      BY <1>5, CirculatingParts
    <3>2. j \notin JobsOf(buffer[w])
      BY <3>1 DEF JobsOf
    <3>3. InHand(w) => cur[w].job # j
      BY <1>5, CirculatingParts DEF InHand, Busy
    <3> QED
      BY <3>2, <3>3 DEF HeldBy
  <2> QED
    BY <2>1, <2>2
<1>7. ready \in Seq(Msg) /\ ready' = Append(ready, n)
  BY <1>1, <1>2 DEF Structure, TypeOK
<1>8. Distinct(ready') /\ JobsOf(ready') = JobsOf(ready) \cup {j}
  BY <1>2, <1>6, <1>7, DistinctAppend DEF Calm, Alone
<1>9. Alone'
  <2>1. \A w \in Workers : HeldBy(w)' = HeldBy(w) /\ InHand(w)' = InHand(w)
    BY <1>1 DEF HeldBy, InHand
  <2> QED
    BY <1>1, <1>6, <1>8, <2>1 DEF Alone, Calm
<1>10. Waiting(n)'
  BY <1>1, <1>2, <1>3, <1>4 DEF Waiting, Unsettled
<1>11. Range(ready') = Range(ready) \cup {n}
  BY <1>2, <1>7, AppendFacts
<1>12. dlqBound' = dlqBound \/ dlqBound' = TRUE
  BY DEF EnqueueConfirmed, EnsureChannel, ForeignPublish
<1>13. dlqBound' /\ failures'[j] <= MaxRetries /\ done' \cap DeadJobs' = {}
  BY <1>1, <1>3, <1>12 DEF Calm
<1>14. \A i \in Jobs : i # j => (Unsettled(i)' <=> Unsettled(i)) /\ failures'[i] = failures[i]
  BY <1>1, <1>3 DEF Unsettled
<1>15. \A m \in Range(ready') : m \in Range(ready) \/ m = n
  BY <1>11
<1>16. ASSUME NEW w \in Workers
       PROVE  /\ (conn'[w] = "lost" => pc'[w] = "off") /\ pc'[w] \notin {"requeue", "reject"}
              /\ \A m \in Range(buffer'[w]) : m \in Range(buffer[w]) /\ m.job # j
              /\ InHand(w)' => Handled(w)' \/ (cur'[w].job # j /\ UNCHANGED <<cur[w], pc[w]>>)
  <2>1. (conn'[w] = "lost" => pc'[w] = "off") /\ pc'[w] \notin {"requeue", "reject"}
    BY <1>1 DEF Calm
  <2>2. \A m \in Range(buffer'[w]) : m \in Range(buffer[w]) /\ m.job # j
    BY <1>1, <1>5, CirculatingParts
  <2>3. InHand(w)' => cur'[w].job # j /\ UNCHANGED <<cur[w], pc[w]>>
    BY <1>1, <1>5, CirculatingParts DEF InHand, Busy
  <2> QED
    BY <2>1, <2>2, <2>3
<1>17. \A m \in Range(ready') : m.job = j => Waiting(m)'
  BY <1>5, <1>10, <1>15, CirculatingParts
<1> QED
  BY <1>2, <1>3, <1>9, <1>13, <1>14, <1>15, <1>16, <1>17, CalmIf

\* A delivery moves a live copy from the queue to a buffer.
LEMMA CalmDeliver ==
  ASSUME Structure, Structure', Calm, NEW w \in Workers, Deliver(w)
  PROVE  Calm'
<1> DEFINE m == Head(ready)
<1>1. /\ UNCHANGED <<dlq, dlqBound, result, pc, conn, cur, done, failures>>
      /\ ready # <<>> /\ ready' = Tail(ready)
      /\ buffer'[w] = Append(buffer[w], m)
      /\ \A v \in Workers : v # w => buffer'[v] = buffer[v]
  BY DEF Deliver, producerVars, historyVars, Structure, TypeOK
<1>2. /\ m \in Msg /\ Range(ready) = {m} \cup Range(Tail(ready))
      /\ ready \in Seq(Msg) /\ buffer[w] \in Seq(Msg)
  BY <1>1, HeadTailFacts DEF Structure, TypeOK
<1>3. /\ JobsOf(ready) = JobsOf(ready') \cup {m.job}
      /\ Distinct(ready') /\ m.job \notin JobsOf(ready')
  BY <1>1, <1>2, DistinctTail DEF Calm, Alone
<1> HIDE DEF m
<1>4. m.job \notin HeldBy(w)
  BY <1>3 DEF Calm, Alone
<1>5. m.job \notin JobsOf(buffer[w]) /\ (InHand(w) => cur[w].job # m.job)
  BY <1>4 DEF HeldBy
<1>6. JobsOf(buffer'[w]) = JobsOf(buffer[w]) \cup {m.job} /\ Distinct(buffer'[w])
  BY <1>1, <1>2, <1>5, DistinctAppend DEF Calm, Alone
<1>7. HeldBy(w)' = HeldBy(w) \cup {m.job} /\ InHand(w)' = InHand(w)
  BY <1>1, <1>6 DEF HeldBy, InHand
<1>8. \A v \in Workers : v # w => HeldBy(v)' = HeldBy(v) /\ UNCHANGED <<buffer[v], cur[v], pc[v]>>
  BY <1>1 DEF HeldBy, InHand
<1>9. HeldBy(w)' \cap JobsOf(ready') = {}
  BY <1>3, <1>7 DEF Calm, Alone
<1>10. InHand(w)' => cur'[w].job \notin JobsOf(buffer'[w])
  BY <1>1, <1>5, <1>6, <1>7 DEF Calm, Alone
<1>11. HeldBy(w)' \subseteq HeldBy(w) \cup JobsOf(ready) /\ JobsOf(ready') \subseteq JobsOf(ready)
  BY <1>3, <1>7
<1>12. Alone'
  BY <1>3, <1>6, <1>8, <1>9, <1>10, <1>11, AloneMove DEF Calm
<1>13. Range(buffer'[w]) = Range(buffer[w]) \cup {m}
  BY <1>1, <1>2, AppendFacts
<1>14. \A k \in Range(ready') : k \in Range(ready)
  BY <1>1, <1>2
<1>15. \A v \in Workers : \A k \in Range(buffer'[v]) : k \in Range(ready) \/ k \in Range(buffer[v])
  BY <1>1, <1>2, <1>13
<1>16. dlqBound' /\ \A v \in Workers : (conn'[v] = "lost" => pc'[v] = "off")
                                       /\ pc'[v] \notin {"requeue", "reject"}
  BY <1>1 DEF Calm
<1> QED
  BY <1>1, <1>12, <1>14, <1>15, <1>16, CalmQuiet DEF Entered

\* A process that ends between two deliveries returns what it had buffered.
LEMMA CalmExit ==
  ASSUME Structure, Structure', Calm, NEW w \in Workers, pc[w] = "idle",
         NEW code, Exit(w, code)
  PROVE  Calm'
<1>1. /\ UNCHANGED <<dlq, dlqBound, result, done, failures>>
      /\ conn[w] = "open" /\ unacked[w] = buffer[w]
      /\ ready' = buffer[w] \o ready
      /\ buffer'[w] = <<>> /\ pc'[w] = "off" /\ conn'[w] = "lost"
  <2>1. conn[w] = "open"
    BY DEF Calm, Structure, TypeOK
  <2>2. unacked[w] = buffer[w]
    BY <2>1 DEF Structure, WindowMatches, Busy
  <2>3. buffer'[w] = <<>> /\ pc'[w] = "off" /\ conn'[w] = "lost"
    BY DEF Exit, DropConnection, Structure, TypeOK
  <2> QED
    BY <2>1, <2>2, <2>3 DEF Exit, DropConnection, Requeued, producerVars, historyVars
<1>2. \A v \in Workers : v # w => UNCHANGED <<buffer[v], cur[v], pc[v], conn[v]>>
  BY DEF Exit, DropConnection, Structure, TypeOK
<1>3. buffer[w] \in Seq(Msg) /\ ready \in Seq(Msg)
  BY DEF Structure, TypeOK
<1>4. HeldBy(w) = JobsOf(buffer[w]) /\ ~InHand(w)' /\ HeldBy(w)' = {}
  BY <1>1, EmptyRange DEF HeldBy, InHand, JobsOf
<1>5. Distinct(ready') /\ JobsOf(ready') = JobsOf(buffer[w]) \cup JobsOf(ready)
  BY <1>1, <1>3, <1>4, DistinctConcat DEF Calm, Alone
<1>6. \A v \in Workers : v # w => HeldBy(v)' = HeldBy(v)
  BY <1>2 DEF HeldBy, InHand
<1>7. Distinct(buffer'[w])
  BY <1>1 DEF Distinct
<1>8. Alone'
  BY <1>2, <1>4, <1>5, <1>6, <1>7, AloneMove DEF Calm
<1>9. Range(ready') = Range(buffer[w]) \cup Range(ready)
  BY <1>1, <1>3, ConcatFacts
<1>10. \A v \in Workers : \A m \in Range(buffer'[v]) : m \in Range(buffer[v])
  BY <1>1, <1>2, EmptyRange
<1>11. \A v \in Workers : /\ (conn'[v] = "lost" => pc'[v] = "off")
                          /\ pc'[v] \notin {"requeue", "reject"}
                          /\ InHand(v)' => UNCHANGED <<cur[v], pc[v]>>
  BY <1>1, <1>2, <1>4 DEF Calm
<1>12. dlqBound'
  BY <1>1 DEF Calm
<1> QED
  BY <1>1, <1>8, <1>9, <1>10, <1>11, <1>12, CalmQuiet DEF Entered

\* A consumer takes a live copy in hand.
LEMMA CalmBegin ==
  ASSUME Structure, Structure', Calm, NEW w \in Workers, BeginDelivery(w)
  PROVE  Calm'
<1> DEFINE m == Head(buffer[w])
<1>1. /\ UNCHANGED <<ready, dlq, dlqBound, result, conn, done, failures>>
      /\ pc[w] = "idle" /\ buffer[w] # <<>> /\ buffer[w] \in Seq(Msg)
      /\ buffer'[w] = Tail(buffer[w]) /\ cur'[w] = m /\ pc'[w] \in {"handler", "todlq"}
  BY DEF BeginDelivery, NextDelivery, Dispatch, brokerVars, producerVars, historyVars,
     Structure, TypeOK
<1>2. \A v \in Workers : v # w => UNCHANGED <<buffer[v], cur[v], pc[v]>>
  BY DEF BeginDelivery, Structure, TypeOK
<1>3. m \in Msg /\ Range(buffer[w]) = {m} \cup Range(Tail(buffer[w]))
  BY <1>1, HeadTailFacts
<1>4. /\ JobsOf(buffer[w]) = JobsOf(buffer'[w]) \cup {m.job}
      /\ Distinct(buffer'[w]) /\ m.job \notin JobsOf(buffer'[w])
  BY <1>1, DistinctTail DEF Calm, Alone
<1> HIDE DEF m
<1>5. InHand(w)' /\ HeldBy(w)' = HeldBy(w)
  BY <1>1, <1>4 DEF HeldBy, InHand
<1>6. \A v \in Workers : v # w => HeldBy(v)' = HeldBy(v)
  BY <1>2 DEF HeldBy, InHand
<1>7. Alone'
  <2>1. Distinct(ready') /\ HeldBy(w)' \cap JobsOf(ready') = {}
    BY <1>1, <1>5 DEF Calm, Alone
  <2>2. cur'[w].job \notin JobsOf(buffer'[w]) /\ JobsOf(ready') = JobsOf(ready)
    BY <1>1, <1>4
  <2> QED
    BY <1>2, <1>4, <1>5, <1>6, <2>1, <2>2, AloneMove DEF Calm
<1>8. Waiting(m)
  BY <1>3 DEF Calm
<1>9. Handled(w)'
  BY <1>1, <1>8 DEF Waiting, Handled, Unsettled, DeadJobs
<1>10. \A v \in Workers : \A k \in Range(buffer'[v]) : k \in Range(buffer[v])
  BY <1>1, <1>2, <1>3
<1>11. \A v \in Workers : InHand(v)' => Handled(v)' \/ UNCHANGED <<cur[v], pc[v]>>
  BY <1>2, <1>9
<1>12. dlqBound' /\ \A v \in Workers : (conn'[v] = "lost" => pc'[v] = "off")
                                       /\ pc'[v] \notin {"requeue", "reject"}
  BY <1>1, <1>2 DEF Calm
<1> QED
  BY <1>1, <1>7, <1>10, <1>11, <1>12, CalmQuiet DEF Entered

\* The live copy in hand is the only one of its task.
LEMMA OnlyInHand ==
  ASSUME Structure, Calm, NEW w \in Workers, InHand(w), NEW j, j = cur[w].job
  PROVE  /\ \A m \in Range(ready) : m.job # j
         /\ \A v \in Workers : \A m \in Range(buffer[v]) : m.job # j
         /\ \A v \in Workers : v # w /\ InHand(v) => cur[v].job # j
<1>1. j \in HeldBy(w) /\ j \notin JobsOf(buffer[w])
  BY DEF HeldBy, Calm, Alone
<1>2. j \notin JobsOf(ready) /\ \A v \in Workers : v # w => j \notin HeldBy(v)
  BY <1>1 DEF Calm, Alone
<1>3. \A v \in Workers : j \notin JobsOf(buffer[v])
  BY <1>1, <1>2 DEF HeldBy
<1>4. \A v \in Workers : v # w /\ InHand(v) => cur[v].job # j
  BY <1>2 DEF HeldBy
<1>5. \A m \in Range(ready) : m.job # j
  BY <1>2 DEF JobsOf
<1>6. \A v \in Workers : \A m \in Range(buffer[v]) : m.job # j
  BY <1>3 DEF JobsOf
<1> QED
  BY <1>4, <1>5, <1>6

\* A consumer settles the history of the task in hand, or counts its failure.
LEMMA CalmHistory ==
  ASSUME Structure, Structure', Counted, Calm, NEW w \in Workers, InHand(w),
         NEW j \in Jobs, j = cur[w].job,
         UNCHANGED <<ready, dlqBound, result, conn, buffer, cur>>,
         \A v \in Workers : v # w => pc'[v] = pc[v],
         pc'[w] \notin {"off", "requeue", "reject"},
         InHand(w)' => Handled(w)',
         \A i \in Jobs : i # j =>
           (Unsettled(i)' <=> Unsettled(i)) /\ failures'[i] = failures[i],
         failures'[j] <= MaxRetries,
         done' \cap DeadJobs' = {}
  PROVE  Calm'
<1>1. /\ \A m \in Range(ready) : m.job # j
      /\ \A v \in Workers : \A m \in Range(buffer[v]) : m.job # j
      /\ \A v \in Workers : v # w /\ InHand(v) => cur[v].job # j
  BY OnlyInHand
<1>2. Entered' = Entered /\ j \in Entered
  <2>1. Tracked(cur[w])
    BY CirculatingParts DEF Counted, InHand, Busy
  <2> QED
    BY <2>1 DEF Entered, Tracked
<1>3. \A v \in Workers : v # w => HeldBy(v)' = HeldBy(v)
  BY DEF HeldBy, InHand
<1>4. HeldBy(w)' \subseteq HeldBy(w)
  BY DEF HeldBy, InHand
<1>5. Alone'
  <2>1. HeldBy(w)' \cap JobsOf(ready') = {} /\ JobsOf(ready') = JobsOf(ready)
    BY <1>4 DEF Calm, Alone
  <2>2. Distinct(ready') /\ Distinct(buffer'[w]) /\ cur'[w].job \notin JobsOf(buffer'[w])
    BY DEF Calm, Alone
  <2> QED
    BY <1>3, <1>4, <2>1, <2>2, AloneMove DEF Calm
<1>6. ASSUME NEW v \in Workers, InHand(v)'
      PROVE  Handled(v)' \/ (cur'[v].job # j /\ UNCHANGED <<cur[v], pc[v]>>)
  <2>1. CASE v = w
    BY <1>6, <2>1
  <2>2. CASE v # w
    BY <1>1, <1>6, <2>2 DEF InHand
  <2> QED
    BY <2>1, <2>2
<1>7. dlqBound' /\ \A v \in Workers : (conn'[v] = "lost" => pc'[v] = "off")
                                      /\ pc'[v] \notin {"requeue", "reject"}
  <2>1. pc[w] # "off"
    BY DEF InHand
  <2> QED
    BY <2>1 DEF Calm
<1> QED
  BY <1>1, <1>2, <1>5, <1>6, <1>7, CalmIf

\* The handler returns: the task is done, and nothing else will run it.
LEMMA CalmReturns ==
  ASSUME Structure, Structure', Counted, Calm, NEW w \in Workers, HandlerReturns(w)
  PROVE  Calm'
<1>1. /\ UNCHANGED <<ready, dlq, dlqBound, result, conn, buffer, cur, failures>>
      /\ InHand(w) /\ pc'[w] = "ack" /\ cur[w] \in Msg
      /\ \A v \in Workers : v # w => pc'[v] = pc[v]
  BY DEF HandlerReturns, GoTo, brokerVars, producerVars, InHand, Structure, TypeOK,
     ProcessShape, Busy
<1>2. PICK j \in Jobs : j = cur[w].job
  BY <1>1, MsgFields
<1>3. done' = done \cup {j} /\ DeadJobs' = DeadJobs
  BY <1>1, <1>2 DEF HandlerReturns, DeadJobs
<1>4. Unsettled(j)
  BY <1>1, <1>2 DEF Calm, Handled
<1>5. done' \cap DeadJobs' = {} /\ failures'[j] <= MaxRetries
  BY <1>1, <1>3, <1>4 DEF Calm, Unsettled
<1>6. \A i \in Jobs : i # j => (Unsettled(i)' <=> Unsettled(i)) /\ failures'[i] = failures[i]
  BY <1>1, <1>3 DEF Unsettled
<1>7. ~InHand(w)'
  BY <1>1 DEF InHand
<1> QED
  BY <1>1, <1>2, <1>5, <1>6, <1>7, CalmHistory

\* The handler raises: one failure more than the copy in hand says.
LEMMA CalmRaises ==
  ASSUME Structure, Structure', Counted, Calm, NEW w \in Workers, HandlerRaises(w)
  PROVE  Calm'
<1>1. /\ UNCHANGED <<ready, dlq, dlqBound, result, conn, buffer, cur, done>>
      /\ InHand(w) /\ pc[w] = "handler" /\ cur[w] \in Msg
      /\ pc'[w] = AfterFailure(cur[w])
      /\ \A v \in Workers : v # w => pc'[v] = pc[v]
  BY DEF HandlerRaises, GoTo, brokerVars, producerVars, InHand, Structure, TypeOK,
     ProcessShape, Busy
<1>2. PICK m \in Msg : m = cur[w] /\ m = cur'[w]
  BY <1>1
<1>3. m.job \in Jobs /\ m.attempts \in Nat /\ m.attempts < MaxRetries /\ MaxRetries \in Nat
  BY MsgFields, QueueAssumption
<1>4. Unsettled(m.job) /\ failures[m.job] = m.attempts
  BY <1>1, <1>2 DEF Calm, Handled
<1>5. failures' = [failures EXCEPT ![m.job] = @ + 1] /\ failures \in [Jobs -> Nat]
  BY <1>2 DEF HandlerRaises, Structure, TypeOK
<1>6. failures'[m.job] = m.attempts + 1 /\ failures'[m.job] <= MaxRetries
  BY <1>3, <1>4, <1>5
<1>7. DeadJobs' = DeadJobs
  BY <1>1 DEF DeadJobs
<1>8. \A i \in Jobs : i # m.job => (Unsettled(i)' <=> Unsettled(i)) /\ failures'[i] = failures[i]
  BY <1>1, <1>5, <1>7 DEF Unsettled
<1>9. pc'[w] \in {"retry", "todlq"}
  BY <1>1 DEF AfterFailure
<1>10. Handled(w)'
  BY <1>1, <1>2, <1>4, <1>6, <1>7, <1>9 DEF Handled, Unsettled
<1>11. done' \cap DeadJobs' = {}
  BY <1>1, <1>7 DEF Calm
<1> QED
  BY <1>1, <1>2, <1>3, <1>6, <1>8, <1>9, <1>10, <1>11, CalmHistory

\* The dead letter is confirmed: the task is dead, and nothing will run it.
LEMMA CalmToDlq ==
  ASSUME Structure, Structure', Counted, Calm, NEW w \in Workers, ToDlqConfirmed(w)
  PROVE  Calm'
<1>1. /\ UNCHANGED <<ready, dlqBound, result, conn, buffer, cur, done, failures>>
      /\ InHand(w) /\ pc'[w] = "ack" /\ cur[w] \in Msg
      /\ \A v \in Workers : v # w => pc'[v] = pc[v]
  BY DEF ToDlqConfirmed, GoTo, producerVars, historyVars, InHand, Structure, TypeOK,
     ProcessShape, Busy
<1>2. PICK j \in Jobs : j = cur[w].job
  BY <1>1, MsgFields
<1>3. DeadJobs' = DeadJobs \cup {j}
  <2>1. dlq' = dlq \cup {DeadLetter(cur[w])}
    BY DEF ToDlqConfirmed
  <2> QED
    BY <1>1, <1>2, <2>1, DeadLetterTyped DEF DeadJobs
<1>4. Unsettled(j)
  BY <1>1, <1>2 DEF Calm, Handled
<1>5. done' \cap DeadJobs' = {} /\ failures'[j] <= MaxRetries
  BY <1>1, <1>3, <1>4 DEF Calm, Unsettled
<1>6. \A i \in Jobs : i # j => (Unsettled(i)' <=> Unsettled(i)) /\ failures'[i] = failures[i]
  BY <1>1, <1>3 DEF Unsettled
<1>7. ~InHand(w)'
  BY <1>1 DEF InHand
<1> QED
  BY <1>1, <1>2, <1>5, <1>6, <1>7, CalmHistory

\* The retry takes the place of the copy in hand.
LEMMA CalmRepublish ==
  ASSUME Structure, Structure', Calm, NEW w \in Workers, RepublishConfirmed(w)
  PROVE  Calm'
<1>1. /\ UNCHANGED <<dlq, dlqBound, result, conn, buffer, cur, done, failures>>
      /\ InHand(w) /\ pc[w] = "retry" /\ pc'[w] = "ack" /\ cur[w] \in Msg
      /\ ready' = Append(ready, Retried(cur[w])) /\ ready \in Seq(Msg)
      /\ \A v \in Workers : v # w => pc'[v] = pc[v]
  BY DEF RepublishConfirmed, GoTo, producerVars, historyVars, InHand, Structure, TypeOK,
     ProcessShape, Busy
<1>2. PICK m \in Msg : m = cur[w]
  BY <1>1
<1>3. PICK n \in Msg : n = Retried(m) /\ n.job = m.job /\ n.attempts = m.attempts + 1
  <2>1. m.attempts + 1 < MaxRetries
    BY <1>1, <1>2 DEF Structure, ProcessShape
  <2> QED
    BY <2>1, RetriedTyped
<1>4. ready' = Append(ready, n)
  BY <1>1, <1>2, <1>3
<1>5. m.job \notin JobsOf(ready) /\ m.job \in HeldBy(w) /\ m.job \notin JobsOf(buffer[w])
  BY <1>1, <1>2 DEF HeldBy, Calm, Alone
<1>6. Distinct(ready') /\ JobsOf(ready') = JobsOf(ready) \cup {m.job}
  BY <1>1, <1>3, <1>4, <1>5, DistinctAppend DEF Calm, Alone
<1>7. ~InHand(w)' /\ HeldBy(w)' = JobsOf(buffer[w])
  BY <1>1 DEF InHand, HeldBy
<1>8. HeldBy(w)' \subseteq HeldBy(w) /\ HeldBy(w) \cap JobsOf(ready) = {}
  BY <1>7 DEF HeldBy, Calm, Alone
<1>9. HeldBy(w)' \cap JobsOf(ready') = {}
  BY <1>5, <1>6, <1>7, <1>8
<1>10. \A v \in Workers : v # w => HeldBy(v)' = HeldBy(v) /\ UNCHANGED <<buffer[v], cur[v], pc[v]>>
  BY <1>1 DEF HeldBy, InHand
<1>11. Alone'
  <2>1. Distinct(buffer'[w])
    BY <1>1 DEF Calm, Alone
  <2>2. JobsOf(ready') \subseteq HeldBy(w) \cup JobsOf(ready)
    BY <1>5, <1>6
  <2> QED
    BY <1>6, <1>7, <1>8, <1>9, <1>10, <2>1, <2>2, AloneMove DEF Calm
<1>12. Waiting(n)'
  <2>1. Unsettled(m.job) /\ failures[m.job] = m.attempts + 1
    BY <1>1, <1>2 DEF Calm, Handled
  <2> QED
    BY <1>1, <1>3, <2>1 DEF Waiting, Unsettled, DeadJobs
<1>13. Range(ready') = Range(ready) \cup {n}
  BY <1>1, <1>3, <1>4, AppendFacts
<1>14. /\ Entered' = Entered /\ DeadJobs' = DeadJobs
       /\ \A k : Waiting(k)' <=> Waiting(k)
  BY <1>1 DEF Entered, DeadJobs, Waiting, Unsettled
<1>15. \A k \in Range(ready') : Waiting(k)'
  BY <1>12, <1>13, <1>14 DEF Calm
<1>16. \A v \in Workers : \A k \in Range(buffer'[v]) : Waiting(k)'
  BY <1>1, <1>14 DEF Calm
<1>17. \A v \in Workers : InHand(v)' => Handled(v)'
  BY <1>1, <1>7, <1>14 DEF Calm, Handled, InHand, Unsettled
<1>18. \A v \in Workers : (conn'[v] = "lost" => pc'[v] = "off")
                          /\ pc'[v] \notin {"requeue", "reject"}
  BY <1>1 DEF Calm, RepublishConfirmed
<1> QED
  BY <1>1, <1>11, <1>14, <1>15, <1>16, <1>17, <1>18 DEF Calm, Unsettled

\* Only what counts as a fault, and it counts itself, can end the calm.
LEMMA CalmStep ==
  ASSUME Structure, Structure', Counted, faults = 0 => Calm, [Next]_vars, faults' = 0
  PROVE  Calm'
<1>0. ~Fault /\ faults = 0 /\ Calm
  <2>1. faults \in Nat
    BY DEF Structure, TypeOK
  <2>2. ~Fault
    BY <2>1 DEF Fault
  <2>3. ASSUME NEW j \in Jobs, Enqueue(j) \/ ForeignPublish(j)
        PROVE  faults' = faults \/ Fault
    BY <2>3 DEF Enqueue, EnqueueConfirmed, EnqueueFailed, EnqueueUnconfirmed,
       ForeignPublish
  <2>4. ASSUME ProducerConnectionDies \/ DlqUnbound \/ UNCHANGED vars
        PROVE  faults' = faults \/ Fault
    BY <2>4 DEF ProducerConnectionDies, DlqUnbound, vars
  <2>5. ASSUME NEW w \in Workers,
               \/ Connect(w) \/ ConnectFails(w) \/ Deliver(w)
               \/ ConnectionLost(w) \/ Stop(w) \/ Interrupt(w) \/ Crash(w)
        PROVE  faults' = faults \/ Fault
    BY <2>5 DEF Connect, ConnectFails, Deliver, ConnectionLost, Stop, Interrupt, Crash
  <2>6. ASSUME NEW w \in Workers,
               \/ StopBetweenDeliveries(w) \/ ConsumeError(w) \/ EnvelopeError(w)
               \/ BeginDelivery(w) \/ HandlerReturns(w) \/ HandlerRaises(w)
        PROVE  faults' = faults \/ Fault
    BY <2>6 DEF StopBetweenDeliveries, ConsumeError, EnvelopeError, BeginDelivery,
       HandlerReturns, HandlerRaises
  <2>7. ASSUME NEW w \in Workers,
               Republish(w) \/ ToDlq(w) \/ Ack(w) \/ NackRequeue(w) \/ NackReject(w)
        PROVE  faults' = faults \/ Fault
    BY <2>7 DEF Republish, RepublishConfirmed, RepublishFails, RepublishUnconfirmed,
       ToDlq, ToDlqConfirmed, ToDlqFails, ToDlqUnconfirmed, Ack, NackRequeue, NackReject,
       EndDelivery
  <2> QED
    BY <2>2, <2>3, <2>4, <2>5, <2>6, <2>7 DEF Next, WorkerStep
<1>1. \A w \in Workers : /\ pc[w] # "off" => conn[w] = "open"
                         /\ conn[w] = "lost" => pc[w] = "off"
                         /\ pc[w] \notin {"requeue", "reject"}
  BY <1>0 DEF Calm, Structure, TypeOK
<1>2. CASE UNCHANGED vars
  <2>1. UNCHANGED <<ready, buffer, cur, done, dlq, failures, pc, conn, dlqBound>>
         /\ Entered' = Entered
    BY <1>2 DEF vars, Entered
  <2> QED
    BY <1>0, <1>1, <2>1, CalmStill
<1>3. ASSUME NEW j \in Jobs, Enqueue(j) \/ ForeignPublish(j) PROVE Calm'
  <2>1. CASE EnqueueConfirmed(j) \/ ForeignPublish(j)
    BY <1>0, <2>1, CalmProducer
  <2>2. CASE EnqueueFailed(j)
    <3>1. UNCHANGED <<ready, buffer, cur, done, dlq, failures, pc, conn, dlqBound>>
      BY <1>0, <2>2 DEF EnqueueFailed, workerVars, historyVars
    <3>2. result' = [result EXCEPT ![j] = "false"] /\ result[j] = "new"
      BY <2>2 DEF EnqueueFailed, Enqueueable
    <3>3. Entered' = Entered
      BY <3>2 DEF Entered, Structure, TypeOK
    <3> QED
      BY <1>0, <1>1, <3>1, <3>3, CalmStill
  <2>3. ~EnqueueUnconfirmed(j)
    BY <1>0 DEF EnqueueUnconfirmed
  <2> QED
    BY <1>3, <2>1, <2>2, <2>3 DEF Enqueue
<1>4. CASE ProducerConnectionDies \/ DlqUnbound
  <2>1. ProducerConnectionDies
    BY <1>0, <1>4 DEF DlqUnbound
  <2>2. UNCHANGED <<ready, buffer, cur, done, dlq, failures, pc, conn, dlqBound>>
         /\ Entered' = Entered
    BY <2>1 DEF ProducerConnectionDies, brokerVars, workerVars, historyVars, Entered
  <2> QED
    BY <1>0, <1>1, <2>2, CalmStill
<1>5. ASSUME NEW w \in Workers, Connect(w) \/ Stop(w) \/ Ack(w) PROVE Calm'
  <2>1. UNCHANGED <<ready, buffer, done, dlq, failures>> /\ Entered' = Entered
    BY <1>5 DEF Connect, Stop, Ack, EndDelivery, brokerVars, producerVars, historyVars, Entered
  <2>2. dlqBound' = dlqBound \/ dlqBound' = TRUE
    BY <1>5 DEF Connect, Stop, Ack, brokerVars
  <2>3. ASSUME NEW v \in Workers
        PROVE  /\ conn'[v] = "lost" => pc'[v] = "off"
               /\ pc'[v] \notin {"requeue", "reject"}
               /\ UNCHANGED <<pc[v], cur[v]>> \/ (~InHand(v) /\ ~InHand(v)')
    <3>1. CASE Connect(w)
      BY <1>1, <3>1 DEF Connect, InHand, Structure, TypeOK
    <3>2. CASE Stop(w)
      BY <1>1, <3>2 DEF Stop
    <3>3. CASE Ack(w)
      BY <1>1, <3>3 DEF Ack, EndDelivery, GoTo, InHand, Structure, TypeOK
    <3> QED
      BY <1>5, <3>1, <3>2, <3>3
  <2> QED
    BY <1>0, <2>1, <2>2, <2>3, CalmStill
<1>6. ASSUME NEW w \in Workers,
             \/ ConnectFails(w) \/ ConnectionLost(w) \/ Interrupt(w) \/ Crash(w)
             \/ RepublishFails(w) \/ RepublishUnconfirmed(w)
             \/ ToDlqFails(w) \/ ToDlqUnconfirmed(w)
             \/ NackRequeue(w) \/ NackReject(w)
      PROVE  FALSE
  <2>1. dlqBound
    BY <1>0 DEF Calm
  <2> QED
    BY <1>0, <1>1, <1>6, <2>1 DEF ConnectFails, ConnectionLost, Interrupt, Crash,
       RepublishFails, RepublishUnconfirmed, ToDlqFails, ToDlqUnconfirmed, NackRequeue,
       NackReject
<1>7. ASSUME NEW w \in Workers, StopBetweenDeliveries(w) \/ ConsumeError(w) \/ EnvelopeError(w)
      PROVE  Calm'
  <2>1. pc[w] = "idle" /\ \E code \in {"clean", "failed"} : Exit(w, code)
    BY <1>7 DEF StopBetweenDeliveries, ConsumeError, EnvelopeError, NextDelivery
  <2> QED
    BY <1>0, <2>1, CalmExit
<1>8. ASSUME NEW w \in Workers, Deliver(w) \/ BeginDelivery(w) PROVE Calm'
  BY <1>0, <1>8, CalmDeliver, CalmBegin
<1>9. ASSUME NEW w \in Workers, HandlerReturns(w) \/ HandlerRaises(w) PROVE Calm'
  BY <1>0, <1>9, CalmReturns, CalmRaises
<1>10. ASSUME NEW w \in Workers, RepublishConfirmed(w) \/ ToDlqConfirmed(w) PROVE Calm'
  BY <1>0, <1>10, CalmRepublish, CalmToDlq
<1> QED
  BY <1>2, <1>3, <1>4, <1>5, <1>6, <1>7, <1>8, <1>9, <1>10
     DEF Next, WorkerStep, Republish, ToDlq

\* Nothing is queued, nothing is counted.
LEMMA CalmInit == Init => Calm
<1> SUFFICES ASSUME Init PROVE Calm
  OBVIOUS
<1>1. /\ dlqBound /\ done = {} /\ DeadJobs = {} /\ Entered = {}
      /\ \A w \in Workers : pc[w] = "off"
      /\ \A j \in Jobs : failures[j] = 0
  BY DEF Init, DeadJobs, Entered
<1>2. /\ Range(ready) = {} /\ JobsOf(ready) = {} /\ Distinct(ready)
      /\ \A w \in Workers : Range(buffer[w]) = {} /\ JobsOf(buffer[w]) = {} /\ Distinct(buffer[w])
  BY EmptyRange DEF Init, JobsOf, Distinct
<1>3. \A w \in Workers : ~InHand(w) /\ HeldBy(w) = {}
  BY <1>1, <1>2 DEF InHand, HeldBy
<1>4. Alone
  BY <1>2, <1>3 DEF Alone
<1> QED
  BY <1>1, <1>2, <1>3, <1>4, QueueAssumption DEF Calm, Unsettled

CalmUntilFault == Structure /\ Counted /\ (faults = 0 => Calm)

\* Until the first fault, the live copies belong to different, unsettled tasks.
THEOREM CalmInvariant == Spec => []CalmUntilFault
<1>1. Init => CalmUntilFault
  BY StructureInit, CountedInit, CalmInit DEF CalmUntilFault
<1>2. CalmUntilFault /\ [Next]_vars => CalmUntilFault'
  BY StructureStep, CountedStep, CalmStep DEF CalmUntilFault
<1> QED
  BY <1>1, <1>2, PTL DEF Spec

\* As long as nothing has failed, two consumers never run the handler of the
\* same task at the same time, whatever the prefetch and however often
\* consumers stop and start.
THEOREM OneRunAtATime == Spec => []NoConcurrentRun
<1>1. CalmUntilFault => NoConcurrentRun
  <2> SUFFICES ASSUME Structure, Calm, NEW v \in Workers, NEW w \in Workers,
                      v # w, pc[v] = "handler", pc[w] = "handler"
               PROVE  cur[v].job # cur[w].job
    BY DEF NoConcurrentRun, CalmUntilFault
  <2>1. InHand(v) /\ InHand(w)
    BY DEF InHand
  <2> QED
    BY <2>1, OnlyInHand
<1> QED
  BY <1>1, CalmInvariant, PTL

\* As long as nothing has failed, a handler raises at most MaxRetries times per
\* task, and no task both succeeds and is dead-lettered.
THEOREM RetriesAreBudgeted == Spec => []RetryBudget
<1>1. CalmUntilFault => RetryBudget
  BY DEF CalmUntilFault, Calm, RetryBudget
<1> QED
  BY <1>1, CalmInvariant, PTL

-----------------------------------------------------------------------------
(***************************************************************************)
(* No task that entered the work queue is lost, for every number of tasks, *)
(* consumers and faults, as long as the dead-letter queue stays bound; and *)
(* when it does not, only tasks that had no chance left.  Then, that the   *)
(* queue implements the ledger of JobLedger.                               *)
(*                                                                         *)
(* NoLoss is not inductive: an ack removes a message from the broker, and  *)
(* is safe only because of what the consumer did before it.  Justified     *)
(* records that.  It is inductive because the copy that justifies an ack   *)
(* has a higher attempts counter than the copy that is acked: two          *)
(* consumers can never justify their acks by each other's copy.            *)
(***************************************************************************)
\* Where the dead-letter queue may be unbound, a rejected message is dropped:
\* one that nobody can use, or whose task has failed MaxRetries times.
Spent(j) == DlqMayUnbind /\ (Kind[j] # "registered" \/ failures[j] >= MaxRetries)

\* The queue owes task j nothing any more.
Accounted(j) == j \in done \/ j \in DeadJobs \/ Spent(j)

\* An ack of m would lose nothing.
Justified(m) ==
  \/ Accounted(m.job)
  \/ \E n \in InBroker : n.job = m.job /\ n.attempts > m.attempts

Durable ==
  /\ \A w \in Workers : pc[w] = "ack" => Justified(cur[w])
  /\ \A j \in Entered : Queued(j) \/ Accounted(j)

DlqStaysBound == ~DlqMayUnbind => dlqBound

\* The history of failures only grows.
FailuresGrow == \A j \in Jobs : failures'[j] >= failures[j]

-----------------------------------------------------------------------------
(***************************************************************************)
(* What each kind of step does to the messages the broker holds.           *)
(***************************************************************************)

\* The broker holds only messages.
LEMMA InBrokerTyped == TypeOK => InBroker \subseteq Msg
<1> SUFFICES ASSUME TypeOK PROVE InBroker \subseteq Msg
  OBVIOUS
<1>1. Range(ready) \subseteq Msg
  BY RangeTyped DEF TypeOK
<1>2. ASSUME NEW w \in Workers PROVE Range(unacked[w]) \subseteq Msg
  BY RangeTyped DEF TypeOK
<1> QED
  BY <1>1, <1>2 DEF InBroker

\* The same, after a step.
LEMMA InBrokerTypedNext == TypeOK' => InBroker' \subseteq Msg
<1> SUFFICES ASSUME TypeOK' PROVE InBroker' \subseteq Msg
  OBVIOUS
<1>1. Range(ready') \subseteq Msg
  BY RangeTyped DEF TypeOK
<1>2. ASSUME NEW w \in Workers PROVE Range(unacked'[w]) \subseteq Msg
  BY RangeTyped DEF TypeOK
<1> QED
  BY <1>1, <1>2 DEF InBroker

\* A publish adds a message and removes none.
LEMMA InBrokerPublish ==
  ASSUME TypeOK, NEW m \in Msg, ready' = Append(ready, m), UNCHANGED unacked
  PROVE  InBroker' = InBroker \cup {m}
<1>1. Range(ready') = Range(ready) \cup {m}
  BY AppendFacts DEF TypeOK
<1> QED
  BY <1>1 DEF InBroker

\* A delivery moves a message from the queue to a window.
LEMMA InBrokerDeliver ==
  ASSUME TypeOK, NEW w \in Workers, Deliver(w)
  PROVE  InBroker' = InBroker
<1>1. Head(ready) \in Msg /\ Range(ready) = {Head(ready)} \cup Range(Tail(ready))
  BY HeadTailFacts DEF Deliver, TypeOK
<1>2. unacked'[w] = Append(unacked[w], Head(ready)) /\ ready' = Tail(ready)
  BY DEF Deliver, TypeOK
<1>3. Range(unacked'[w]) = Range(unacked[w]) \cup {Head(ready)}
  BY <1>1, <1>2, AppendFacts DEF TypeOK
<1>4. \A v \in Workers : v # w => unacked'[v] = unacked[v]
  BY DEF Deliver, TypeOK
<1>5. \A v \in Workers : /\ Range(unacked[v]) \subseteq Range(unacked'[v])
                         /\ Range(unacked'[v]) \subseteq Range(unacked[v]) \cup Range(ready)
  BY <1>1, <1>3, <1>4
<1>6. /\ Range(ready) \subseteq Range(ready') \cup Range(unacked'[w])
      /\ Range(ready') \subseteq Range(ready)
  BY <1>1, <1>2, <1>3
<1> QED
  BY <1>5, <1>6 DEF InBroker

\* A connection that ends moves its window back to the queue.
LEMMA InBrokerDrop ==
  ASSUME TypeOK, NEW w \in Workers, NEW q \in Seq(Msg),
         Range(ready) \subseteq Range(q), DropConnection(w, q)
  PROVE  InBroker' = InBroker \cup Range(q)
<1>1. Range(ready') = Range(unacked[w]) \cup Range(q)
  BY ConcatFacts DEF DropConnection, Requeued, TypeOK
<1>2. \A v \in Workers : v # w => unacked'[v] = unacked[v]
  BY DEF DropConnection, TypeOK
<1>3. \A v \in Workers : /\ Range(unacked[v]) \subseteq Range(ready') \cup Range(unacked'[v])
                         /\ Range(unacked'[v]) \subseteq Range(unacked[v])
  <2>1. Range(unacked'[w]) = {}
    BY EmptyRange DEF DropConnection, TypeOK
  <2> QED
    BY <1>1, <1>2, <2>1
<1> QED
  BY <1>1, <1>3 DEF InBroker

\* An ack or nack on an open connection takes at most the delivery in hand.
LEMMA InBrokerSettle ==
  ASSUME Structure, NEW w \in Workers, pc[w] \in Busy, conn[w] = "open",
         Settled(w), Range(ready) \subseteq Range(ready')
  PROVE  InBroker \subseteq InBroker' \cup {cur[w]}
<1>1. unacked[w] # <<>> /\ Head(unacked[w]) = cur[w]
  BY DEF Structure, WindowMatches, Busy
<1>2. Range(unacked[w]) = {cur[w]} \cup Range(Tail(unacked[w]))
  BY <1>1, HeadTailFacts DEF Structure, TypeOK
<1>3. unacked'[w] = Tail(unacked[w]) /\ \A v \in Workers : v # w => unacked'[v] = unacked[v]
  BY DEF Settled, Structure, TypeOK
<1>4. \A v \in Workers : Range(unacked[v]) \subseteq Range(unacked'[v]) \cup {cur[w]}
  BY <1>2, <1>3
<1> QED
  BY <1>4 DEF InBroker

\* And it adds none, when what it puts in the queue was in the window.
LEMMA InBrokerSettleOnly ==
  ASSUME Structure, NEW w \in Workers, pc[w] \in Busy, conn[w] = "open",
         Settled(w), Range(ready') \subseteq Range(ready) \cup {cur[w]}
  PROVE  InBroker' \subseteq InBroker /\ cur[w] \in InBroker
<1>1. unacked[w] # <<>> /\ Head(unacked[w]) = cur[w]
  BY DEF Structure, WindowMatches, Busy
<1>2. Range(unacked[w]) = {cur[w]} \cup Range(Tail(unacked[w]))
  BY <1>1, HeadTailFacts DEF Structure, TypeOK
<1>3. unacked'[w] = Tail(unacked[w]) /\ \A v \in Workers : v # w => unacked'[v] = unacked[v]
  BY DEF Settled, Structure, TypeOK
<1>4. \A v \in Workers : Range(unacked'[v]) \subseteq Range(unacked[v])
  BY <1>2, <1>3
<1> QED
  BY <1>2, <1>4 DEF InBroker

-----------------------------------------------------------------------------
(***************************************************************************)
(* When a step keeps Durable: every message the broker gives up is         *)
(* superseded, every task that enters is held, and every new ack is        *)
(* justified.                                                              *)
(***************************************************************************)
Superseded(m) ==
  \/ Accounted(m.job)
  \/ \E n \in InBroker : n.job = m.job /\ n.attempts >= m.attempts

\* The general case: what the broker gives up is superseded.
LEMMA DurableIf ==
  ASSUME Structure, Structure', FailuresGrow, Durable,
         done \subseteq done', dlq \subseteq dlq',
         \A m \in InBroker : Superseded(m)',
         \A j \in Entered' : j \in Entered \/ Queued(j)',
         \A w \in Workers : pc'[w] = "ack" =>
           (pc[w] = "ack" /\ cur'[w] = cur[w]) \/ Justified(cur[w])'
  PROVE  Durable'
<1>1. InBroker \subseteq Msg /\ InBroker' \subseteq Msg
  <2>1. TypeOK /\ TypeOK'
    BY DEF Structure
  <2>2. InBroker' \subseteq Msg
    BY <2>1, InBrokerTypedNext
  <2> QED
    BY <2>1, <2>2, InBrokerTyped
<1>2. ASSUME NEW j \in Jobs, Accounted(j) PROVE Accounted(j)'
  <2>1. DeadJobs \subseteq DeadJobs'
    BY DEF DeadJobs
  <2>2. failures'[j] >= failures[j] /\ failures'[j] \in Nat /\ failures[j] \in Nat
    BY DEF FailuresGrow, Structure, TypeOK
  <2>3. MaxRetries \in Nat
    BY QueueAssumption
  <2>4. failures[j] >= MaxRetries => failures'[j] >= MaxRetries
    BY <2>2, <2>3
  <2> QED
    BY <1>2, <2>1, <2>4, Zenon DEF Accounted, Spent
<1>3. ASSUME NEW w \in Workers, pc'[w] = "ack" PROVE Justified(cur[w])'
  <2> SUFFICES ASSUME pc[w] = "ack", cur'[w] = cur[w] PROVE Justified(cur[w])'
    BY <1>3
  <2>1. cur[w] \in Msg /\ cur[w].attempts \in Nat
    BY MsgFields DEF Structure, ProcessShape, Busy
  <2>0. PICK c \in Msg : c = cur[w] /\ c = cur'[w]
    BY <2>1
  <2>2. Justified(c)
    BY <2>0 DEF Durable
  <2>3. CASE Accounted(c.job)
    <3>1. Accounted(c.job)'
      BY <2>3, <1>2, MsgFields
    <3> QED
      BY <2>0, <3>1, Zenon DEF Justified
  <2>4. ASSUME NEW n \in InBroker, n.job = c.job, n.attempts > c.attempts
        PROVE  Justified(cur[w])'
    <3>1. Superseded(n)'
      OBVIOUS
    <3>2. CASE Accounted(n.job)'
      BY <2>0, <2>4, <3>2 DEF Justified
    <3>3. ASSUME NEW k \in InBroker', k.job = n.job, k.attempts >= n.attempts
          PROVE  Justified(cur[w])'
      <4>1. k.attempts \in Nat /\ n.attempts \in Nat
        BY <1>1, MsgFields
      <4>2. k.job = cur'[w].job /\ k.attempts > cur'[w].attempts
        BY <2>0, <2>1, <2>4, <3>3, <4>1
      <4> QED
        BY <4>2 DEF Justified
    <3> QED
      BY <3>1, <3>2, <3>3 DEF Superseded
  <2> QED
    BY <2>2, <2>3, <2>4 DEF Justified
<1>5. ASSUME NEW j \in Entered' PROVE Queued(j)' \/ Accounted(j)'
  <2> SUFFICES ASSUME j \in Entered PROVE Queued(j)' \/ Accounted(j)'
    OBVIOUS
  <2>1. (Queued(j) \/ Accounted(j)) /\ j \in Jobs
    BY DEF Durable, Entered
  <2>2. CASE Accounted(j)
    BY <2>1, <2>2, <1>2
  <2>3. CASE Queued(j)
    <3>1. PICK m \in InBroker : m.job = j
      BY <2>3 DEF Queued
    <3>2. Superseded(m)'
      OBVIOUS
    <3>3. CASE Accounted(m.job)'
      BY <3>1, <3>3
    <3>4. CASE \E n \in InBroker' : n.job = m.job /\ n.attempts >= m.attempts
      BY <3>1, <3>4 DEF Queued
    <3> QED
      BY <3>2, <3>3, <3>4 DEF Superseded
  <2> QED
    BY <2>1, <2>2, <2>3
<1> QED
  BY <1>3, <1>5 DEF Durable

\* The common case: the broker gives up nothing.
LEMMA DurableIfKept ==
  ASSUME Structure, Structure', FailuresGrow, Durable, InBroker \subseteq InBroker',
         done \subseteq done', dlq \subseteq dlq',
         \A j \in Entered' : j \in Entered \/ Queued(j)',
         \A w \in Workers : pc'[w] = "ack" =>
           (pc[w] = "ack" /\ cur'[w] = cur[w]) \/ Justified(cur[w])'
  PROVE  Durable'
<1>1. ASSUME NEW m \in InBroker PROVE Superseded(m)'
  <2>1. m \in InBroker' /\ m.attempts \in Nat
    BY InBrokerTyped, MsgFields DEF Structure
  <2>2. m.attempts >= m.attempts
    BY <2>1
  <2> QED
    BY <2>1, <2>2 DEF Superseded
<1> QED
  BY <1>1, DurableIf

-----------------------------------------------------------------------------
(***************************************************************************)
(* The steps.                                                              *)
(***************************************************************************)

\* Steps that leave the broker's messages and the promises alone.
LEMMA DurableQuiet ==
  ASSUME Structure, Structure', FailuresGrow, Durable,
         UNCHANGED <<ready, unacked, dlq, done, result>>,
         \A w \in Workers : pc'[w] = "ack" => pc[w] = "ack" /\ cur'[w] = cur[w]
  PROVE  Durable'
<1>1. InBroker' = InBroker /\ Entered' = Entered
  BY DEF InBroker, Entered
<1> QED
  BY <1>1, DurableIfKept

\* A task enters the queue, or its publish leaves no trace.
LEMMA DurableProducer ==
  ASSUME Structure, Structure', FailuresGrow, Durable, NEW j \in Jobs, Enqueue(j) \/ ForeignPublish(j)
  PROVE  Durable'
<1>1. UNCHANGED <<unacked, dlq, pc, cur, done>>
  BY DEF Enqueue, EnqueueConfirmed, EnqueueFailed, EnqueueUnconfirmed,
         ForeignPublish, brokerVars, workerVars, historyVars
<1>2. NewEnvelope(j) \in Msg /\ NewEnvelope(j).job = j
  BY NewEnvelopeTyped
<1>3. \A i \in Jobs : i # j => result'[i] = result[i]
  BY DEF Enqueue, EnqueueConfirmed, EnqueueFailed, EnqueueUnconfirmed,
         ForeignPublish, Structure, TypeOK
<1>4. CASE EnqueueFailed(j)
  <2>1. ready' = ready /\ result'[j] = "false"
    BY <1>4 DEF EnqueueFailed, brokerVars, Structure, TypeOK
  <2>2. InBroker' = InBroker
    BY <1>1, <2>1 DEF InBroker
  <2>3. Entered' \subseteq Entered
    BY <1>3, <2>1 DEF Entered
  <2> QED
    BY <1>1, <2>2, <2>3, DurableIfKept
<1>5. CASE ~EnqueueFailed(j)
  <2>1. ready' = Append(ready, NewEnvelope(j))
    BY <1>5 DEF Enqueue, EnqueueConfirmed, EnqueueUnconfirmed, ForeignPublish
  <2>2. InBroker' = InBroker \cup {NewEnvelope(j)}
    BY <1>1, <1>2, <2>1, InBrokerPublish DEF Structure
  <2>3. Queued(j)'
    BY <1>2, <2>2 DEF Queued
  <2>4. Entered' \subseteq Entered \cup {j}
    BY <1>3 DEF Entered
  <2> QED
    BY <1>1, <2>2, <2>3, <2>4, DurableIfKept
<1> QED
  BY <1>4, <1>5

\* A delivery loses nothing.
LEMMA DurableDeliver ==
  ASSUME Structure, Structure', FailuresGrow, Durable, NEW w \in Workers, Deliver(w)
  PROVE  Durable'
<1>1. InBroker \subseteq InBroker'
  BY InBrokerDeliver DEF Structure
<1>2. UNCHANGED <<dlq, result, pc, cur, done>>
  BY DEF Deliver, producerVars, historyVars
<1>3. Entered' = Entered
  BY <1>2 DEF Entered
<1> QED
  BY <1>1, <1>2, <1>3, DurableIfKept

\* A connection breaks or a process ends.  The deliveries it had not settled,
\* the one in hand included, return to the queue.
LEMMA DurableDrop ==
  ASSUME Structure, Structure', FailuresGrow, Durable, NEW w \in Workers, DropConnection(w, ready),
         UNCHANGED <<result, done>>, dlq \subseteq dlq',
         \A v \in Workers : pc'[v] = "ack" => pc[v] = "ack" /\ cur'[v] = cur[v]
  PROVE  Durable'
<1>1. InBroker \subseteq InBroker'
  BY InBrokerDrop DEF Structure, TypeOK
<1>2. Entered' = Entered
  BY DEF Entered
<1> QED
  BY <1>1, <1>2, DurableIfKept

\* The handler has returned before the ack.
LEMMA DurableHandlerReturns ==
  ASSUME Structure, Structure', FailuresGrow, Durable, NEW w \in Workers, HandlerReturns(w)
  PROVE  Durable'
<1>1. UNCHANGED <<ready, unacked, dlq, result, cur>> /\ done' = done \cup {cur[w].job}
  BY DEF HandlerReturns, brokerVars, producerVars
<1>2. \A v \in Workers : v # w => pc'[v] = pc[v]
  BY DEF HandlerReturns, GoTo, Structure, TypeOK
<1>3. InBroker' = InBroker /\ Entered' = Entered
  BY <1>1 DEF InBroker, Entered
<1>4. Justified(cur[w])'
  BY <1>1 DEF Justified, Accounted
<1> QED
  BY <1>1, <1>2, <1>3, <1>4, DurableIfKept

\* The retry is in the queue before the original is acked.
LEMMA DurableRepublish ==
  ASSUME Structure, Structure', FailuresGrow, Durable, NEW w \in Workers,
         RepublishConfirmed(w) \/ RepublishUnconfirmed(w)
  PROVE  Durable'
<1> DEFINE n == Retried(cur[w])
           q == Append(ready, n)
<1>1. UNCHANGED <<dlq, result, cur, done>> /\ (\A v \in Workers : v # w => pc'[v] = pc[v])
  BY DEF RepublishConfirmed, RepublishUnconfirmed, GoTo, Structure, TypeOK,
         producerVars, historyVars
<1>2. cur[w] \in Msg /\ cur[w].attempts + 1 < MaxRetries /\ cur[w].attempts \in Nat
  BY MsgFields DEF Structure, ProcessShape, Busy, RepublishConfirmed, RepublishUnconfirmed
<1>3. n \in Msg /\ n.job = cur[w].job /\ n.attempts > cur[w].attempts
  BY <1>2, RetriedTyped
<1> HIDE DEF n
<1>4. q \in Seq(Msg) /\ Range(q) = Range(ready) \cup {n}
  BY <1>3, AppendFacts DEF Structure, TypeOK
<1>5. InBroker \subseteq InBroker' /\ n \in InBroker'
  <2>1. CASE RepublishConfirmed(w)
    BY <2>1, <1>3, InBrokerPublish DEF RepublishConfirmed, Structure, n
  <2>2. CASE RepublishUnconfirmed(w)
    <3>1. DropConnection(w, q)
      BY <2>2 DEF RepublishUnconfirmed, n
    <3>2. InBroker \subseteq InBroker' /\ Range(q) \subseteq InBroker'
      BY <1>4, <3>1, InBrokerDrop DEF Structure
    <3> QED
      BY <1>4, <3>2
  <2> QED
    BY <2>1, <2>2
<1>6. Justified(cur[w])' /\ Entered' = Entered
  BY <1>1, <1>3, <1>5 DEF Justified, Entered
<1> QED
  BY <1>1, <1>5, <1>6, DurableIfKept

\* The dead letter is confirmed before the original is acked.
LEMMA DurableToDlqConfirmed ==
  ASSUME Structure, Structure', FailuresGrow, Durable, NEW w \in Workers, ToDlqConfirmed(w)
  PROVE  Durable'
<1>1. UNCHANGED <<ready, unacked, result, cur, done>>
  BY DEF ToDlqConfirmed, producerVars, historyVars
<1>2. \A v \in Workers : v # w => pc'[v] = pc[v]
  BY DEF ToDlqConfirmed, GoTo, Structure, TypeOK
<1>3. dlq \subseteq dlq' /\ cur[w].job \in DeadJobs'
  <2>1. dlq' = dlq \cup {DeadLetter(cur[w])} /\ cur[w] \in Msg
    BY DEF ToDlqConfirmed, Structure, ProcessShape, Busy
  <2> QED
    BY <2>1, DeadLetterTyped DEF DeadJobs
<1>4. InBroker' = InBroker /\ Entered' = Entered /\ Justified(cur[w])'
  BY <1>1, <1>3 DEF InBroker, Entered, Justified, Accounted
<1> QED
  BY <1>1, <1>2, <1>3, <1>4, DurableIfKept

\* Settling the delivery in hand is safe when something outlives it.
LEMMA DurableSettled ==
  ASSUME Structure, Structure', FailuresGrow, Durable, NEW w \in Workers, pc[w] \in Busy,
         conn[w] = "open", Settled(w), EndDelivery(w),
         Range(ready) \subseteq Range(ready'), dlq \subseteq dlq',
         NEW m, m = cur[w], Superseded(m)'
  PROVE  Durable'
<1>1. UNCHANGED <<result, done>>
  BY DEF EndDelivery, producerVars, historyVars
<1>2. Entered' = Entered
  BY <1>1 DEF Entered
<1>3. \A v \in Workers : pc'[v] = "ack" => pc[v] = "ack" /\ cur'[v] = cur[v]
  BY DEF EndDelivery, GoTo, Structure, TypeOK
<1>4. ASSUME NEW n \in InBroker PROVE Superseded(n)'
  <2>1. CASE n = m
    BY <2>1
  <2>2. CASE n # m
    <3>1. n \in InBroker'
      BY <2>2, InBrokerSettle
    <3>2. n.attempts >= n.attempts
      BY InBrokerTyped, MsgFields DEF Structure
    <3> QED
      BY <3>1, <3>2 DEF Superseded
  <2> QED
    BY <2>1, <2>2
<1> QED
  BY <1>1, <1>2, <1>3, <1>4, DurableIf

\* An ack gives up a message that is done, dead, or has a newer copy.
LEMMA DurableAck ==
  ASSUME Structure, Structure', FailuresGrow, Durable, NEW w \in Workers, Ack(w)
  PROVE  Durable'
<1>1. pc[w] = "ack" /\ EndDelivery(w) /\ UNCHANGED <<ready, dlq>>
  BY DEF Ack
<1>2. UNCHANGED <<result, done, failures>>
  BY <1>1 DEF EndDelivery, producerVars, historyVars
<1>3. cur[w] \in Msg /\ cur[w].attempts \in Nat
  BY <1>1, MsgFields DEF Structure, ProcessShape, Busy
<1>4. CASE conn[w] = "lost" /\ UNCHANGED unacked
  <2>1. \A v \in Workers : pc'[v] = "ack" => pc[v] = "ack" /\ cur'[v] = cur[v]
    BY <1>1 DEF EndDelivery, GoTo, Structure, TypeOK
  <2> QED
    BY <1>1, <1>2, <1>4, <2>1, DurableQuiet
<1>5. CASE conn[w] = "open" /\ Settled(w)
  <2>0. PICK m \in Msg : m = cur[w]
    BY <1>3
  <2>1. Justified(m)
    BY <1>1, <2>0 DEF Durable
  <2>2. Superseded(m)'
    <3>1. CASE Accounted(m.job)
      BY <1>1, <1>2, <3>1 DEF Superseded, Accounted, Spent, DeadJobs
    <3>2. ASSUME NEW n \in InBroker, n.job = m.job, n.attempts > m.attempts
          PROVE  Superseded(m)'
      <4>1. n \in Msg /\ n.attempts \in Nat
        BY InBrokerTyped, MsgFields DEF Structure
      <4>2. n # m /\ n.attempts >= m.attempts
        BY <1>3, <2>0, <3>2, <4>1
      <4>3. n \in InBroker'
        BY <1>1, <1>5, <2>0, <4>2, InBrokerSettle DEF Busy
      <4> QED
        BY <3>2, <4>2, <4>3 DEF Superseded
    <3> QED
      BY <2>1, <3>1, <3>2 DEF Justified
  <2>3. "ack" \in Busy
    BY DEF Busy
  <2> QED
    BY <1>1, <1>5, <2>0, <2>2, <2>3, DurableSettled
<1> QED
  BY <1>4, <1>5 DEF Ack

\* The message returns to the head of the queue.
LEMMA DurableNackRequeue ==
  ASSUME Structure, Structure', FailuresGrow, Durable, NEW w \in Workers, NackRequeue(w)
  PROVE  Durable'
<1>1. pc[w] = "requeue" /\ EndDelivery(w) /\ UNCHANGED dlq
  BY DEF NackRequeue
<1>2. UNCHANGED <<result, done, failures>>
  BY <1>1 DEF EndDelivery, producerVars, historyVars
<1>3. PICK m \in Msg : m = cur[w]
  BY <1>1 DEF Structure, ProcessShape, Busy
<1>4. CASE conn[w] = "lost" /\ UNCHANGED <<ready, unacked>>
  <2>1. \A v \in Workers : pc'[v] = "ack" => pc[v] = "ack" /\ cur'[v] = cur[v]
    BY <1>1 DEF EndDelivery, GoTo, Structure, TypeOK
  <2> QED
    BY <1>1, <1>2, <1>4, <2>1, DurableQuiet
<1>5. CASE conn[w] = "open" /\ ready' = <<Head(unacked[w])>> \o ready /\ Settled(w)
  <2>1. Head(unacked[w]) = m
    BY <1>1, <1>3, <1>5 DEF Structure, WindowMatches, Busy
  <2>2. <<m>> \in Seq(Msg) /\ Range(<<m>>) = {m}
    BY <1>3 DEF Range
  <2>3. Range(ready') = {m} \cup Range(ready)
    <3>1. ready' = <<m>> \o ready /\ ready \in Seq(Msg)
      BY <1>5, <2>1 DEF Structure, TypeOK
    <3> DEFINE t == <<m>>
    <3>2. t \in Seq(Msg) /\ Range(t) = {m} /\ ready' = t \o ready
      BY <2>2, <3>1
    <3> HIDE DEF t
    <3>3. Range(t \o ready) = Range(t) \cup Range(ready)
      BY <3>1, <3>2, ConcatFacts
    <3> QED
      BY <3>2, <3>3
  <2>4. m \in InBroker' /\ m.attempts >= m.attempts
    BY <1>3, <2>3, MsgFields DEF InBroker
  <2>5. Superseded(m)'
    BY <2>4 DEF Superseded
  <2>6. "requeue" \in Busy
    BY DEF Busy
  <2> QED
    BY <1>1, <1>3, <1>5, <2>3, <2>5, <2>6, DurableSettled
<1> QED
  BY <1>4, <1>5 DEF NackRequeue

\* The broker dead-letters the message when the queue is bound; when it is not,
\* the message had no chance left.
LEMMA DurableNackReject ==
  ASSUME Structure, Structure', Counted, FailuresGrow, Durable, DlqStaysBound, NEW w \in Workers, NackReject(w)
  PROVE  Durable'
<1>1. pc[w] = "reject" /\ EndDelivery(w) /\ UNCHANGED ready
  BY DEF NackReject
<1>2. UNCHANGED <<result, done, failures>>
  BY <1>1 DEF EndDelivery, producerVars, historyVars
<1>3. PICK m \in Msg : m = cur[w]
  BY <1>1 DEF Structure, ProcessShape, Busy
<1>4. CASE conn[w] = "lost" /\ UNCHANGED <<unacked, dlq>>
  <2>1. \A v \in Workers : pc'[v] = "ack" => pc[v] = "ack" /\ cur'[v] = cur[v]
    BY <1>1 DEF EndDelivery, GoTo, Structure, TypeOK
  <2> QED
    BY <1>1, <1>2, <1>4, <2>1, DurableQuiet
<1>5. CASE /\ conn[w] = "open" /\ Settled(w)
           /\ dlq' = dlq \cup {[job |-> cur[w].job, attempts |-> cur[w].attempts,
                                reason |-> "none"]}
  <2>1. m.job \in DeadJobs'
    <3> DEFINE d == [job |-> m.job, attempts |-> m.attempts, reason |-> "none"]
    <3>1. d.job = m.job
      OBVIOUS
    <3>2. d \in dlq'
      BY <1>3, <1>5
    <3> HIDE DEF d
    <3> QED
      BY <3>1, <3>2 DEF DeadJobs
  <2>2. Superseded(m)'
    BY <2>1 DEF Superseded, Accounted
  <2>3. "reject" \in Busy
    BY DEF Busy
  <2> QED
    BY <1>1, <1>3, <1>5, <2>2, <2>3, DurableSettled
<1>6. CASE conn[w] = "open" /\ ~dlqBound /\ Settled(w) /\ UNCHANGED dlq
  <2>1. DlqMayUnbind
    BY <1>6 DEF DlqStaysBound
  <2>2. "reject" \in Busy
    BY DEF Busy
  <2>3. Standing(w)
    BY <1>1, <2>2 DEF Counted
  <2>4. Kind[m.job] # "registered" \/ failures[m.job] >= MaxRetries
    BY <1>1, <1>3, <2>3 DEF Standing
  <2>5. Superseded(m)'
    BY <1>2, <2>1, <2>4 DEF Superseded, Accounted, Spent
  <2> QED
    BY <1>1, <1>3, <1>6, <2>2, <2>5, DurableSettled
<1> QED
  BY <1>4, <1>5, <1>6 DEF NackReject

-----------------------------------------------------------------------------
(***************************************************************************)
(* The theorems.                                                           *)
(***************************************************************************)
DurableInvariant == Structure /\ Counted /\ DlqStaysBound /\ Durable

\* Without an operator's interference the dead-letter queue stays bound.
LEMMA DlqStaysBoundStep ==
  ASSUME DlqStaysBound, [Next]_vars
  PROVE  DlqStaysBound'
<1> SUFFICES ASSUME ~DlqMayUnbind PROVE dlqBound'
  BY DEF DlqStaysBound
<1>1. dlqBound
  BY DEF DlqStaysBound
<1>2. CASE UNCHANGED vars
  BY <1>1, <1>2 DEF vars
<1>3. ASSUME NEW j \in Jobs, Enqueue(j) \/ ForeignPublish(j) PROVE dlqBound'
  BY <1>1, <1>3 DEF Enqueue, EnqueueConfirmed, EnqueueFailed, EnqueueUnconfirmed,
     EnsureChannel, ForeignPublish, brokerVars
<1>4. CASE ProducerConnectionDies \/ DlqUnbound
  BY <1>1, <1>4 DEF ProducerConnectionDies, DlqUnbound, brokerVars
<1>5. ASSUME NEW w \in Workers,
             \/ Connect(w) \/ ConnectFails(w) \/ Deliver(w)
             \/ ConnectionLost(w) \/ Stop(w) \/ Interrupt(w) \/ Crash(w)
      PROVE  dlqBound'
  BY <1>1, <1>5 DEF Connect, ConnectFails, Deliver, ConnectionLost, Stop, Interrupt,
     Crash, Exit, brokerVars
<1>6. ASSUME NEW w \in Workers,
             \/ StopBetweenDeliveries(w) \/ ConsumeError(w) \/ EnvelopeError(w)
             \/ BeginDelivery(w) \/ HandlerReturns(w) \/ HandlerRaises(w)
      PROVE  dlqBound'
  BY <1>1, <1>6 DEF StopBetweenDeliveries, ConsumeError, EnvelopeError, Exit,
     BeginDelivery, HandlerReturns, HandlerRaises, brokerVars
<1>7. ASSUME NEW w \in Workers,
             Republish(w) \/ ToDlq(w) \/ Ack(w) \/ NackRequeue(w) \/ NackReject(w)
      PROVE  dlqBound'
  BY <1>1, <1>7 DEF Republish, RepublishConfirmed, RepublishFails, RepublishUnconfirmed,
     ToDlq, ToDlqConfirmed, ToDlqFails, ToDlqUnconfirmed, Ack, NackRequeue, NackReject,
     brokerVars
<1> QED
  BY <1>2, <1>3, <1>4, <1>5, <1>6, <1>7 DEF Next, WorkerStep

\* Only HandlerRaises touches the history of failures.
LEMMA FailuresGrowStep ==
  ASSUME Structure, [Next]_vars
  PROVE  FailuresGrow
<1>1. failures \in [Jobs -> Nat]
  BY DEF Structure, TypeOK
<1>2. ASSUME NEW w \in Workers, HandlerRaises(w) PROVE FailuresGrow
  BY <1>1, <1>2 DEF HandlerRaises, FailuresGrow
<1>3. CASE UNCHANGED failures
  BY <1>1, <1>3 DEF FailuresGrow
<1>4. ASSUME NEW j \in Jobs, Enqueue(j) \/ ForeignPublish(j) PROVE UNCHANGED failures
  BY <1>4 DEF Enqueue, EnqueueConfirmed, EnqueueFailed, EnqueueUnconfirmed,
     ForeignPublish, historyVars
<1>5. ASSUME ProducerConnectionDies \/ DlqUnbound \/ UNCHANGED vars
      PROVE  UNCHANGED failures
  BY <1>5 DEF ProducerConnectionDies, DlqUnbound, historyVars, vars
<1>6. ASSUME NEW w \in Workers,
             \/ Connect(w) \/ ConnectFails(w) \/ Deliver(w)
             \/ ConnectionLost(w) \/ Stop(w) \/ Interrupt(w) \/ Crash(w)
      PROVE  UNCHANGED failures
  BY <1>6 DEF Connect, ConnectFails, Deliver, ConnectionLost, Stop, Interrupt,
     Crash, Exit, historyVars
<1>7. ASSUME NEW w \in Workers,
             \/ StopBetweenDeliveries(w) \/ ConsumeError(w) \/ EnvelopeError(w)
             \/ BeginDelivery(w) \/ HandlerReturns(w)
      PROVE  UNCHANGED failures
  BY <1>7 DEF StopBetweenDeliveries, ConsumeError, EnvelopeError, Exit,
     BeginDelivery, HandlerReturns, historyVars
<1>8. ASSUME NEW w \in Workers,
             Republish(w) \/ ToDlq(w) \/ Ack(w) \/ NackRequeue(w) \/ NackReject(w)
      PROVE  UNCHANGED failures
  BY <1>8 DEF Republish, RepublishConfirmed, RepublishFails, RepublishUnconfirmed,
     ToDlq, ToDlqConfirmed, ToDlqFails, ToDlqUnconfirmed, Ack, NackRequeue, NackReject,
     EndDelivery, historyVars
<1>9. (\E w \in Workers : HandlerRaises(w)) \/ UNCHANGED failures
  BY <1>4, <1>5, <1>6, <1>7, <1>8 DEF Next, WorkerStep
<1> QED
  BY <1>2, <1>3, <1>9

\* Every step keeps Durable.
LEMMA DurableStep ==
  ASSUME Structure, Structure', Counted, Durable, DlqStaysBound, [Next]_vars
  PROVE  Durable'
<1>0. FailuresGrow
  BY FailuresGrowStep
<1>1. CASE UNCHANGED vars
  BY <1>0, <1>1, DurableQuiet DEF vars
<1>2. CASE \E j \in Jobs : Enqueue(j) \/ ForeignPublish(j)
  BY <1>0, <1>2, DurableProducer
<1>3. CASE ProducerConnectionDies \/ DlqUnbound
  BY <1>0, <1>3, DurableQuiet DEF ProducerConnectionDies, DlqUnbound, brokerVars, producerVars,
     workerVars, historyVars
<1>4. ASSUME NEW w \in Workers,
             \/ Connect(w) \/ ConnectFails(w) \/ Stop(w) \/ BeginDelivery(w)
             \/ HandlerRaises(w) \/ RepublishFails(w) \/ ToDlqFails(w)
      PROVE  Durable'
  <2>1. UNCHANGED <<ready, unacked, dlq, done, result>>
    BY <1>4 DEF Connect, ConnectFails, Stop, BeginDelivery, HandlerRaises, RepublishFails,
       ToDlqFails, brokerVars, producerVars, historyVars
  <2>2. ASSUME NEW v \in Workers, pc'[v] = "ack" PROVE pc[v] = "ack" /\ cur'[v] = cur[v]
    <3>1. CASE BeginDelivery(w)
      BY <2>2, <3>1 DEF BeginDelivery, NextDelivery, Dispatch, Structure, TypeOK
    <3>2. CASE ~BeginDelivery(w)
      <4>1. UNCHANGED cur
        BY <1>4, <3>2 DEF Connect, ConnectFails, Stop, HandlerRaises, RepublishFails,
           ToDlqFails
      <4>2. AfterFailure(cur[w]) \in {"retry", "todlq"}
        BY DEF AfterFailure
      <4>3. \/ UNCHANGED pc
            \/ \E label \in {"idle", "retry", "todlq", "requeue", "reject"} : GoTo(w, label)
        BY <1>4, <3>2, <4>2 DEF Connect, ConnectFails, Stop, HandlerRaises, RepublishFails,
           ToDlqFails, GoTo
      <4> QED
        BY <2>2, <4>1, <4>3 DEF GoTo, Structure, TypeOK
    <3> QED
      BY <3>1, <3>2
  <2> QED
    BY <1>0, <2>1, <2>2, DurableQuiet
<1>5. ASSUME NEW w \in Workers, Deliver(w) PROVE Durable'
  BY <1>0, <1>5, DurableDeliver
<1>6. ASSUME NEW w \in Workers,
             \/ ConnectionLost(w) \/ StopBetweenDeliveries(w) \/ Interrupt(w)
             \/ ConsumeError(w) \/ Crash(w) \/ EnvelopeError(w) \/ ToDlqUnconfirmed(w)
      PROVE  Durable'
  <2>1. CASE ConnectionLost(w)
    BY <1>0, <2>1, DurableDrop DEF ConnectionLost, producerVars, historyVars
  <2>2. CASE ToDlqUnconfirmed(w)
    <3>1. /\ DropConnection(w, ready) /\ GoTo(w, "reject") /\ UNCHANGED cur
          /\ dlq \subseteq dlq' /\ UNCHANGED <<result, done>>
      BY <2>2 DEF ToDlqUnconfirmed, producerVars, historyVars
    <3>2. \A v \in Workers : pc'[v] = "ack" => pc[v] = "ack"
      BY <3>1 DEF GoTo, Structure, TypeOK
    <3> QED
      BY <1>0, <3>1, <3>2, DurableDrop
  <2>3. ASSUME NEW code, Exit(w, code) PROVE Durable'
    <3>1. DropConnection(w, ready) /\ UNCHANGED <<dlq, result, done>>
      BY <2>3 DEF Exit, producerVars, historyVars
    <3>2. \A v \in Workers : pc'[v] = "ack" => pc[v] = "ack" /\ cur'[v] = cur[v]
      BY <2>3 DEF Exit, Structure, TypeOK
    <3> QED
      BY <1>0, <3>1, <3>2, DurableDrop
  <2>4. \/ ConnectionLost(w) \/ ToDlqUnconfirmed(w)
        \/ \E code \in {"clean", "failed"} : Exit(w, code)
    BY <1>6 DEF StopBetweenDeliveries, Interrupt, ConsumeError, Crash, EnvelopeError
  <2> QED
    BY <2>1, <2>2, <2>3, <2>4
<1>7. ASSUME NEW w \in Workers, HandlerReturns(w) PROVE Durable'
  BY <1>0, <1>7, DurableHandlerReturns
<1>8. ASSUME NEW w \in Workers, RepublishConfirmed(w) \/ RepublishUnconfirmed(w)
      PROVE  Durable'
  BY <1>0, <1>8, DurableRepublish
<1>9. ASSUME NEW w \in Workers, ToDlqConfirmed(w) PROVE Durable'
  BY <1>0, <1>9, DurableToDlqConfirmed
<1>10. ASSUME NEW w \in Workers, Ack(w) \/ NackRequeue(w) \/ NackReject(w)
       PROVE  Durable'
  BY <1>0, <1>10, DurableAck, DurableNackRequeue, DurableNackReject
<1> QED
  BY <1>1, <1>2, <1>3, <1>4, <1>5, <1>6, <1>7, <1>8, <1>9, <1>10
     DEF Next, WorkerStep, Republish, ToDlq

\* Nothing has entered and nobody acks.
LEMMA DurableInit == Init => Durable
<1> SUFFICES ASSUME Init PROVE Durable
  OBVIOUS
<1>1. Entered = {}
  BY DEF Init, Entered
<1>2. \A w \in Workers : pc[w] # "ack"
  BY DEF Init
<1> QED
  BY <1>1, <1>2 DEF Durable

\* The inductive invariant behind NoLoss.
THEOREM DurabilityInvariant == Spec => []DurableInvariant
<1>1. Init => DurableInvariant
  BY StructureInit, CountedInit, DurableInit DEF DurableInvariant, DlqStaysBound, Init
<1>2. DurableInvariant /\ [Next]_vars => DurableInvariant'
  <2> SUFFICES ASSUME DurableInvariant, [Next]_vars PROVE DurableInvariant'
    OBVIOUS
  <2>1. Structure'
    BY StructureStep DEF DurableInvariant
  <2>2. Counted'
    BY <2>1, CountedStep DEF DurableInvariant
  <2>3. DlqStaysBound'
    BY DlqStaysBoundStep DEF DurableInvariant
  <2>4. Durable'
    BY <2>1, DurableStep DEF DurableInvariant
  <2> QED
    BY <2>1, <2>2, <2>3, <2>4 DEF DurableInvariant
<1> QED
  BY <1>1, <1>2, PTL DEF Spec

\* Whatever an operator does to the dead-letter queue, the only tasks that can
\* vanish are those nobody can use and those whose handler has raised
\* MaxRetries times.
THEOREM OnlyPoisonIsLost == Spec => []LossOnlyOfPoison
<1>1. DurableInvariant => LossOnlyOfPoison
  BY Zenon DEF DurableInvariant, Durable, LossOnlyOfPoison, Accounted, Spent
<1> QED
  BY <1>1, DurabilityInvariant, PTL

\* At least once: as long as the dead-letter queue stays bound, a task that
\* entered the work queue is held by the broker until it has been executed or
\* dead-lettered, whatever crashes, is lost or is retried.
THEOREM NothingIsLost ==
  ASSUME ~DlqMayUnbind
  PROVE  Spec => []NoLoss
<1>1. DurableInvariant => NoLoss
  BY DEF DurableInvariant, Durable, NoLoss, Accounted, Spent
<1> QED
  BY <1>1, DurabilityInvariant, PTL

\* An ack is only sent for a delivery whose handler returned, whose task is in
\* the dead-letter queue, or whose retry is in the work queue.
THEOREM AcksAreJustified ==
  ASSUME ~DlqMayUnbind
  PROVE  Spec => []AckJustified
<1>1. DurableInvariant => AckJustified
  BY DEF DurableInvariant, Durable, AckJustified, Justified, Accounted, Spent
<1> QED
  BY <1>1, DurabilityInvariant, PTL

-----------------------------------------------------------------------------
(***************************************************************************)
(* The queue implements the ledger.  A step of the code is one step of the *)
(* ledger or invisible: deliveries, retries, requeues, lost connections    *)
(* and restarts move the copies of a task without changing whether the     *)
(* queue holds it.                                                         *)
(***************************************************************************)
HeldJobs == {j \in Jobs : Queued(j)}

AcceptedJobs == {j \in Jobs : result[j] = "true"}

\* A step the ledger does not see.
LEMMA LedgerStutters ==
  ASSUME Entered' = Entered, AcceptedJobs' = AcceptedJobs, HeldJobs' = HeldJobs,
         done' = done, DeadJobs' = DeadJobs
  PROVE  UNCHANGED Ledger!ledgerVars
BY DEF Ledger!ledgerVars, HeldJobs, AcceptedJobs

\* A task enters.
LEMMA LedgerSubmits ==
  ASSUME NEW j \in Jobs, j \notin Entered, Entered' = Entered \cup {j},
         HeldJobs' = HeldJobs \cup {j},
         AcceptedJobs' \in {AcceptedJobs, AcceptedJobs \cup {j}},
         done' = done, DeadJobs' = DeadJobs
  PROVE  Ledger!LedgerNext
<1>1. Ledger!Submit(j)
  BY DEF Ledger!Submit, HeldJobs, AcceptedJobs
<1> QED
  BY <1>1 DEF Ledger!LedgerNext

\* A step that leaves the broker's set of messages alone.
LEMMA LedgerSeesNothing ==
  ASSUME InBroker' = InBroker, UNCHANGED <<result, dlq, done>>
  PROVE  UNCHANGED Ledger!ledgerVars
<1>1. HeldJobs' = HeldJobs
  BY DEF HeldJobs, Queued
<1>2. Entered' = Entered /\ AcceptedJobs' = AcceptedJobs /\ DeadJobs' = DeadJobs
  BY DEF Entered, AcceptedJobs, DeadJobs
<1> QED
  BY <1>1, <1>2, LedgerStutters

\* enqueue, by any publisher: the task enters, or nothing happens.
LEMMA LedgerProducer ==
  ASSUME DurableInvariant, NEW j \in Jobs, Enqueue(j) \/ ForeignPublish(j)
  PROVE  Ledger!LedgerNext \/ UNCHANGED Ledger!ledgerVars
<1>0. Structure
  BY DEF DurableInvariant
<1>1. UNCHANGED <<unacked, dlq, done>> /\ DeadJobs' = DeadJobs
  BY DEF Enqueue, EnqueueConfirmed, EnqueueFailed, EnqueueUnconfirmed,
         ForeignPublish, brokerVars, historyVars, DeadJobs
<1>2. result[j] = "new" /\ result' = [result EXCEPT ![j] = result'[j]]
  BY <1>0 DEF Enqueue, EnqueueConfirmed, EnqueueFailed, EnqueueUnconfirmed, Enqueueable,
         ForeignPublish, Structure, TypeOK
<1>3. \A i \in Jobs : i # j => result'[i] = result[i]
  BY <1>0, <1>2 DEF Structure, TypeOK
<1>4. CASE EnqueueFailed(j)
  <2>1. InBroker' = InBroker
    BY <1>1, <1>4 DEF EnqueueFailed, InBroker
  <2>2. result'[j] = "false"
    BY <1>0, <1>4 DEF EnqueueFailed, Structure, TypeOK
  <2>3. Entered' = Entered /\ AcceptedJobs' = AcceptedJobs
    BY <1>2, <1>3, <2>2 DEF Entered, AcceptedJobs
  <2>4. HeldJobs' = HeldJobs
    BY <2>1 DEF HeldJobs, Queued
  <2> QED
    BY <1>1, <2>3, <2>4, LedgerStutters
<1>5. CASE ~EnqueueFailed(j)
  <2>1. ready' = Append(ready, NewEnvelope(j))
    BY <1>5 DEF Enqueue, EnqueueConfirmed, EnqueueUnconfirmed, ForeignPublish
  <2>2. NewEnvelope(j) \in Msg /\ NewEnvelope(j).job = j
    BY NewEnvelopeTyped
  <2>3. InBroker' = InBroker \cup {NewEnvelope(j)}
    BY <1>0, <1>1, <2>1, <2>2, InBrokerPublish DEF Structure
  <2>4. HeldJobs' = HeldJobs \cup {j}
    BY <2>2, <2>3 DEF HeldJobs, Queued
  <2>5. result'[j] \in {"true", "unconfirmed", "foreign"}
    BY <1>0, <1>5 DEF Enqueue, EnqueueConfirmed, EnqueueUnconfirmed, ForeignPublish,
       Structure, TypeOK
  <2>6. j \notin Entered /\ Entered' = Entered \cup {j}
    BY <1>2, <1>3, <2>5 DEF Entered
  <2>7. AcceptedJobs' \in {AcceptedJobs, AcceptedJobs \cup {j}}
    BY <1>2, <1>3 DEF AcceptedJobs
  <2> QED
    BY <1>1, <2>4, <2>6, <2>7, LedgerSubmits
<1> QED
  BY <1>4, <1>5

\* The handler returns.
LEMMA LedgerCompletes ==
  ASSUME DurableInvariant, NEW w \in Workers, HandlerReturns(w)
  PROVE  Ledger!LedgerNext
<1>1. UNCHANGED <<ready, unacked, dlq, result>> /\ pc[w] \in Busy
  BY DEF HandlerReturns, brokerVars, producerVars, Busy
<1>2. PICK c \in Jobs : c = cur[w].job /\ c \in Entered
  <2>1. cur[w] \in Msg /\ Tracked(cur[w])
    BY <1>1, CirculatingParts DEF DurableInvariant, Structure, ProcessShape, Counted
  <2> QED
    BY <2>1, MsgFields DEF Tracked
<1>3. done' = done \cup {c}
  BY <1>2 DEF HandlerReturns
<1>4. InBroker' = InBroker
  BY <1>1 DEF InBroker
<1>5. /\ HeldJobs' = HeldJobs /\ Entered' = Entered /\ AcceptedJobs' = AcceptedJobs
      /\ DeadJobs' = DeadJobs
  BY <1>1, <1>4 DEF HeldJobs, Queued, Entered, AcceptedJobs, DeadJobs
<1>6. Ledger!Complete(c)
  BY <1>2, <1>3, <1>5 DEF Ledger!Complete, HeldJobs, AcceptedJobs
<1> QED
  BY <1>6 DEF Ledger!LedgerNext

\* On an open connection the broker still holds the delivery in hand.
LEMMA InHandIsHeld ==
  ASSUME Structure, NEW w \in Workers, pc[w] \in Busy, conn[w] = "open"
  PROVE  cur[w] \in InBroker /\ cur[w] \in Msg
<1>1. unacked[w] # <<>> /\ Head(unacked[w]) = cur[w] /\ cur[w] \in Msg
  BY DEF Structure, WindowMatches, ProcessShape, Busy
<1>2. cur[w] \in Range(unacked[w])
  BY <1>1, HeadTailFacts DEF Structure, TypeOK
<1> QED
  BY <1>1, <1>2 DEF InBroker

\* A retry is one more copy of a task the queue already holds.
LEMMA LedgerRepublish ==
  ASSUME DurableInvariant, NEW w \in Workers, RepublishConfirmed(w) \/ RepublishUnconfirmed(w)
  PROVE  UNCHANGED Ledger!ledgerVars
<1>0. Structure
  BY DEF DurableInvariant
<1>1. pc[w] = "retry" /\ pc[w] \in Busy /\ conn[w] = "open" /\ UNCHANGED <<result, dlq, done>>
  BY DEF RepublishConfirmed, RepublishUnconfirmed, Busy, producerVars, historyVars
<1>2. PICK m \in Msg : m = cur[w] /\ m \in InBroker
  BY <1>0, <1>1, InHandIsHeld
<1>3. PICK n \in Msg : n = Retried(m) /\ n.job = m.job
  <2>1. m.attempts + 1 < MaxRetries
    BY <1>0, <1>1, <1>2 DEF Structure, ProcessShape
  <2> QED
    BY <2>1, RetriedTyped
<1>4. Append(ready, n) \in Seq(Msg) /\ Range(Append(ready, n)) = Range(ready) \cup {n}
  BY <1>0, AppendFacts DEF Structure, TypeOK
<1>5. InBroker' = InBroker \cup {n}
  <2>1. CASE RepublishConfirmed(w)
    BY <1>0, <1>2, <1>3, <2>1, InBrokerPublish DEF RepublishConfirmed, Structure
  <2>2. CASE RepublishUnconfirmed(w)
    <3>1. DropConnection(w, Append(ready, n))
      BY <1>2, <1>3, <2>2 DEF RepublishUnconfirmed
    <3>2. InBroker' = InBroker \cup Range(Append(ready, n))
      BY <1>0, <1>4, <3>1, InBrokerDrop DEF Structure
    <3>3. Range(ready) \subseteq InBroker
      BY DEF InBroker
    <3> QED
      BY <1>4, <3>2, <3>3
  <2> QED
    BY <2>1, <2>2
<1>6. HeldJobs' = HeldJobs
  BY <1>2, <1>3, <1>5 DEF HeldJobs, Queued
<1>7. Entered' = Entered /\ AcceptedJobs' = AcceptedJobs /\ DeadJobs' = DeadJobs
  BY <1>1 DEF Entered, AcceptedJobs, DeadJobs
<1> QED
  BY <1>1, <1>6, <1>7, LedgerStutters

\* A confirmed dead letter buries a task the queue still holds.
LEMMA LedgerBuries ==
  ASSUME DurableInvariant, NEW w \in Workers, ToDlqConfirmed(w) \/ ToDlqUnconfirmed(w)
  PROVE  Ledger!LedgerNext
<1>0. Structure
  BY DEF DurableInvariant
<1>1. /\ pc[w] \in Busy /\ conn[w] = "open" /\ UNCHANGED <<result, done>>
      /\ dlq' = dlq \cup {DeadLetter(cur[w])}
  BY DEF ToDlqConfirmed, ToDlqUnconfirmed, Busy, producerVars, historyVars
<1>2. PICK m \in Msg : m = cur[w] /\ m \in InBroker
  BY <1>0, <1>1, InHandIsHeld
<1>3. DeadJobs' = DeadJobs \cup {m.job} /\ m.job \in Jobs /\ m.job \in HeldJobs
  BY <1>1, <1>2, DeadLetterTyped, MsgFields DEF DeadJobs, HeldJobs, Queued
<1>4. InBroker' = InBroker
  <2>1. CASE ToDlqConfirmed(w)
    BY <2>1 DEF ToDlqConfirmed, InBroker
  <2>2. CASE ToDlqUnconfirmed(w)
    <3>1. DropConnection(w, ready) /\ ready \in Seq(Msg)
      BY <1>0, <2>2 DEF ToDlqUnconfirmed, Structure, TypeOK
    <3>2. InBroker' = InBroker \cup Range(ready)
      BY <1>0, <3>1, InBrokerDrop DEF Structure
    <3> QED
      BY <3>2 DEF InBroker
  <2> QED
    BY <2>1, <2>2
<1>5. HeldJobs' = HeldJobs /\ Entered' = Entered /\ AcceptedJobs' = AcceptedJobs
  BY <1>1, <1>4 DEF HeldJobs, Queued, Entered, AcceptedJobs
<1>6. Ledger!Bury(m.job)
  BY <1>1, <1>3, <1>5 DEF Ledger!Bury, HeldJobs, AcceptedJobs
<1> QED
  BY <1>3, <1>6 DEF Ledger!LedgerNext

\* Settling the delivery in hand can only make the queue let go of its task.
LEMMA HeldAfterSettle ==
  ASSUME DurableInvariant, NEW w \in Workers, pc[w] \in Busy, conn[w] = "open",
         Settled(w), Range(ready) \subseteq Range(ready'),
         Range(ready') \subseteq Range(ready) \cup {cur[w]},
         NEW j, j = cur[w].job
  PROVE  /\ j \in HeldJobs
         /\ HeldJobs' \in {HeldJobs, HeldJobs \ {j}}
<1>0. Structure
  BY DEF DurableInvariant
<1>1. InBroker \subseteq InBroker' \cup {cur[w]}
  BY <1>0, InBrokerSettle
<1>2. InBroker' \subseteq InBroker /\ cur[w] \in InBroker
  BY <1>0, InBrokerSettleOnly
<1>3. j \in HeldJobs
  BY <1>0, <1>2, InHandIsHeld, MsgFields DEF HeldJobs, Queued
<1>4. HeldJobs' \subseteq HeldJobs
  BY <1>2 DEF HeldJobs, Queued
<1>5. HeldJobs \subseteq HeldJobs' \cup {j}
  BY <1>1 DEF HeldJobs, Queued
<1> QED
  BY <1>3, <1>4, <1>5

\* An ack, or the end of a delivery on a lost connection: the queue lets go of
\* the task, if at all, because it is done or dead.  This is where NoLoss is
\* needed.
LEMMA LedgerAck ==
  ASSUME ~DlqMayUnbind, DurableInvariant, DurableInvariant', NEW w \in Workers, Ack(w)
  PROVE  Ledger!LedgerNext \/ UNCHANGED Ledger!ledgerVars
<1>0. Structure
  BY DEF DurableInvariant
<1>1. /\ pc[w] = "ack" /\ pc[w] \in Busy /\ UNCHANGED <<ready, dlq, result, done>>
      /\ cur[w] \in Msg
  BY <1>0 DEF Ack, EndDelivery, producerVars, historyVars, Busy, Structure, ProcessShape
<1>2. /\ Entered' = Entered /\ AcceptedJobs' = AcceptedJobs /\ DeadJobs' = DeadJobs
  BY <1>1 DEF Entered, AcceptedJobs, DeadJobs
<1>3. CASE UNCHANGED unacked
  BY <1>1, <1>3, LedgerSeesNothing DEF InBroker
<1>4. CASE conn[w] = "open" /\ Settled(w)
  <2>1. PICK j \in Jobs : j = cur[w].job
    BY <1>1, MsgFields
  <2>2. j \in HeldJobs /\ HeldJobs' \in {HeldJobs, HeldJobs \ {j}}
    BY <1>1, <1>4, <2>1, HeldAfterSettle
  <2>3. CASE HeldJobs' = HeldJobs
    BY <1>1, <1>2, <2>3, LedgerStutters
  <2>4. CASE HeldJobs' # HeldJobs
    <3>1. ~Queued(j)' /\ HeldJobs' = HeldJobs \ {j}
      BY <2>2, <2>4 DEF HeldJobs
    <3>2. j \in Entered
      <4>1. Tracked(cur[w])
        BY <1>1, CirculatingParts DEF DurableInvariant, Counted
      <4> QED
        BY <2>1, <4>1 DEF Tracked
    <3>3. Accounted(j)'
      BY <1>2, <3>1, <3>2 DEF DurableInvariant, Durable
    <3>4. j \in done \cup DeadJobs
      BY <1>1, <1>2, <3>3 DEF Accounted, Spent
    <3>5. Ledger!Release(j)
      BY <1>1, <1>2, <2>2, <3>1, <3>4 DEF Ledger!Release, HeldJobs, AcceptedJobs
    <3> QED
      BY <3>5 DEF Ledger!LedgerNext
  <2> QED
    BY <2>3, <2>4
<1> QED
  BY <1>3, <1>4 DEF Ack

\* A requeue keeps the task.
LEMMA LedgerRequeue ==
  ASSUME DurableInvariant, NEW w \in Workers, NackRequeue(w)
  PROVE  UNCHANGED Ledger!ledgerVars
<1>0. Structure
  BY DEF DurableInvariant
<1>1. pc[w] \in Busy /\ UNCHANGED <<dlq, result, done>>
  BY DEF NackRequeue, EndDelivery, producerVars, historyVars, Busy
<1>2. CASE UNCHANGED <<ready, unacked>>
  BY <1>1, <1>2, LedgerSeesNothing DEF InBroker
<1>3. CASE conn[w] = "open" /\ ready' = <<Head(unacked[w])>> \o ready /\ Settled(w)
  <2>1. PICK m \in Msg : m = cur[w] /\ m = Head(unacked[w])
    BY <1>0, <1>1, <1>3 DEF Structure, WindowMatches, ProcessShape, Busy
  <2> DEFINE t == <<m>>
  <2>2. t \in Seq(Msg) /\ Range(t) = {m} /\ ready' = t \o ready /\ ready \in Seq(Msg)
    BY <1>0, <1>3, <2>1 DEF Range, Structure, TypeOK
  <2> HIDE DEF t
  <2>3. Range(ready') = {m} \cup Range(ready)
    BY <2>2, ConcatFacts
  <2>4. InBroker \subseteq InBroker' \cup {m}
    BY <1>0, <1>1, <1>3, <2>1, <2>3, InBrokerSettle
  <2>5. InBroker' \subseteq InBroker
    BY <1>0, <1>1, <1>3, <2>1, <2>3, InBrokerSettleOnly
  <2>6. m \in InBroker'
    BY <2>3 DEF InBroker
  <2>7. InBroker' = InBroker
    BY <2>4, <2>5, <2>6
  <2> QED
    BY <1>1, <2>7, LedgerSeesNothing
<1> QED
  BY <1>2, <1>3 DEF NackRequeue

\* A reject buries the task, because something is bound to the exchange.
LEMMA LedgerReject ==
  ASSUME ~DlqMayUnbind, DurableInvariant, NEW w \in Workers, NackReject(w)
  PROVE  Ledger!LedgerNext \/ UNCHANGED Ledger!ledgerVars
<1>0. Structure /\ dlqBound
  BY DEF DurableInvariant, DlqStaysBound
<1>1. pc[w] \in Busy /\ UNCHANGED <<ready, result, done>> /\ cur[w] \in Msg
  BY <1>0 DEF NackReject, EndDelivery, producerVars, historyVars, Busy, Structure, ProcessShape
<1>2. CASE UNCHANGED <<unacked, dlq>>
  BY <1>1, <1>2, LedgerSeesNothing DEF InBroker
<1>3. CASE /\ conn[w] = "open" /\ Settled(w)
           /\ dlq' = dlq \cup {[job |-> cur[w].job, attempts |-> cur[w].attempts,
                                reason |-> "none"]}
  <2>1. PICK j \in Jobs : j = cur[w].job
    BY <1>1, MsgFields
  <2>2. j \in HeldJobs /\ HeldJobs' \in {HeldJobs, HeldJobs \ {j}}
    BY <1>1, <1>3, <2>1, HeldAfterSettle
  <2>3. DeadJobs' = DeadJobs \cup {j}
    <3> DEFINE d == [job |-> cur[w].job, attempts |-> cur[w].attempts, reason |-> "none"]
    <3>1. d.job = j /\ dlq' = dlq \cup {d}
      BY <1>3, <2>1
    <3> HIDE DEF d
    <3> QED
      BY <3>1 DEF DeadJobs
  <2>4. Entered' = Entered /\ AcceptedJobs' = AcceptedJobs
    BY <1>1 DEF Entered, AcceptedJobs
  <2>5. Ledger!Bury(j)
    BY <1>1, <2>2, <2>3, <2>4 DEF Ledger!Bury, HeldJobs, AcceptedJobs
  <2> QED
    BY <2>5 DEF Ledger!LedgerNext
<1> QED
  BY <1>0, <1>2, <1>3 DEF NackReject

\* A connection that ends returns what it held.
LEMMA LedgerDrop ==
  ASSUME Structure, NEW w \in Workers, DropConnection(w, ready),
         UNCHANGED <<result, dlq, done>>
  PROVE  UNCHANGED Ledger!ledgerVars
<1>1. InBroker' = InBroker \cup Range(ready)
  BY InBrokerDrop DEF Structure, TypeOK
<1>2. InBroker' = InBroker
  BY <1>1 DEF InBroker
<1> QED
  BY <1>2, LedgerSeesNothing

\* Every step of the queue is a step of the ledger or invisible to it.
LEMMA LedgerStep ==
  ASSUME ~DlqMayUnbind, DurableInvariant, DurableInvariant', [Next]_vars
  PROVE  Ledger!LedgerNext \/ UNCHANGED Ledger!ledgerVars
<1>0. Structure
  BY DEF DurableInvariant
<1>1. CASE UNCHANGED vars
  BY <1>1, LedgerSeesNothing DEF InBroker, vars
<1>2. CASE \E j \in Jobs : Enqueue(j) \/ ForeignPublish(j)
  BY <1>2, LedgerProducer
<1>3. CASE ProducerConnectionDies \/ DlqUnbound
  BY <1>3, LedgerSeesNothing DEF ProducerConnectionDies, DlqUnbound, InBroker, brokerVars,
     producerVars, historyVars
<1>4. ASSUME NEW w \in Workers,
             \/ Connect(w) \/ ConnectFails(w) \/ Stop(w) \/ BeginDelivery(w)
             \/ HandlerRaises(w) \/ RepublishFails(w) \/ ToDlqFails(w)
      PROVE  UNCHANGED Ledger!ledgerVars
  <2>1. UNCHANGED <<ready, unacked, dlq, done, result>>
    BY <1>4 DEF Connect, ConnectFails, Stop, BeginDelivery, HandlerRaises, RepublishFails,
       ToDlqFails, brokerVars, producerVars, historyVars
  <2> QED
    BY <2>1, LedgerSeesNothing DEF InBroker
<1>5. ASSUME NEW w \in Workers, Deliver(w) PROVE UNCHANGED Ledger!ledgerVars
  <2>1. InBroker' = InBroker
    BY <1>0, <1>5, InBrokerDeliver DEF Structure
  <2> QED
    BY <1>5, <2>1, LedgerSeesNothing DEF Deliver, producerVars, historyVars
<1>6. ASSUME NEW w \in Workers,
             \/ ConnectionLost(w) \/ StopBetweenDeliveries(w) \/ Interrupt(w)
             \/ ConsumeError(w) \/ Crash(w) \/ EnvelopeError(w)
      PROVE  UNCHANGED Ledger!ledgerVars
  <2>1. DropConnection(w, ready) /\ UNCHANGED <<result, dlq, done>>
    BY <1>6 DEF ConnectionLost, StopBetweenDeliveries, Interrupt, ConsumeError, Crash,
       EnvelopeError, Exit, producerVars, historyVars
  <2> QED
    BY <1>0, <2>1, LedgerDrop
<1>7. ASSUME NEW w \in Workers, HandlerReturns(w) PROVE Ledger!LedgerNext
  BY <1>7, LedgerCompletes
<1>8. ASSUME NEW w \in Workers, RepublishConfirmed(w) \/ RepublishUnconfirmed(w)
      PROVE  UNCHANGED Ledger!ledgerVars
  BY <1>8, LedgerRepublish
<1>9. ASSUME NEW w \in Workers, ToDlqConfirmed(w) \/ ToDlqUnconfirmed(w)
      PROVE  Ledger!LedgerNext
  BY <1>9, LedgerBuries
<1>10. ASSUME NEW w \in Workers, Ack(w) \/ NackRequeue(w) \/ NackReject(w)
       PROVE  Ledger!LedgerNext \/ UNCHANGED Ledger!ledgerVars
  BY <1>10, LedgerAck, LedgerRequeue, LedgerReject
<1> QED
  BY <1>1, <1>2, <1>3, <1>4, <1>5, <1>6, <1>7, <1>8, <1>9, <1>10
     DEF Next, WorkerStep, Republish, ToDlq

\* The ledger is empty at first.
LEMMA LedgerInitially == Init => Ledger!LedgerInit
<1> SUFFICES ASSUME Init PROVE Ledger!LedgerInit
  OBVIOUS
<1>1. Entered = {} /\ {j \in Jobs : result[j] = "true"} = {} /\ DeadJobs = {} /\ done = {}
  BY DEF Init, Entered, DeadJobs
<1>2. InBroker = {}
  BY EmptyRange DEF Init, InBroker
<1>3. {j \in Jobs : Queued(j)} = {}
  BY <1>2 DEF Queued
<1> QED
  BY <1>1, <1>3 DEF Ledger!LedgerInit

\* Refinement: as long as the dead-letter queue stays bound, the producer, the
\* broker and the consumers together do nothing but what the ledger of JobLedger
\* allows.  A task enters once, is executed or dead-lettered only after it has
\* entered, and is let go only when it is done or dead.
THEOREM QueueImplementsLedger ==
  ASSUME ~DlqMayUnbind
  PROVE  Spec => ImplementsLedger
<1>1. Init => Ledger!LedgerInit
  BY LedgerInitially
<1>2. DurableInvariant /\ DurableInvariant' /\ [Next]_vars =>
        [Ledger!LedgerNext]_(Ledger!ledgerVars)
  BY LedgerStep
<1> QED
  BY <1>1, <1>2, DurabilityInvariant, PTL DEF Spec, ImplementsLedger, Ledger!LedgerSpec
=============================================================================
