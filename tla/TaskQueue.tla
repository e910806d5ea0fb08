----------------------------- MODULE TaskQueue -----------------------------
(***************************************************************************)
(* The background task queue of app/queue: the producer side of            *)
(* RabbitMQTaskQueue (task_queue.py), the RabbitMQ broker as the code uses *)
(* it (external), and the consumers: Worker (worker.py) and                *)
(* RabbitMQTaskQueue.consume (task_queue.py), which share one delivery     *)
(* policy.  A consumer is a single-threaded process; its handler, its      *)
(* publishes and its acknowledgement are separate steps, because the       *)
(* connection, the process or the broker's confirm can be lost in between. *)
(***************************************************************************)
EXTENDS Integers, Sequences, FiniteSets, Functions

CONSTANTS
  Jobs,         \* tasks that may be published, one per publish call
  Kind,         \* what the body of each task decodes to (see Kinds)
  Workers,      \* consumer processes
  Drainers,     \* those of them that run RabbitMQTaskQueue.consume
  MaxRetries,   \* queue_max_retries, at least 1 after the constructor
  Prefetch,     \* queue_prefetch, at least 1 after the constructor
  NoMsg,        \* "no delivery in hand"
  DlqMayUnbind, \* may an operator unbind the dead-letter queue at run time
  MaxFaults,    \* bound on crashes, lost connections and failed publishes
  MaxStops      \* bound on SIGTERMs

\* registered: an envelope whose type has a handler.  unknown: an envelope
\* whose type has none.  garbage: not JSON.  nonobject: JSON that the reads of
\* the envelope's fields raise on, such as a body that is not an object.
Kinds == {"registered", "unknown", "garbage", "nonobject"}

ASSUME QueueAssumption ==
  /\ Kind \in [Jobs -> Kinds]
  /\ Drainers \subseteq Workers
  /\ MaxRetries \in Nat \ {0}
  /\ Prefetch \in Nat \ {0}
  /\ MaxFaults \in Nat
  /\ MaxStops \in Nat
  /\ DlqMayUnbind \in BOOLEAN

\* A body on the work queue: the task and its envelope's attempts counter.
Msg == [job : Jobs, attempts : 0..(MaxRetries - 1)]

\* A message in the dead-letter queue, with its x-dlq-reason header ("none"
\* when the broker itself moved it there).
Reasons == {"decode-error", "no-handler", "max-retries", "none"}
DeadMsg == [job : Jobs, attempts : 0..MaxRetries, reason : Reasons]

ASSUME NoMsgAssumption == NoMsg \notin Msg

VARIABLES
  ready,     \* broker: the work queue vp.tasks.q, oldest first
  unacked,   \* broker: per consumer, deliveries waiting for an ack
  dlq,       \* broker: the dead-letter queue vp.tasks.dlq
  dlqBound,  \* broker: vp.tasks.dlq is bound to the DLX
  producer,  \* RabbitMQTaskQueue._channel in the app: none, open or stale
  result,    \* what became of each publish call
  pc,        \* where each consumer is in run() / _handle_delivery
  conn,      \* each consumer's connection: open or lost
  buffer,    \* deliveries pika has received and not yet yielded
  cur,       \* the delivery in hand
  stopping,  \* Worker._stopping
  exitcode,  \* how each consumer process last ended
  done,      \* history: tasks whose handler has returned
  failures,  \* history: how often each task's handler has raised
  faults,    \* number of faults so far
  stops      \* number of SIGTERMs so far

brokerVars == <<ready, unacked, dlq, dlqBound>>
producerVars == <<producer, result>>
workerVars == <<pc, conn, buffer, cur, stopping, exitcode>>
historyVars == <<done, failures>>
vars == <<ready, unacked, dlq, dlqBound, producer, result, pc, conn, buffer,
          cur, stopping, exitcode, done, failures, faults, stops>>

-----------------------------------------------------------------------------
Busy == {"handler", "retry", "todlq", "ack", "requeue", "reject"}

TypeOK ==
  /\ ready \in Seq(Msg)
  /\ unacked \in [Workers -> Seq(Msg)]
  /\ dlq \subseteq DeadMsg
  /\ dlqBound \in BOOLEAN
  /\ producer \in {"none", "open", "stale"}
  /\ result \in [Jobs -> {"new", "true", "false", "unconfirmed", "foreign"}]
  /\ pc \in [Workers -> {"off", "idle"} \cup Busy]
  /\ conn \in [Workers -> {"open", "lost"}]
  /\ buffer \in [Workers -> Seq(Msg)]
  /\ cur \in [Workers -> Msg \cup {NoMsg}]
  /\ stopping \in [Workers -> BOOLEAN]
  /\ exitcode \in [Workers -> {"new", "clean", "failed"}]
  /\ done \subseteq Jobs
  /\ failures \in [Jobs -> Nat]
  /\ faults \in 0..MaxFaults
  /\ stops \in 0..MaxStops

Init ==
  /\ ready = <<>>
  /\ unacked = [w \in Workers |-> <<>>]
  /\ dlq = {}
  /\ dlqBound = TRUE
  /\ producer = "none"
  /\ result = [j \in Jobs |-> "new"]
  /\ pc = [w \in Workers |-> "off"]
  /\ conn = [w \in Workers |-> "lost"]
  /\ buffer = [w \in Workers |-> <<>>]
  /\ cur = [w \in Workers |-> NoMsg]
  /\ stopping = [w \in Workers |-> FALSE]
  /\ exitcode = [w \in Workers |-> "new"]
  /\ done = {}
  /\ failures = [j \in Jobs |-> 0]
  /\ faults = 0
  /\ stops = 0

\* One more of the bounded number of things that can go wrong.
Fault == faults < MaxFaults /\ faults' = faults + 1

-----------------------------------------------------------------------------
(***************************************************************************)
(* The producer: RabbitMQTaskQueue.enqueue, one critical section under     *)
(* _lock, so one step per outcome.                                         *)
(***************************************************************************)
NewEnvelope(j) == [job |-> j, attempts |-> 0]

Enqueueable(j) == Kind[j] \in {"registered", "unknown"} /\ result[j] = "new"

\* _ensure_channel: a new connection declares the topology, which binds the
\* dead-letter queue again; an open channel is reused as it is.
EnsureChannel ==
  \/ producer = "none" /\ dlqBound' = TRUE
  \/ producer = "open" /\ UNCHANGED dlqBound

\* The broker confirms the publish: enqueue returns True.
EnqueueConfirmed(j) ==
  /\ Enqueueable(j)
  /\ EnsureChannel
  /\ producer' = "open"
  /\ ready' = Append(ready, NewEnvelope(j))
  /\ result' = [result EXCEPT ![j] = "true"]
  /\ UNCHANGED <<unacked, dlq, workerVars, historyVars, faults, stops>>

\* _ensure_channel returned None, before or after it declared the topology, or
\* the publish raised: enqueue drops the channel and returns False.  On a stale
\* channel this needs no new fault.
EnqueueFailed(j) ==
  /\ Enqueueable(j)
  /\ \/ producer = "stale" /\ UNCHANGED <<dlqBound, faults>>
     \/ producer = "none" /\ UNCHANGED dlqBound /\ Fault
     \/ EnsureChannel /\ Fault
  /\ producer' = "none"
  /\ result' = [result EXCEPT ![j] = "false"]
  /\ UNCHANGED <<ready, unacked, dlq, workerVars, historyVars, stops>>

\* The broker takes the message but its confirm is lost: the publish raises
\* and enqueue returns False for a task that is in the queue.
EnqueueUnconfirmed(j) ==
  /\ Enqueueable(j)
  /\ EnsureChannel
  /\ Fault
  /\ producer' = "none"
  /\ ready' = Append(ready, NewEnvelope(j))
  /\ result' = [result EXCEPT ![j] = "unconfirmed"]
  /\ UNCHANGED <<unacked, dlq, workerVars, historyVars, stops>>

\* The idle producer connection dies (nothing services its heartbeats
\* between two turns); is_open still says True until the next publish.
ProducerConnectionDies ==
  /\ producer = "open"
  /\ producer' = "stale"
  /\ UNCHANGED <<brokerVars, result, workerVars, historyVars, faults, stops>>

\* Another client of the broker publishes a body this code did not encode.
ForeignPublish(j) ==
  /\ Kind[j] \in {"garbage", "nonobject"}
  /\ result[j] = "new"
  /\ ready' = Append(ready, NewEnvelope(j))
  /\ result' = [result EXCEPT ![j] = "foreign"]
  /\ UNCHANGED <<unacked, dlq, dlqBound, producer, workerVars, historyVars,
                 faults, stops>>

-----------------------------------------------------------------------------
(***************************************************************************)
(* The broker's side of a consumer's connection.                           *)
(***************************************************************************)
\* Mutant: the consumer is registered with auto_ack.
DeliverAutoAck(w) ==
  /\ pc[w] # "off" /\ conn[w] = "open"
  /\ ready # <<>>
  /\ ready' = Tail(ready)
  /\ buffer' = [buffer EXCEPT ![w] = Append(@, Head(ready))]
  /\ UNCHANGED <<unacked, dlq, dlqBound, producerVars, pc, conn, cur, stopping,
                 exitcode, historyVars, faults, stops>>

\* The next message is pushed to a consumer, up to its prefetch count.
Deliver(w) ==
  /\ pc[w] # "off" /\ conn[w] = "open"
  /\ ready # <<>>
  /\ Len(unacked[w]) < Prefetch
  /\ ready' = Tail(ready)
  /\ unacked' = [unacked EXCEPT ![w] = Append(@, Head(ready))]
  /\ buffer' = [buffer EXCEPT ![w] = Append(@, Head(ready))]
  /\ UNCHANGED <<dlq, dlqBound, producerVars, pc, conn, cur, stopping, exitcode,
                 historyVars, faults, stops>>

\* A connection that ends returns its unacked deliveries to the front of q.
Requeued(w, q) == unacked[w] \o q

DropConnection(w, q) ==
  /\ ready' = Requeued(w, q)
  /\ unacked' = [unacked EXCEPT ![w] = <<>>]
  /\ conn' = [conn EXCEPT ![w] = "lost"]

\* The connection breaks under a consumer that does not know it yet: what
\* pika has buffered, and the delivery in hand, stay with the process.
ConnectionLost(w) ==
  /\ pc[w] # "off" /\ conn[w] = "open"
  /\ Fault
  /\ DropConnection(w, ready)
  /\ UNCHANGED <<dlq, dlqBound, producerVars, pc, buffer, cur, stopping, exitcode,
                 historyVars, stops>>

\* An operator removes the binding of the dead-letter queue.
DlqUnbound ==
  /\ DlqMayUnbind
  /\ dlqBound
  /\ Fault
  /\ dlqBound' = FALSE
  /\ UNCHANGED <<ready, unacked, dlq, producerVars, workerVars, historyVars, stops>>

-----------------------------------------------------------------------------
(***************************************************************************)
(* Life of a consumer process: main()/_run_worker, connect, run/consume.   *)
(***************************************************************************)
\* The process connects, declares the topology and starts to consume.
Connect(w) ==
  /\ pc[w] = "off"
  /\ pc' = [pc EXCEPT ![w] = "idle"]
  /\ conn' = [conn EXCEPT ![w] = "open"]
  /\ dlqBound' = TRUE
  /\ UNCHANGED <<ready, unacked, dlq, producerVars, buffer, cur, stopping, exitcode,
                 historyVars, faults, stops>>

\* connect() returns False, before or after it declared the topology: main
\* returns 1.
ConnectFails(w) ==
  /\ pc[w] = "off"
  /\ Fault
  /\ exitcode' = [exitcode EXCEPT ![w] = "failed"]
  /\ dlqBound' \in {dlqBound, TRUE}
  /\ UNCHANGED <<ready, unacked, dlq, producerVars, pc, conn, buffer, cur, stopping,
                 historyVars, stops>>

\* The process ends: its connection closes, its memory is gone.
Exit(w, code) ==
  /\ DropConnection(w, ready)
  /\ pc' = [pc EXCEPT ![w] = "off"]
  /\ buffer' = [buffer EXCEPT ![w] = <<>>]
  /\ cur' = [cur EXCEPT ![w] = NoMsg]
  /\ stopping' = [stopping EXCEPT ![w] = FALSE]
  /\ exitcode' = [exitcode EXCEPT ![w] = code]
  /\ UNCHANGED <<dlq, dlqBound, producerVars, historyVars>>

\* Mutant: the signal handler closes the connection itself, whatever the worker
\* is doing, instead of leaving that to the loop.
StopCloses(w) ==
  /\ w \notin Drainers
  /\ pc[w] # "off" /\ ~stopping[w]
  /\ stops < MaxStops
  /\ stops' = stops + 1
  /\ stopping' = [stopping EXCEPT ![w] = TRUE]
  /\ DropConnection(w, ready)
  /\ UNCHANGED <<dlq, dlqBound, producerVars, pc, buffer, cur, exitcode, historyVars,
                 faults>>

\* SIGINT or SIGTERM reaches a Worker: stop() sets a flag.
Stop(w) ==
  /\ w \notin Drainers
  /\ pc[w] # "off" /\ ~stopping[w]
  /\ stops < MaxStops
  /\ stops' = stops + 1
  /\ stopping' = [stopping EXCEPT ![w] = TRUE]
  /\ UNCHANGED <<brokerVars, producerVars, pc, conn, buffer, cur, exitcode,
                 historyVars, faults>>

\* run() sees the flag between two deliveries, cancels the consumer and
\* returns; main closes the connection and returns 0.
StopBetweenDeliveries(w) ==
  /\ pc[w] = "idle" /\ stopping[w]
  /\ Exit(w, "clean")
  /\ UNCHANGED <<faults, stops>>

\* Ctrl-C in consume(): KeyboardInterrupt unwinds whatever was in progress
\* (no except Exception stops it), and _run_worker returns 0.
Interrupt(w) ==
  /\ w \in Drainers
  /\ pc[w] # "off"
  /\ Fault
  /\ Exit(w, "clean")
  /\ UNCHANGED stops

\* The consume loop needs the lost connection and raises: exit code 1.
ConsumeError(w) ==
  /\ pc[w] = "idle" /\ conn[w] = "lost"
  /\ Exit(w, "failed")
  /\ UNCHANGED <<faults, stops>>

\* The process is killed, or the machine stops.
Crash(w) ==
  /\ pc[w] # "off"
  /\ Fault
  /\ Exit(w, "failed")
  /\ UNCHANGED stops

-----------------------------------------------------------------------------
(***************************************************************************)
(* _handle_delivery, step by step.                                         *)
(***************************************************************************)
\* run() takes the next delivery pika has buffered (after a lost connection
\* too), unless it has been told to stop.
NextDelivery(w) ==
  /\ pc[w] = "idle"
  /\ ~stopping[w]
  /\ buffer[w] # <<>>

\* Where the decoded body sends the delivery.
Dispatch(m) == IF Kind[m.job] = "registered" THEN "handler" ELSE "todlq"

BeginDelivery(w) ==
  /\ NextDelivery(w)
  /\ Kind[Head(buffer[w]).job] # "nonobject"
  /\ cur' = [cur EXCEPT ![w] = Head(buffer[w])]
  /\ buffer' = [buffer EXCEPT ![w] = Tail(@)]
  /\ pc' = [pc EXCEPT ![w] = Dispatch(Head(buffer[w]))]
  /\ UNCHANGED <<brokerVars, producerVars, conn, stopping, exitcode, historyVars,
                 faults, stops>>

\* envelope.get raises on a JSON body that is not an object; nothing in
\* _handle_delivery or run catches it, so the process exits with code 1.
EnvelopeError(w) ==
  /\ NextDelivery(w)
  /\ Kind[Head(buffer[w]).job] = "nonobject"
  /\ Exit(w, "failed")
  /\ UNCHANGED <<faults, stops>>

GoTo(w, label) == pc' = [pc EXCEPT ![w] = label]

HandlerReturns(w) ==
  /\ pc[w] = "handler"
  /\ done' = done \cup {cur[w].job}
  /\ GoTo(w, "ack")
  /\ UNCHANGED <<brokerVars, producerVars, conn, buffer, cur, stopping, exitcode,
                 failures, faults, stops>>

\* Mutant: the poison guard is off by one.
GiveUpEarly(m) == IF m.attempts + 2 >= MaxRetries THEN "todlq" ELSE "retry"

\* attempts + 1 failures so far: give up, or try again.
AfterFailure(m) == IF m.attempts + 1 >= MaxRetries THEN "todlq" ELSE "retry"

HandlerRaises(w) ==
  /\ pc[w] = "handler"
  /\ failures' = [failures EXCEPT ![cur[w].job] = @ + 1]
  /\ GoTo(w, AfterFailure(cur[w]))
  /\ UNCHANGED <<brokerVars, producerVars, conn, buffer, cur, stopping, exitcode,
                 done, faults, stops>>

\* The same envelope with attempts incremented, at the end of the queue.
Retried(m) == [m EXCEPT !.attempts = @ + 1]

\* Mutant: the original is requeued although its retry was published.
RepublishThenRequeue(w) ==
  /\ pc[w] = "retry" /\ conn[w] = "open"
  /\ ready' = Append(ready, Retried(cur[w]))
  /\ GoTo(w, "requeue")
  /\ UNCHANGED <<unacked, dlq, dlqBound, producerVars, conn, buffer, cur, stopping,
                 exitcode, historyVars, faults, stops>>

RepublishConfirmed(w) ==
  /\ pc[w] = "retry" /\ conn[w] = "open"
  /\ ready' = Append(ready, Retried(cur[w]))
  /\ GoTo(w, "ack")
  /\ UNCHANGED <<unacked, dlq, dlqBound, producerVars, conn, buffer, cur, stopping,
                 exitcode, historyVars, faults, stops>>

\* Mutant: a failed retry publish is logged and the original acked.
RepublishFailureAcked(w) ==
  /\ pc[w] = "retry"
  /\ \/ conn[w] = "open" /\ Fault
     \/ conn[w] = "lost" /\ UNCHANGED faults
  /\ GoTo(w, "ack")
  /\ UNCHANGED <<brokerVars, producerVars, conn, buffer, cur, stopping, exitcode,
                 historyVars, stops>>

\* Mutant: a failed retry publish is tried again until it succeeds.
RepublishUntilConfirmed(w) ==
  /\ pc[w] = "retry"
  /\ \/ conn[w] = "open" /\ Fault
     \/ conn[w] = "lost" /\ UNCHANGED faults
  /\ UNCHANGED <<brokerVars, producerVars, workerVars, historyVars, stops>>

\* The publish raises: refused by the broker, or the connection is gone.
RepublishFails(w) ==
  /\ pc[w] = "retry"
  /\ \/ conn[w] = "open" /\ Fault
     \/ conn[w] = "lost" /\ UNCHANGED faults
  /\ GoTo(w, "requeue")
  /\ UNCHANGED <<brokerVars, producerVars, conn, buffer, cur, stopping, exitcode,
                 historyVars, stops>>

\* The broker takes the copy, then the connection breaks before its confirm.
RepublishUnconfirmed(w) ==
  /\ pc[w] = "retry" /\ conn[w] = "open"
  /\ Fault
  /\ DropConnection(w, Append(ready, Retried(cur[w])))
  /\ GoTo(w, "requeue")
  /\ UNCHANGED <<dlq, dlqBound, producerVars, buffer, cur, stopping, exitcode,
                 historyVars, stops>>

\* The message _to_dlq publishes: its reason, and for a task that ran out of
\* attempts the incremented counter.
DeadLetter(m) ==
  CASE Kind[m.job] = "garbage" ->
         [job |-> m.job, attempts |-> m.attempts, reason |-> "decode-error"]
    [] Kind[m.job] = "unknown" ->
         [job |-> m.job, attempts |-> m.attempts, reason |-> "no-handler"]
    [] OTHER ->
         [job |-> m.job, attempts |-> m.attempts + 1, reason |-> "max-retries"]

ToDlqConfirmed(w) ==
  /\ pc[w] = "todlq" /\ conn[w] = "open" /\ dlqBound
  /\ dlq' = dlq \cup {DeadLetter(cur[w])}
  /\ GoTo(w, "ack")
  /\ UNCHANGED <<ready, unacked, dlqBound, producerVars, conn, buffer, cur, stopping,
                 exitcode, historyVars, faults, stops>>

\* _to_dlq returns False: refused, unroutable, or the connection is gone.
ToDlqFails(w) ==
  /\ pc[w] = "todlq"
  /\ \/ conn[w] = "open" /\ dlqBound /\ Fault
     \/ conn[w] = "open" /\ ~dlqBound /\ UNCHANGED faults
     \/ conn[w] = "lost" /\ UNCHANGED faults
  /\ GoTo(w, "reject")
  /\ UNCHANGED <<brokerVars, producerVars, conn, buffer, cur, stopping, exitcode,
                 historyVars, stops>>

ToDlqUnconfirmed(w) ==
  /\ pc[w] = "todlq" /\ conn[w] = "open" /\ dlqBound
  /\ Fault
  /\ dlq' = dlq \cup {DeadLetter(cur[w])}
  /\ DropConnection(w, ready)
  /\ GoTo(w, "reject")
  /\ UNCHANGED <<dlqBound, producerVars, buffer, cur, stopping, exitcode,
                 historyVars, stops>>

\* _handle_delivery returns to the loop.
EndDelivery(w) ==
  /\ GoTo(w, "idle")
  /\ cur' = [cur EXCEPT ![w] = NoMsg]
  /\ UNCHANGED <<producerVars, conn, buffer, stopping, exitcode, historyVars,
                 faults, stops>>

\* The broker settles the oldest delivery of the connection, the one in hand.
Settled(w) == unacked' = [unacked EXCEPT ![w] = Tail(@)]

\* Mutant: basic_ack(multiple=True) with the newest tag settles the window.
AckMultiple(w) ==
  /\ pc[w] = "ack"
  /\ \/ conn[w] = "open" /\ unacked' = [unacked EXCEPT ![w] = <<>>]
     \/ conn[w] = "lost" /\ UNCHANGED unacked
  /\ EndDelivery(w)
  /\ UNCHANGED <<ready, dlq, dlqBound>>

\* _safe_ack: on a lost connection it fails and is swallowed.
Ack(w) ==
  /\ pc[w] = "ack"
  /\ \/ conn[w] = "open" /\ Settled(w)
     \/ conn[w] = "lost" /\ UNCHANGED unacked
  /\ EndDelivery(w)
  /\ UNCHANGED <<ready, dlq, dlqBound>>

\* _safe_nack(requeue=True): back to its place at the head of the queue.
NackRequeue(w) ==
  /\ pc[w] = "requeue"
  /\ \/ /\ conn[w] = "open"
        /\ ready' = <<Head(unacked[w])>> \o ready
        /\ Settled(w)
     \/ conn[w] = "lost" /\ UNCHANGED <<ready, unacked>>
  /\ EndDelivery(w)
  /\ UNCHANGED <<dlq, dlqBound>>

\* _safe_nack(requeue=False): the broker dead-letters the original body
\* through the DLX, and drops it when no queue is bound there.
NackReject(w) ==
  /\ pc[w] = "reject"
  /\ \/ /\ conn[w] = "open" /\ dlqBound
        /\ dlq' = dlq \cup {[job |-> cur[w].job, attempts |-> cur[w].attempts,
                             reason |-> "none"]}
        /\ Settled(w)
     \/ conn[w] = "open" /\ ~dlqBound /\ Settled(w) /\ UNCHANGED dlq
     \/ conn[w] = "lost" /\ UNCHANGED <<unacked, dlq>>
  /\ EndDelivery(w)
  /\ UNCHANGED <<ready, dlqBound>>

-----------------------------------------------------------------------------
Enqueue(j) == EnqueueConfirmed(j) \/ EnqueueFailed(j) \/ EnqueueUnconfirmed(j)

Republish(w) == RepublishConfirmed(w) \/ RepublishFails(w) \/ RepublishUnconfirmed(w)

ToDlq(w) == ToDlqConfirmed(w) \/ ToDlqFails(w) \/ ToDlqUnconfirmed(w)

\* A step of the consumer's own code.
WorkerStep(w) ==
  \/ StopBetweenDeliveries(w) \/ ConsumeError(w)
  \/ BeginDelivery(w) \/ EnvelopeError(w)
  \/ HandlerReturns(w) \/ HandlerRaises(w)
  \/ Republish(w) \/ ToDlq(w)
  \/ Ack(w) \/ NackRequeue(w) \/ NackReject(w)

Next ==
  \/ \E j \in Jobs : Enqueue(j) \/ ForeignPublish(j)
  \/ ProducerConnectionDies \/ DlqUnbound
  \/ \E w \in Workers :
       \/ Connect(w) \/ ConnectFails(w) \/ Deliver(w) \/ WorkerStep(w)
       \/ ConnectionLost(w) \/ Stop(w) \/ Interrupt(w) \/ Crash(w)

Spec == Init /\ [][Next]_vars

-----------------------------------------------------------------------------
(***************************************************************************)
(* Safety.                                                                 *)
(***************************************************************************)
InBroker == Range(ready) \cup UNION {Range(unacked[w]) : w \in Workers}

Queued(j) == \E m \in InBroker : m.job = j

DeadJobs == {m.job : m \in dlq}

\* Tasks that entered the work queue, whatever the publisher was told.
Entered == {j \in Jobs : result[j] \in {"true", "unconfirmed", "foreign"}}

\* At least once (_handle_delivery, run, close): a task that entered the work
\* queue is still held by the broker until its handler has returned or it is in
\* the dead-letter queue, through every retry, crash, lost connection, lost
\* confirm and shutdown.
NoLoss == \A j \in Entered : Queued(j) \/ j \in done \/ j \in DeadJobs

\* What the fallback of _handle_delivery (nack with requeue=False when _to_dlq
\* fails) can cost when nothing is bound to the dead-letter exchange: only a
\* message nobody can use or a task that has failed MaxRetries times, never one
\* that still had a chance.
LossOnlyOfPoison ==
  \A j \in Entered :
    \/ Queued(j) \/ j \in done \/ j \in DeadJobs
    \/ Kind[j] # "registered" \/ failures[j] >= MaxRetries

\* The poison guard of _handle_delivery (worker.py:323-341): a message that is
\* dead-lettered for max-retries belongs to a task whose handler really has
\* raised MaxRetries times, although the counter travels in copies of the
\* message that may be duplicated, requeued and redelivered.
DeadLetterJustified ==
  \A m \in dlq : m.reason = "max-retries" => failures[m.job] >= MaxRetries

\* Redelivery only follows a fault (jobs.py relies on it for what it calls
\* idempotent "where feasible"): as long as nothing has failed, two consumers
\* never run the handler of the same task at the same time, although one of
\* them may be told to stop with a task in hand and others prefetched, which
\* the other then takes over.
NoConcurrentRun ==
  faults = 0 =>
    \A v, w \in Workers :
      v # w /\ pc[v] = "handler" /\ pc[w] = "handler" => cur[v].job # cur[w].job

\* queue_max_retries counts total attempts: as long as nothing has failed, a
\* handler raises at most MaxRetries times per task, and no task both succeeds
\* and is dead-lettered.
RetryBudget ==
  faults = 0 =>
    /\ \A j \in Jobs : failures[j] <= MaxRetries
    /\ done \cap DeadJobs = {}

\* What the broker still owes an ack for on an open connection is exactly the
\* delivery in hand followed by what pika has buffered, so the delivery tag of
\* an ack or nack always settles the delivery that was handled.
WindowMatches ==
  \A w \in Workers :
    conn[w] = "open" =>
      \/ /\ pc[w] \in Busy
         /\ unacked[w] # <<>>
         /\ Head(unacked[w]) = cur[w]
         /\ Tail(unacked[w]) = buffer[w]
      \/ pc[w] = "idle" /\ unacked[w] = buffer[w]

\* A consumer about to ack has a reason to: the handler returned, the task is in
\* the dead-letter queue, or a copy with a higher attempts counter is in the
\* queue.  The counter breaks the circle of two consumers relying on each
\* other's delivery.
AckJustified ==
  \A w \in Workers :
    pc[w] = "ack" =>
      \/ cur[w].job \in done \cup DeadJobs
      \/ \E m \in InBroker : m.job = cur[w].job /\ m.attempts > cur[w].attempts

-----------------------------------------------------------------------------
(***************************************************************************)
(* The abstract specification this module implements.                      *)
(***************************************************************************)
Ledger == INSTANCE JobLedger WITH
  submitted <- Entered,
  accepted <- {j \in Jobs : result[j] = "true"},
  held <- {j \in Jobs : Queued(j)},
  dead <- DeadJobs

\* Every step of the queue is a step of the ledger, or invisible to it.
ImplementsLedger == Ledger!LedgerSpec

-----------------------------------------------------------------------------
(***************************************************************************)
(* Liveness.  A consumer takes its steps (handlers end: the slowest is     *)
(* bounded by the LLM timeout), the broker delivers, and a supervisor      *)
(* restarts a process whose exit code was not 0.  Nothing makes the        *)
(* producer, a signal or a fault happen.                                   *)
(***************************************************************************)
Restart(w) == exitcode[w] # "clean" /\ Connect(w)

Fairness ==
  \A w \in Workers :
    WF_vars(WorkerStep(w)) /\ WF_vars(Deliver(w)) /\ WF_vars(Restart(w))

FairSpec == Spec /\ Fairness

AllStopped == \A w \in Workers : pc[w] = "off" /\ exitcode[w] = "clean"

\* Every task that entered the queue is eventually executed or dead-lettered,
\* unless every consumer is stopped on purpose.
Drained == \A j \in Jobs :
  j \in Entered ~> (j \in done \/ j \in DeadJobs \/ AllStopped)

\* A body that the worker cannot use ends in the dead-letter queue instead of
\* being redelivered forever (config.py:130-132, worker.py:39-40).
Quarantined == \A j \in Jobs :
  result[j] = "foreign" ~> (j \in DeadJobs \/ AllStopped)
=============================================================================
