----------------------------- MODULE QueueFactory -----------------------------
(***************************************************************************)
(* The producer's side of the task queue inside one API process: the       *)
(* cached factory get_task_queue() (app/queue/task_queue.py) and the       *)
(* enqueue of the queue object it hands out. Threads are those of          *)
(* FastAPI's pool, which run the chat endpoint. TaskQueue models what      *)
(* becomes of a message that was published; here it is who builds the      *)
(* queue object, who uses its channel, and who is told that there is none. *)
(***************************************************************************)
EXTENDS Naturals, FiniteSets

CONSTANTS
  Threads,
  Objects,   \* the RabbitMQTaskQueue objects that can be built
  None,      \* Python's None: no queue object, no thread
  MaxCalls,  \* bound on the calls of get_task_queue
  MaxFaults, \* bound on lost connections, outages and refusals of the broker
  MaxResets  \* bound on the calls of reset_task_queue_cache

ASSUME FactoryAssumption ==
  /\ None \notin Threads \cup Objects
  /\ MaxCalls \in Nat /\ MaxFaults \in Nat /\ MaxResets \in Nat

VARIABLES
  configured, \* queue_enabled and amqp_url
  up,         \* the broker accepts connections
  cached,     \* _queue
  attempted,  \* _attempted
  initLock,   \* who holds _init_lock
  chan,       \* the channel of each object: "unmade" before it is built
  left,       \* connections open at the broker that no object refers to any more
  qlock,      \* who holds the _lock of each object
  pc, mine,   \* where a thread is, and the object it has
  connects,   \* history: connections the factory tried since the last reset
  failed,     \* history: one of them failed
  refused,    \* history: the enqueues that returned False with the broker up
  calls, faults, resets

factoryVars == <<configured, cached, attempted, initLock, connects, failed>>
objectVars == <<chan, left, qlock>>
vars == <<configured, up, cached, attempted, initLock, chan, left, qlock, pc, mine,
          connects, failed, refused, calls, faults, resets>>

Building == {"check", "connect", "store", "mark"}      \* in the block of _init_lock
Using == {"ensure", "publish"}                         \* in the block of _lock
Places == {"idle", "cached", "lock", "none", "want"} \cup Building \cup Using

At(t, place) == pc' = [pc EXCEPT ![t] = place]
Fault == faults < MaxFaults /\ faults' = faults + 1

\* The error paths set _channel and _connection to None and close neither: a
\* connection that was open at that moment stays open at the broker.
MayLeave == left' \in {left, left + 1}

Init ==
  /\ configured \in BOOLEAN /\ up = TRUE
  /\ cached = None /\ attempted = FALSE /\ initLock = None
  /\ chan = [q \in Objects |-> "unmade"]
  /\ left = 0
  /\ qlock = [q \in Objects |-> None]
  /\ pc = [t \in Threads |-> "idle"]
  /\ mine = [t \in Threads |-> None]
  /\ connects = 0 /\ failed = FALSE /\ refused = 0
  /\ calls = 0 /\ faults = 0 /\ resets = 0

-----------------------------------------------------------------------------
(* get_task_queue().                                                        *)

\* The caller has what the factory returned: a queue object or None.
Got(t, q) ==
  /\ mine' = [mine EXCEPT ![t] = q]
  /\ At(t, IF q = None THEN "none" ELSE "want")

\* The lock-free check of _attempted.
Call(t) ==
  /\ pc[t] = "idle" /\ calls < MaxCalls
  /\ calls' = calls + 1
  /\ At(t, IF attempted THEN "cached" ELSE "lock")
  /\ UNCHANGED <<factoryVars, objectVars, up, mine, refused, faults, resets>>

\* The read of _queue that follows it.
FastReturn(t) ==
  /\ pc[t] = "cached"
  /\ Got(t, cached)
  /\ UNCHANGED <<factoryVars, objectVars, up, refused, calls, faults, resets>>

EnterInit(t) ==
  /\ pc[t] = "lock" /\ initLock = None
  /\ initLock' = t
  /\ At(t, "check")
  /\ UNCHANGED <<objectVars, configured, up, cached, attempted, mine, connects,
                 failed, refused, calls, faults, resets>>

\* Mutant: The early return leaves the lock held.
FoundKeepsLock(t) ==
  /\ pc[t] = "check" /\ attempted
  /\ Got(t, cached)
  /\ UNCHANGED <<factoryVars, objectVars, up, refused, calls, faults, resets>>

\* The second check: another thread was faster.
Found(t) ==
  /\ pc[t] = "check" /\ attempted
  /\ Got(t, cached)
  /\ initLock' = None
  /\ UNCHANGED <<objectVars, configured, up, cached, attempted, connects, failed,
                 refused, calls, faults, resets>>

\* Mutant: Builds whatever the cache holds.
FirstCallAlways(t) ==
  /\ pc[t] = "check"
  /\ At(t, IF configured THEN "connect" ELSE "store")
  /\ UNCHANGED <<factoryVars, objectVars, up, mine, refused, calls, faults, resets>>

\* Nothing cached: build an object, unless the queue is disabled.
FirstCall(t) ==
  /\ pc[t] = "check" /\ ~attempted
  /\ At(t, IF configured THEN "connect" ELSE "store")
  /\ UNCHANGED <<factoryVars, objectVars, up, mine, refused, calls, faults, resets>>

\* The object is built and its _ensure_channel opens a channel.
Connect(t) ==
  /\ pc[t] = "connect" /\ up
  /\ \E q \in Objects :
       /\ chan[q] = "unmade"
       /\ chan' = [chan EXCEPT ![q] = "open"]
       /\ mine' = [mine EXCEPT ![t] = q]
  /\ connects' = connects + 1
  /\ At(t, "store")
  /\ UNCHANGED <<configured, up, cached, attempted, initLock, failed, left, qlock,
                 refused, calls, faults, resets>>

\* It does not, at any step from the connection to confirm_delivery. The object
\* has forgotten its connection by the time the factory calls its close, which
\* therefore closes nothing.
ConnectFails(t) ==
  /\ pc[t] = "connect"
  /\ \/ ~up /\ UNCHANGED <<faults, left>>
     \/ up /\ Fault /\ MayLeave
  /\ connects' = connects + 1 /\ failed' = TRUE
  /\ At(t, "store")
  /\ UNCHANGED <<chan, qlock, configured, up, cached, attempted, initLock, mine,
                 refused, calls, resets>>

\* Mutant: _attempted is set before _queue, so the fast path can overtake.
StoreMarksFirst(t) ==
  /\ pc[t] = "store"
  /\ attempted' = TRUE
  /\ At(t, "mark")
  /\ UNCHANGED <<objectVars, configured, up, cached, initLock, mine, connects,
                 failed, refused, calls, faults, resets>>

\* _queue = q (or None)
Store(t) ==
  /\ pc[t] = "store"
  /\ cached' = mine[t]
  /\ At(t, "mark")
  /\ UNCHANGED <<objectVars, configured, up, attempted, initLock, mine, connects,
                 failed, refused, calls, faults, resets>>

\* _attempted = True, and the return that leaves the lock.
Mark(t) ==
  /\ pc[t] = "mark"
  /\ attempted' = TRUE
  /\ initLock' = None
  /\ Got(t, mine[t])
  /\ UNCHANGED <<objectVars, configured, up, cached, connects, failed, refused,
                 calls, faults, resets>>

\* The caller was told that there is no queue.
Without(t) ==
  /\ pc[t] = "none"
  /\ At(t, "idle")
  /\ UNCHANGED <<factoryVars, objectVars, up, mine, refused, calls, faults, resets>>

-----------------------------------------------------------------------------
(* RabbitMQTaskQueue.enqueue on the object that was handed out.             *)

\* Mutant: The critical section is not locked.
EnterUnlocked(t) ==
  /\ pc[t] = "want"
  /\ At(t, "ensure")
  /\ UNCHANGED <<factoryVars, objectVars, up, mine, refused, calls, faults, resets>>

Enter(t) ==
  /\ pc[t] = "want" /\ qlock[mine[t]] = None
  /\ qlock' = [qlock EXCEPT ![mine[t]] = t]
  /\ At(t, "ensure")
  /\ UNCHANGED <<factoryVars, chan, left, up, mine, refused, calls, faults, resets>>

\* The thread leaves the critical section, and the call.
Leave(t) ==
  /\ qlock' = [qlock EXCEPT ![mine[t]] = None]
  /\ mine' = [mine EXCEPT ![t] = None]
  /\ At(t, "idle")

\* The answer False counts against the queue when the broker was there.
Refuse(t) ==
  /\ Leave(t)
  /\ refused' = IF up THEN refused + 1 ELSE refused

\* _ensure_channel: a channel that reads as open is used, a missing one is opened.
Ensure(t) ==
  /\ pc[t] = "ensure"
  /\ \/ chan[mine[t]] # "none" /\ UNCHANGED chan
     \/ chan[mine[t]] = "none" /\ up /\ chan' = [chan EXCEPT ![mine[t]] = "open"]
  /\ At(t, "publish")
  /\ UNCHANGED <<factoryVars, left, qlock, up, mine, refused, calls, faults, resets>>

EnsureFails(t) ==
  /\ pc[t] = "ensure" /\ chan[mine[t]] = "none"
  /\ \/ ~up /\ UNCHANGED <<faults, left>>
     \/ up /\ Fault /\ MayLeave
  /\ Refuse(t)
  /\ UNCHANGED <<factoryVars, chan, up, calls, resets>>

Published(t) ==
  /\ pc[t] = "publish" /\ chan[mine[t]] = "open"
  /\ Leave(t)
  /\ UNCHANGED <<factoryVars, chan, left, up, refused, calls, faults, resets>>

\* Mutant: A publish that raised leaves the channel where it was.
PublishFailsKeeps(t) ==
  /\ pc[t] = "publish"
  /\ \/ chan[mine[t]] = "stale" /\ UNCHANGED faults
     \/ chan[mine[t]] = "open" /\ Fault
  /\ Refuse(t)
  /\ UNCHANGED <<factoryVars, chan, left, up, calls, resets>>

\* The publish raises, because the connection is gone or the broker refuses
\* the message: the channel is dropped, so that the next call reconnects. After
\* a refusal the connection dropped with it is still open.
PublishFails(t) ==
  /\ pc[t] = "publish"
  /\ \/ chan[mine[t]] = "stale" /\ UNCHANGED <<faults, left>>
     \/ chan[mine[t]] = "open" /\ Fault /\ MayLeave
  /\ chan' = [chan EXCEPT ![mine[t]] = "none"]
  /\ Refuse(t)
  /\ UNCHANGED <<factoryVars, up, calls, resets>>

-----------------------------------------------------------------------------
(* Around the threads.                                                      *)

\* reset_task_queue_cache(), which only tests call, between turns: the queue is
\* closed and forgotten, and the configuration may have been changed.
Reset ==
  /\ resets < MaxResets /\ \A t \in Threads : pc[t] = "idle"
  /\ resets' = resets + 1
  /\ chan' = [q \in Objects |-> IF q = cached THEN "none" ELSE chan[q]]
  /\ cached' = None /\ attempted' = FALSE
  /\ configured' \in BOOLEAN
  /\ connects' = 0 /\ failed' = FALSE
  /\ UNCHANGED <<left, qlock, initLock, up, pc, mine, refused, calls, faults>>

\* External: a connection is lost, which pika notices at the next publish.
ConnectionLost(q) ==
  /\ chan[q] = "open" /\ Fault
  /\ chan' = [chan EXCEPT ![q] = "stale"]
  /\ UNCHANGED <<factoryVars, left, qlock, up, pc, mine, refused, calls, resets>>

\* External: a forgotten connection ends, when the broker misses its heartbeats or
\* the interpreter collects the object.
LeftEnds ==
  /\ left > 0 /\ left' = left - 1
  /\ UNCHANGED <<factoryVars, chan, qlock, up, pc, mine, refused, calls, faults, resets>>

\* External: the broker goes away with all its connections, and comes back.
Outage ==
  /\ up /\ Fault
  /\ up' = FALSE
  /\ chan' = [q \in Objects |-> IF chan[q] = "open" THEN "stale" ELSE chan[q]]
  /\ left' = 0
  /\ UNCHANGED <<factoryVars, qlock, pc, mine, refused, calls, resets>>

Recovery ==
  /\ ~up /\ up' = TRUE
  /\ UNCHANGED <<factoryVars, objectVars, pc, mine, refused, calls, faults, resets>>

GetStep(t) ==
  \/ FastReturn(t) \/ EnterInit(t) \/ Found(t) \/ FirstCall(t)
  \/ Connect(t) \/ ConnectFails(t) \/ Store(t) \/ Mark(t) \/ Without(t)

EnqueueStep(t) ==
  \/ Enter(t) \/ Ensure(t) \/ EnsureFails(t) \/ Published(t) \/ PublishFails(t)

Next ==
  \/ \E t \in Threads : Call(t) \/ GetStep(t) \/ EnqueueStep(t)
  \/ \E q \in Objects : ConnectionLost(q)
  \/ LeftEnds \/ Reset \/ Outage \/ Recovery

Spec == Init /\ [][Next]_vars

\* A thread inside a call runs. Calls are bounded, so that nobody overtakes a
\* thread that waits for a lock for ever.
FairSpec == Spec /\ \A t \in Threads : WF_vars(GetStep(t) \/ EnqueueStep(t))

-----------------------------------------------------------------------------
(* Properties.                                                              *)

\* Every variable has its type; _init_lock is held by the thread in its block and
\* by nobody else; a thread on its way to enqueue has an object that was built.
TypeOK ==
  /\ configured \in BOOLEAN /\ up \in BOOLEAN /\ attempted \in BOOLEAN /\ failed \in BOOLEAN
  /\ cached \in Objects \cup {None}
  /\ initLock \in Threads \cup {None}
  /\ chan \in [Objects -> {"unmade", "none", "open", "stale"}]
  /\ qlock \in [Objects -> Threads \cup {None}]
  /\ pc \in [Threads -> Places]
  /\ mine \in [Threads -> Objects \cup {None}]
  /\ connects \in Nat /\ refused \in Nat /\ calls \in Nat /\ faults \in Nat /\ resets \in Nat
  /\ left \in Nat
  /\ \A t \in Threads : pc[t] \in Building <=> initLock = t
  /\ \A t \in Threads : pc[t] \in {"want"} \cup Using =>
       mine[t] # None /\ chan[mine[t]] # "unmade"

\* pika's channel is not thread-safe: two threads never use one channel at a
\* time (the comment at task_queue.py:255).
ChannelExclusive ==
  \A s, t \in Threads : pc[s] \in Using /\ pc[t] \in Using /\ mine[s] = mine[t] => s = t

\* Concurrent first calls do not build two queues, and a reset does not leave
\* the channel of the old one behind: at most one queue object has a channel
\* (task_queue.py:461). Connections that no object refers to are not counted.
OneQueue ==
  \A p, q \in Objects : chan[p] \in {"open", "stale"} /\ chan[q] \in {"open", "stale"} => p = q

\* What is open at the broker beyond the queue's own connection was left there by
\* an error path, one connection per fault at most: a legal sequence of calls,
\* the race of the first callers included, leaves none (task_queue.py:203, :271).
LeftByFaults == left <= faults

\* A caller is told that there is no queue only when it is disabled or the
\* factory's connection failed: the lock-free path never reads a cache that is
\* half written (task_queue.py:463).
NoneIsEarned ==
  \A t \in Threads : pc[t] = "none" => ~configured \/ failed

\* The factory pays the connect timeout once: whatever came of it is cached
\* until the next reset (task_queue.py:485).
OneAttempt == connects <= 1

\* The queue is built once: one object has a channel, one attempt is made until
\* the next reset, _init_lock is held by exactly the thread that builds, and no
\* connection is left open but by a fault.
BuiltOnce == TypeOK /\ OneQueue /\ OneAttempt /\ LeftByFaults

\* A lost connection costs one enqueue, not all that follow it: with the broker
\* there, no more enqueues are refused than faults have happened.
LossesAreSingle == refused <= faults

\* Whoever asks for the queue and enqueues gets an answer: no path of the
\* factory or of enqueue leaves a lock behind.
Returns == \A t \in Threads : pc[t] # "idle" ~> pc[t] = "idle"
=============================================================================
