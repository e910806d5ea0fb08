# A verification of the virtual-person companion

The repository is an AI companion: a FastAPI application that turns text or speech into
a streamed, spoken and animated answer, a memory that is written on every turn, and a
background worker fed through RabbitMQ. This directory holds TLA+ modules translated
from its source, TLC configurations that check them on small instances, and TLAPS proofs
of what must hold for every instance. `PROJECT.json` is the index: which definition
models which lines, which run checks which property, which change to the code each
property would notice.

## 1. Inventory

| Component | State it keeps | Operations | What makes it correct |
|---|---|---|---|
| Queue producer, `app/queue/task_queue.py` | one pika connection and channel under a lock | `enqueue`, `_ensure_channel`, `close` | never raises; a task the broker took is never lost; what the caller is told is true |
| Queue consumers, `app/queue/worker.py` and `RabbitMQTaskQueue.consume` | connection, prefetched deliveries, the delivery in hand, the stop flag | connect, run, `_handle_delivery`, ack/nack, stop, close | at-least-once; a bounded number of attempts; acks settle the right delivery; every task ends somewhere |
| Queue factory, `get_task_queue` | cached queue and `_attempted` | first call, reset | one queue object; None has a reason; a broken channel costs one enqueue |
| Jobs, `app/queue/jobs.py` | a memory and a proactivity service per worker process | curate, daily summary, nudge, poison | re-execution is harmless; no job undoes the app's writes |
| Memory service, `app/memory/service.py` | list of items, JSON file, optional Postgres, Neo4j and vector index | write, search, delete, erase_all, load, flush | what was acknowledged is on disk; what was erased stays erased |
| Vector index and curation, `app/memory/{vector_store,curation}.py` | ids and rows; none | add, remove, search; dedup, rank | ids and rows agree; dedup keeps one of each |
| Turn handler, `app/ws/handler.py` and `avatar/state_machine.py` | avatar state, echo memory, per-turn TTS queue | handle, stream with incremental TTS, echo filter | shown text is spoken in order; the avatar speaks when it is heard; every turn ends |
| Orchestrator, `app/ws/protocol_v2.py` | current turn and its token | run, cancel, synthesize and send | numbers pair text, audio and visemes; a cancelled turn starts nothing new |
| Chat pipeline, `app/main.py` | none of its own | tool-call loop, streaming with fallback | the answer shown last is what is remembered; one token and one job per turn |
| Rate limiter and Redis client, `app/infra` | token bucket with a TTL; cached client | Lua script, check, fail open; first connection | never more than the bucket allows; one good client |
| Session, proactivity, tools | records; cooldown and reminders; pending confirmations | add, get, clear; can_send, mark_sent, check_due, cancel; execute, confirm | history is the end of what was said; a reminder fires once; an external tool runs once for a confirmation |
| Voice services, `app/voice` | loaded models, a CosyVoice process, an audio cache | load once, synthesize, transcribe | an answer belongs to its request; loading happens once |
| Browser client, `client/js` | socket, audio queue, microphone gate | connect and reconnect, play, record | no duplicate socket; the microphone is closed while audio plays |

How they interact: an HTTP turn (`chat_turn`, in a threadpool thread) runs the chat
pipeline, writes memory, and hands a curation job to the producer; the worker process
consumes it and runs the handler with its *own* memory service on the *same* JSON file.
WebSocket turns share one handler object across sockets. Redis (rate limit, sessions),
Postgres, Neo4j and RabbitMQ are all optional, and each is written to fail soft.

Where it is hard: the confirm, ack and connection of the queue can each be lost between
two lines of one function; the threadpool, the event loop and the worker process share
files and objects; timers race answers (filler audio, microphone watchdog, TTS
requests). `PROJECT.json` lists these hazards at their lines, with the properties that
cover each, or the reason why none does.

## 2. Modules

| Module | Contents | Checked by | Proved in |
|---|---|---|---|
| `TaskQueue`, `JobLedger` | producer, broker and consumers of `app/queue`; the abstract promise they keep | `MCTaskQueue` | `TaskQueueProofs` |
| `QueueFactory` | `get_task_queue`, reset, and the threads that share the queue object | `MCQueueFactory` | `QueueFactoryProofs` |
| `MemoryStore` | the memory service under the app's threads, the worker's jobs, crashes and database failures | `MCMemoryStore` | `MemoryStoreProofs` |
| `RateLimiter` | the token bucket in Redis on the lazily built client | `MCRateLimiter` | `RateLimiterProofs` |
| `ChatPipeline` | HTTP and socket turns, streaming with fallback, and the session history | `MCChatPipeline` | `ChatPipelineProofs` |
| `SentenceChunker` | `push` and `flush` as functions on texts | through `TurnHandler` | `TurnProofs` |
| `TurnHandler` | the WebSocket handler, its TTS worker task, filler, turn lock and the avatar's state machine | `MCTurnHandler` | `TurnProofs` |
| `StreamingTurn` | one turn of protocol v2 with its cancellation token | `MCStreamingTurn` | `TurnProofs` |
| `TtsService` | cache, provider chain and the CosyVoice process behind its pipes | `MCTtsService` | `TtsServiceProofs` |
| `Proactivity` | reminders, cooldown and quiet hours under endpoints and the background job | through `ToolDesk` | `ToolDeskProofs` |
| `ToolDesk` | the tool registry and its confirmations, composed with `Proactivity` | `MCToolDesk` | `ToolDeskProofs` |

`TurnHandler` instantiates `SentenceChunker`; `ToolDesk` extends `Proactivity`, because
the reminder tools call it and both run on the same threads. An operator whose comment
begins with "Mutant" is not part of a specification: it is the form a definition would
have with a plausible bug, kept to show that a property notices it.

### TaskQueue: state and actions

The broker is `ready` (the FIFO work queue), `unacked` (one window of deliveries per
consumer, at most `Prefetch` long), `dlq` and `dlqBound`. It is external: only what
`app/queue` relies on is modelled. A broken connection returns its window to the front
of the queue; `nack(requeue=True)` puts the message back in front; `nack(requeue=False)`
dead-letters the *original body* through the dead-letter exchange, or drops it when
nothing is bound there.

The producer is `producer` (no channel, an open one, or one that is dead and still says
`is_open`) and `result` (what became of each publish). `enqueue` is one critical
section, so one step per outcome: confirmed, failed, or taken by the broker with the
confirm lost. A fresh connection declares the topology again (`EnsureChannel`), as every
consumer's `connect` does.

A consumer has `pc`, `conn`, `buffer` (what pika has received and not yielded), `cur`,
`stopping` and `exitcode`. `_handle_delivery` is cut at every point where the
connection, the process or a confirm can be lost: take the delivery (`BeginDelivery`),
run the handler (`HandlerReturns`, `HandlerRaises`), publish the retry (`Republish...`)
or the dead letter (`ToDlq...`), settle (`Ack`, `NackRequeue`, `NackReject`). Each
publish has three outcomes. On a connection that is lost, publishes raise, and acks and
nacks fail silently (`_safe_ack`, `_safe_nack`), as in the code. `Drainers` are the
processes that run `RabbitMQTaskQueue.consume` instead of `Worker.run`: same delivery
policy, no signal handler, Ctrl-C unwinds a delivery in progress.

A task's `Kind` says what its body decodes to: an envelope with a handler, an envelope
of unknown type, bytes that are not JSON, or JSON whose fields cannot be read. The last
two enter only through `ForeignPublish`, because the producer cannot create them.

`done` and `failures` are history variables: nothing reads them but properties.

Abstractions. A body is its task and its `attempts` counter. The dead-letter queue is a
set: duplicates and order in it are not told apart. The broker's requeue is atomic with
the loss of the connection as the broker sees it; the consumer learns of it only at its
next use. Metrics, logs, payloads, routing keys and the metrics server are left out.
`max_messages` and `inactivity_timeout` of `consume` are used by tests only.

### JobLedger

Five sets: submitted, accepted, held, done, dead. `Submit` makes a job held; `Complete`
may happen any number of times; `Bury` and `Release` are the only ways to let go of a
job, and `Release` needs it to be done or dead. `TaskQueue` implements it under the
mapping in `Ledger == INSTANCE JobLedger WITH ...`.

### MemoryStore: state and actions

Every process has its own list (`items`) and vector index (`vec`); the file at
`persist_path` (`file`), its temporary (`tmp`) and the database (`db`) are shared. Files
are inodes with a `content`, so that two writers of one temporary, and a rename under a
writer, mean what they mean on a POSIX file system. A thread is at a `pc` between the
lines where another thread or process can act:

| Code | Steps |
|---|---|
| `__init__`, `_load_persisted`, `_init_semantic` | `Start` |
| `write` | `WriteFiltered`, or `WriteAppend`, `WriteMirror`, `WriteIndex`, then the flush |
| `_flush_persisted` | `Dump` (serialise), `OpenTmp` (create or truncate), `WriteTmp`, `Replace` |
| `delete` | `Delete`/`DeleteRead`, `DeleteRebind`, `DeleteMirror`, `DeleteIndex`, a flush if it removed something |
| `erase_all` | `Erase`, `EraseMirror`, `EraseIndex`, the flush |
| `curate_memories` | `CurateStart`, one delete per `CurateNext`, `CurateEnd` |
| `daily_summary_precompute` | `SummaryStart` (the delete), then a write of a note with the same key |

`used`, `doomed`, `kept`, `owed` and `gone` are history: what was acknowledged as
stored, or as removed. A database call may raise before or after its statement took
effect; the call then ends, as it does in the code. An error of `tmp.replace` ends it
too. The process may die at any step (`Crash`).

Abstractions. An item is stored at most once and has a key (its kind and key) and a
value; the list is a set, so its order, the window of 200 items in `_is_duplicate` and
the ranking of `search` are left out. Postgres and Neo4j are one set of rows. The two
list comprehensions of `delete` (lines 320-322) are one step, the rebinding and the
count that follows it (322-323) another. `is_stale` is the constant `Stale`: an item
does not grow old during a run. Power loss is left out: what was renamed is on disk.

### QueueFactory: state and actions

One API process. `cached`, `attempted` and `initLock` are `_queue`, `_attempted` and
`_init_lock`; `chan[q]` is the channel of a queue object ("stale" when the broker has
dropped it and `is_open` still says yes) and `qlock[q]` its `_lock`. `Call` and
`FastReturn` are the two reads of the lock-free path, with other threads in between;
`EnterInit`, `Found`, `FirstCall`, `Connect`, `ConnectFails`, `Store` and `Mark` the
locked block, with `_queue` and `_attempted` written in two steps; `Enter`, `Ensure`,
`EnsureFails`, `Published` and `PublishFails` the critical section of `enqueue`. The
error paths set `_channel` and `_connection` to None and close neither, so a connection
that was open stays open at the broker, and the next call opens another beside it:
`left` counts these, each failure `MayLeave` one (the exception may come before the
connection is open, or because it is dead), and they end when the broker misses their
heartbeats or Python collects them (`LeftEnds`). `Reset` happens between calls, as in
the tests that use it. `TaskQueue` says what happens to the message; this module says
who may publish it.

### RateLimiter: state and actions

`bucket[u]` is the hash under `vp:rl:<user>` with its expiry, `now` the Redis server's
clock, in whole seconds; a token is `Unit` units, so that `Refill` may stand for a
fraction. `Allow`, `Build` (the unlocked first connection), `Decide` (the Lua script:
atomic) and `EvalRaises` are the calls; `Tick`, `SetBack`, `Expire`, `Fail`, `Recover`
and `ResetCache` the surroundings. `ideal[u]` is a bucket that never expires and only
time refills; `promised[u]` when the last rejection said to come back.

### ChatPipeline: state and actions

`Admit` is `chat_turn` or the socket's gate, with the rate limit, the safety check of
the message, and `Start`: the capture of a name, the answers by rule (a name that is
remembered, the persona's background) and the search of the memories, which may raise
and so end the turn without an answer ("gone"). `Delta`, `StreamEnds`, `StreamFails` and
`Abandon` are the generator at its yields; `ModelAnswers` is the whole pipeline, the
tool loop included. `told` is what the user has seen: the text that was streamed
(`Shown`), a "part" if the stream broke, and the answer that is given whole. `sessions.add` is cut where another thread can come in: in memory
`Fetch`, `AppendEntry`, `Slice` and `Rebind`, in Redis `RedisPush` and `RedisTrim`, each
of which may raise. `Job` is the enqueue behind the answer. A list in memory is an
object of its own (`lists[u]`, `current[u]`), because `add` rebinds it while another
`add` may hold the old one. The texts of the model are classes: fine, empty, and unsafe
(one that `check_output` fails). An answer by "rule" is a class of its own: the code
does not check it.

### SentenceChunker, TurnHandler: state and actions

The chunker's regular expressions see character classes only: letters, white space,
pauses, clause marks, sentence marks. `Push` composes the steps of `push` in their order
(first clause, sentences, soft limit), each a function on a record.

A step of `TurnHandler` runs from one wait (the executor, the queue, the lock, the next
frame) to the next; a send to a socket does not yield, which holds while the transport's
buffer is not full. `Chat`, `Mic`, `Audio`, `Vad`, `Gate` and `Transcribe` are `handle`;
`Begin`, `Delta`, `SlowDelta`, `FillerReady`, `EndOfReply` and `Join` the turn that
holds `_turn_lock`; `Take`, `TakeEnd`, `Skip` and `Speak` the worker task, with its
merging of short sentences; `Abort` what every exception does, which leaves a worker
task behind (`orphans`). The avatar's state, the lock and the echo guard are shared by
all sockets, as the one handler object is.

### StreamingTurn: state and actions

One coroutine: `Fragment`, `SendPartial`, `Say`, the synthesis in the executor,
`SendAudio`, `SendViseme` and the flush of the tail. The token is cancelled, and an
exception raised, at any await. `ClientLeft` is a send that raises. `sent` is what the
client got, in order, and `Events` are places in it. The specification is `StreamSpec`
and the state `awaits`, because `TurnProofs` extends this module and `TurnHandler`.

### TtsService: state and actions

`workers[w]` is a CosyVoice process with its stdin and stdout; `proc` is `_proc`; `lock`
the reentrant lock. `Get`, `GetFails`, `Put` are the cache, `Answered`, `Raised` and
`Fallback` the chain, `Warm`, `WarmLocked`, `Enter`, `Ensure`, `Write`, `Read`,
`SkipNoise` and `ReadEnd` the CosyVoice client, `Respond`, `Chatter` and `Die` the
process. The noise a library prints is skipped, except a line that begins with a brace,
which the code parses.

### Proactivity and ToolDesk: state and actions

The service has no lock. `list.append` and the like are atomic under the interpreter's
lock; a thread can be interrupted at the end of a turn of a loop and where Python code
is called. So `check_due` visits one reminder per step (`Visit`), `cancel_reminder`
seeks and removes in two, and the job's `can_send`, `check_due` and `mark_sent` are
separate. In `ToolDesk`, `Ask` and `Pend` are `execute` of an external tool, `Confirm`
and `Run` are `confirm`. A confirmation id contains the address of the params, which can
be given to a new object when nothing refers to the old one (`Live`).

## 3. Runs

| Run | Instance | Shows |
|---|---|---|
| `queue_faults` | 1 task, a Worker and a drainer, prefetch 1, 3 attempts (the default), 3 faults | `NoLoss`, `DeadLetterJustified`, and the refinement `ImplementsLedger` |
| `queue_kinds` | one task of every kind, 1 worker, prefetch 2, 2 faults, 1 SIGTERM, the binding may be removed | `WindowMatches`; `LossOnlyOfPoison`: what is lost then had no chance left |
| `queue_drain` | 2 tasks, one of a type that nobody handles, 2 Workers, prefetch 2, 2 attempts, 1 fault, 1 SIGTERM, fairness | without a fault no task runs twice at once (`NoConcurrentRun`) or more often than its budget (`RetryBudget`), also when a Worker stops and another takes over its window; `Drained` |
| `queue_factory` | 3 threads, 4 calls, 2 faults, 1 reset that may change the configuration, fairness | `ChannelExclusive`, `BuiltOnce`, `NoneIsEarned`, `LossesAreSingle`, `Returns` |
| `memory_jobs` | 5 items, one a duplicate, two summaries of one day of which one is stale; requests and jobs one at a time, database and semantic layer, 3 removals or jobs, a crash, a database error | `Durable`, `EraseFinal`, `IndexMatches`, `OneSummary` |
| `memory_shared` | 2 items, two app threads and the worker's curation, database, a crash, 2 database errors | `TypeOK`, `MirrorForgets` under every interleaving |
| `limiter` | 2 threads for one user, capacity 2, two thirds of a token per second, 9 seconds, clock set back twice, 1 fault | `BurstBound`, `RetryAfterHonest`, `MeteredUnlessFault` |
| `chat` | 2 turns of one user, 2 entries kept, 2 deltas, 2 Redis errors or cleared histories | `Remembers`, `ToldIsRemembered`, `HistoryIsSound`, `OncePerTurn` |
| `turns` | 2 sockets, 2 frames, 2 deltas of five kinds, limits of 2 and 3 characters, fillers, 1 fault, fairness | `SpeechFollowsText`, `TextComplete`, `OneTurnSpeaks`, `FinalIsLast`, `Answered` |
| `stream` | answers of up to 4 fragments, two audio lengths | `ChunksPair`, `SpeechCoversText`, `NothingStartsAfterCancel` |
| `tts` | 2 callers, 3 warm-ups, a text that is spoken and one that is cleaned away, 2 calls, 1 fault, fairness | `OneForOne`, `OneWorker`, `Returns` |
| `desk` | 2 endpoint threads and the job, 2 reminders, 2 confirmation requests, 2 addresses, 4 calls, a day of 3 ticks, cooldown 2 | `RemindersKept`, `NudgesAreSpaced`, `ConfirmationsKept` |

Some of these are conjunctions of properties that belong together, each with a
definition and a comment of its own in the module:

* `BuiltOnce`: the types, `OneQueue` (at most one queue object has a channel),
  `OneAttempt`, and `LeftByFaults` (no connection is left open but by a fault);
* `Remembers`: `IsTheEnd` and `Bounded`, the history is the end of what was said and no
  longer than allowed;
* `HistoryIsSound`: `Alternates` and `HistoryIsSafe`;
* `OncePerTurn`: the types, `OneToken` and `JobBehindAnswer`;
* `OneTurnSpeaks`: the types and `SpeaksInState`;
* `ChunksPair`: the types, `NumbersPair` and `OffsetsAddUp`;
* `OneForOne`: the types, `InStep` and `SpeaksItsText`;
* `RemindersKept`: `Conserved`, `CancelledStaysQuiet` and `CheckIsComplete`;
* `ConfirmationsKept`: the types, `RunsOnce`, `PendingIsKept` and `ConfirmsWhatWasSeen`.

The types of `TaskQueue` and `RateLimiter` are proved (section 4).

Bounds. In the queue, `MaxFaults` counts crashes, lost connections, refused or
unconfirmed publishes and Ctrl-C together; two are needed to duplicate a message and
then lose one of the copies' acks, and three to do it again on the last attempt. Two
attempts are the smallest number with both a retry and a dead letter; the run with three
covers a retry of a retry. Prefetch 2 is the smallest window in which an ack could
settle the wrong delivery. Two consumers are enough for a copy to be handled by someone
else. In `queue_drain` both are Workers, so that a stop is a SIGTERM and no fault: a
Worker with prefetch 2 and two tasks can be stopped with one delivery in hand and one in
its window, and the other Worker then gets what goes back, before the fault that ends
the claims of `NoConcurrentRun` and `RetryBudget`. The drainer, which only Ctrl-C stops,
is in `queue_faults`.

In the factory two threads race for the first call while the third comes late, and the
fourth call finds a cache; two faults are an outage at the first call, or a lost channel
and a refused publish. In the memory runs a key has two equal values, another must not
be touched, and a day has two notes. `MaxOps` counts removals and jobs. One crash
redelivers a job that was cut anywhere. Two threads are the smallest number that races
on the temporary file; the third in `memory_shared` adds the other process.

In the limiter the bucket's lifetime (7 seconds) is shorter than the run, so keys expire
with and without the clock set back; two thirds of a token leave every remainder. In the
chat run two deltas tell a stream that has shown nothing from one that has shown a part,
and two entries are one exchange, so every second turn cuts the list; two turns overlap
in every way. In the turn handler deltas include a text of two sentences and
white space only, and the limits are met by three letters; two frames let a second turn
follow the first, meet it, or meet its orphan. Four fragments make a sentence, its
blanks, another sentence and a tail. In the TTS run one fault is enough for a dead
worker, a failed start or a brace, and every warm-up that it can cause is there. In the
desk run two reminders are the smallest list that moves under a loop, and two addresses
let one be reused while the other is waiting.

Deadlock is checked in the limiter only, whose clients can always call. Everywhere else
the system may rest, when the bounded calls are made: a queue whose tasks are all done,
a service with no call in progress, a turn that is over.

Fairness. In the queue (`Fairness`), a consumer takes its next step (the handlers end,
because their LLM and HTTP calls have timeouts), the broker delivers to a consumer with
room in its window, and a supervisor restarts a process that exited with a code other
than 0 - which is what `main` and `_run_worker` return non-zero codes for. Nothing is
assumed of the producer, of signals or of faults. Weak fairness is enough; whether a
handler returns or raises is left open, so `Drained` covers the task that always fails.
A consumer stopped on purpose is not restarted, so `Drained` lets a task rest when *all*
consumers were stopped. In the factory a thread inside a call runs; pika's connection
has a timeout, so each step ends. In the turn handler the event loop runs what is ready,
the executor answers, and a reply ends; nothing is assumed of clients. In the TTS
service a worker that has a request answers or dies: the code reads its pipe without a
timeout, and with a worker that hangs no call returns. Python's locks are not fair; that
a thread gets one rests on the number of calls being bounded, as it does for a burst of
requests.

### What the code does against its own words

Instances that violate a property, met while the modules were written. The properties
above are stated where they hold; here is what keeps them from holding everywhere.

* *Dead letters.* `_to_dlq` says that its caller "nack+requeues ... rather than silently
  dropping a poison message" (`worker.py:365`); the callers nack *without* requeue,
  which is lost when the dead-letter exchange has no queue - the case in which the
  mandatory publish fails in the first place. With `DlqMayUnbind = TRUE`, `NoLoss` is
  violated. That fallback also leaves a dead letter without its `x-dlq-reason` header
  and with one attempt fewer than `docs/QUEUE.md` promises.
* *Bodies that are not objects.* `envelope.get` on a JSON list or number raises outside
  every `try` (`worker.py:308`): the worker exits with 1, the message returns to the
  head of the queue and stops every restarted worker, and nothing behind it is consumed
  (`Quarantined`, with the instance `NonObjectFirst`).
* *Two writers of the memory file.* With `TwoThreads`, `Durable` is violated: the thread
  that serialised first renames last, and of two acknowledged writes the file has one. A
  later flush repairs it; a restart before that loses the item.
* *Erase and the worker.* With `AppAndWorker`, `EraseFinal` is violated. "Erase ALL
  memories? This cannot be undone" (`app.js:462`): the worker still has the list it
  loaded, and its next pruning writes it back.
* *Pruning.* `curate_memories` tests one item and deletes its whole key, a fresh value
  included (`PruneOnlyStale`, with `ThreeValues`). This one needs no concurrency.
* *Index and notes.* With two threads, `IndexMatches` fails: a removal between the
  append and the indexing of a write leaves the index and the list apart. With the
  worker, the app and a database, `OneSummary` fails: a search in an app that had loaded
  the first note of the day returns it next to the second.
* *Confirmations.* The id of a request that is settled may be given to a new one of the
  same tool, whose params lie at the same address. A confirmation that is sent again
  then runs what the user has not seen (`registry.py:56`); `ConfirmsWhatWasSeen` has the
  exception.
* *Noise on the pipe.* A line of a library that begins with a brace is parsed as the
  response; the real response then answers the next request, and so on
  (`tts_service.py:129` and before). `InStep` and `SpeaksItsText` except such workers.
* *The gate.* `/proactivity/check` fires reminders without `can_send`, and two callers
  of `can_send` may pass it before either marks. `NudgesAreSpaced` is about the job's
  nudges.
* *History in memory.* Two turns of one user at once may lose entries: `add` rebinds the
  list that the other one appends to. `Remembers` holds for Redis always and in memory
  for turns that do not meet.
* *Connections left open.* `get_task_queue` takes its lock so that nothing would "leak a
  connection" (`task_queue.py:461`). The race leaks none, but the error paths do: an
  exception behind the opening of the connection (`:202-203`) or a publish that the
  broker refuses on a live one (`:270-271`) drops the references without `close`, and
  the factory's own `close` then has nothing to close. Two connections of one process
  are open until the broker or the interpreter ends the first. `BuiltOnce` therefore
  claims one queue *object*, and bounds the connections left by the faults.
* *Answers by rule.* `main.py:244-252` and `:438-452` add the remembered name and the
  persona's background to the history without `check_output`. The user chooses the
  name: "my name is bypass security" passes `safety.check`, and the answer that repeats
  it, which `check_output` would block, is told and remembered. `HistoryIsSafe` is about
  the texts of the model only.
* *Streams.* Deltas, thinking and unsafe text included, are sent before `check_output`
  sees the answer: an unsafe text is shown, and its replacement remembered. After an
  empty stream the history has "I'm here and ready to help.", which nobody was shown. A
  stream that breaks is followed by a second whole answer, and its part is shown and not
  remembered; a client that leaves ends the turn without a trace in the history.
  `ToldIsRemembered` compares the history with the answer shown last, as `check_output`
  leaves it (`Memory`).
* *The avatar.* All sockets share one state machine, so turns of different clients set
  its state under each other; `SpeaksInState` is about a client that is alone.
* *is_last.* `protocol_v2.py:88` says that the final audio chunk carries it; only the
  flush of a tail sets it, and an answer that ends with a sentence has none.

## 4. Proofs

Every theorem is over the module's `Spec`, without fairness, and for every value of the
constants that the module's assumption allows.

**The queue.** For every `Jobs`, `Kind`, `Workers`, `Drainers`, `MaxRetries >= 1`,
`Prefetch >= 1` and any natural bounds on faults and stops (`QueueAssumption`, which is
what the constructors establish with `max(1, ...)`).

In `TaskQueueProofs`, first `TypeCorrect` (`Spec => []TypeOK`) and
`AckSettlesWhatWasHandled` (`Spec => []WindowMatches`). Neither is inductive alone:
`NackRequeue` keeps the type of `ready` only if the window is not empty, and a retry is
a message of the work queue only because the branch that led to it had `attempts + 1 <
MaxRetries`. The inductive invariant is `Structure`, the conjunction with `ProcessShape`
(a process that is off has no connection and no buffer, a lost connection has no window,
a busy process has a delivery in hand). There is one lemma per group of actions and two
general ones (`StructureMove`, `StructureExit`) for steps that only move a consumer or
end it.

`DeadLettersAreEarned` is about the end of a long journey: the counter travels in copies
that are redelivered, requeued and duplicated, and only a history variable knows how
often the handler has raised. `Counted` says of every copy, in the queue, in a window, a
buffer or a hand, that it claims no more attempts than were made (`Tracked`), and of a
consumer what the branches it took tell of the delivery in hand (`Standing`).
`OneRunAtATime` and `RetriesAreBudgeted` hold until the first fault. Their invariant is
`Calm`: the live copies belong to different tasks that are neither done nor dead, and
their counters are *exactly* what the handlers have raised. A stop or a start of a
consumer keeps it, because the window that goes back to the queue is the buffer and the
delivery in hand.

Then `NothingIsLost` (`Spec => []NoLoss`) and `AcksAreJustified`, under the hypothesis
that the dead-letter queue is not unbound at run time, without which they are false
(section 3); `OnlyPoisonIsLost` says what may be lost if it is. The strengthening is
`Durable`: a consumer about to ack has seen its handler return, or its task is in the
dead-letter queue, or a copy *with a higher attempts counter* is in the broker. Without
the counter the argument is circular: two consumers could each ack relying on the
other's copy. The lemma `DurableIf` reduces a step to three questions (is every message
the broker gives up superseded, is every new task held, is every new ack justified), and
each action answers them once.

`QueueImplementsLedger` is the refinement, `Spec => ImplementsLedger`, under the same
hypothesis. A step of the queue is classified by what it does to the ledger's five sets
(one lemma for each: nothing, submit, accept, complete, bury, release); the invariant is
needed in the last, where the broker lets go of its last copy of a task.

**The memory service** (`MemoryStoreProofs`), for any processes, threads, items, keys
and bounds on calls, crashes and failures (`MemoryAssumption`). `TypesHold` and
`ForgottenForGood` have no further hypothesis. Types are inductive only with `Control`
(what goes with where a call is), and the lemma `FreeInodeExists` counts inodes: a
temporary file is a new file, whatever the threads have open. `ForgottenForGood` rests
on the order of the calls: `Fresh` (the item that a write is still storing was
acknowledged by nobody, and is owed by no removal) and `Dropped` (what a removal owes is
among its victims until the database has dropped it).

The other four are about one caller at a time (`OneCaller`), and their runs
(`MemoryJobs`) check the same case. With more they are false, and this is the code's
behaviour: the list is rebound over an append, and two processes write their own lists
over each other (section 3). Crashes, restarts and failing calls remain.
`AcknowledgedIsDurable` and `ErasedForGood` follow the list through its flush: `Flushed`
says what the temporary file holds at each step of it, and that it is never the file in
place; `Listed` what the list has before. `AcknowledgedIsDurable` also assumes `Tidy`
keys: nothing but the summary job writes under the key of a summary, and other stale
items share keys with stale items only. Without it the invariant fails at
`curate_memories`, which prunes by kind and key (`jobs.py:107`, listed as a hazard).
`LastNote` is why the summaries themselves need no such assumption: a note that was
acknowledged is the only one of its day that anybody can find. `IndexFollowsList` and
`SummariesDoNotPileUp` hold until a database call fails (`Smooth`); the second also
assumes `OneProcess`, because another process would keep the old note in its list.

**The rate limiter** (`RateLimiterProofs`). `NoBurstBeyondCapacity` compares the bucket
with one that never expires. It is not inductive: between two calls the key may expire,
which fills the bucket, so the invariant has to say that by then the ideal one is full
as well. That is `Touched` (a key expires `Ttl` after the script last ran) with the
lemma that `Ttl` seconds refill twice the capacity, and `Dominated` (the level is never
above the ideal one). `Covered` is the same for a promise: what was promised to a client
is paid by the refill, or by the expiry where nothing refills. A clock that is set back
is harmless because `Level` never counts a negative time. `FailsOpenOnlyOnFaults` needs
that a client that is `None`, on its way or cached, is so because of a fault
(`Healthy`).

**The factory** (`QueueFactoryProofs`). The lock-free path reads two variables that the
locked block writes one after the other, so mutual exclusion alone proves nothing about
the readers. `Built` fixes the order: inside the block nothing is cached before "store"
and `_attempted` is set last, so who sees it set reads a cache that is complete. `Owned`
(a channel belongs to the cached object or to the one being cached) gives `OneQueue`,
`InHand` (who is inside `enqueue` holds the lock of the object it got) gives
`ChannelsAreExclusive`, `Reasons` carries the cause of a None from the connection to the
caller, `Counted` counts attempts to connect, and `Paid` charges refused publishes and
connections left open to the faults. The theorems claim one queue object, and not one
connection, because of the error paths (section 3).

**The TTS worker** (`TtsServiceProofs`). A response does not say which request it is
for. What makes the pairing right is `Pipes`: while the holder of the lock reads, its
own request is in the worker's stdin, or its own response is the last line of stdout and
all before it is noise; at any other time both pipes of a living worker are empty. It
holds only with `OnlyProc` (no process lives but the one in `_proc`) and of workers that
have printed no brace. `Spare` says that a warm-up that a restart begins still has a
thread in the model.

**The desk** (`ToolDeskProofs`). `RemindersAreKept` follows from
`Accounted` (a reminder that fired was delivered, or exactly one thread holds it; one
that has not is listed or cancelled) and `Walked` (behind the position of a check that
nothing disturbed, whatever was due has fired). Removal is where it is hard: places move
under the loops, which is why the invariant is about positions only where `moved` is
false, and why the numbers in the list have to be distinct. `CooldownHolds` needs that
the gate's stamp is never before the last nudge, although another thread may set it
(`MarkSent`) or the nudge that ends may set it *back*: `Spaced` has `nudges <= last <=
clock`. `ConfirmationsAreKept` rests on the ids: an address that something refers to is
not given away, so the id of a request that is on its way to the table is in nobody
else's hand and not in the table (`InHand`), and `Unsettled` says where a request that
was not taken is.

**The chat pipeline** (`ChatPipelineProofs`), without further hypotheses: any users,
turns, limit of the history and number of faults and clears. There are fifteen actions
and two things they are about, so each action is looked at twice and never again:
`Turning` says what a step does to the turns (one of seven moves of at most one turn)
and `Recording` what it does to the histories (it records an entry of one turn, wipes a
user's history, or neither). The invariants are proved from these two views.
`TurnsHappenOnce` needs `Orderly`, the shape of a state: `Steady` (what a turn knows, by
where it is) and `OneSocket`; and `Telling`, what the user has seen by then, because a
job comes behind the one answer that is told.

`SessionsRemember`, `HistoryStaysSound` and `AnswersAreRemembered` are one invariant,
`Sound`. `EntriesSafe` says of every entry, in a history, in a list that nobody else
sees any more or in a slice, that it is `Fit`: neither unsafe nor a refusal, and with the
very answer of its turn, as long as that turn is remembered. That goes through two
changes at once, the entries and the turns, so a step is taken apart: its entries are
fit for the turns as they were (`EntriesKept`), and what is fit stays so when a turn
moves (`FitKept`). `SaidAll` is the converse, without a fault or a clear: a turn that has
added its message or its answer has it in what was said. With `Telling`, which ties the
answer of a turn to what it showed, they give `ToldIsRemembered`. `HistoryStaysSound`
is about the texts of the model; of answers by rule it claims their order only.

`add` is cut into
steps, so a history is too long in between, and the bound holds only by counting: `Near`
charges every entry above the limit to a turn that has still to trim or to a fault that
kept one from it. In memory the list that a turn holds may be one that nobody else sees;
`Alone` and `HoldsCurrent` say that in calm (no turns of the user have met) it is the
history, and its slice the end of it. Then `IsTheEnd` is preserved by what the slice of
a suffix is, and `Paired` ties the last entry of a history to the one turn that has
asked and has not been answered.

**The turn handler** (`TurnProofs`), for any clients, deltas, limits of the
chunker, merge targets and bounds (`TurnAssumption`). The chunker first: whatever it is
pushed, its pieces are texts and *none is empty* (`PushIs`, `FlushedIs`). This matters
because `None` in `tts_queue` is modelled as the empty text, and because it is what the
code relies on when it queues pieces unseen. It holds because a piece ends at a mark, or
is stripped and tested; `Nth` and `NthGrows` put the ends of sentences in order.

A step is then looked at three times. From the lock (`Locking`: a task moves, enters or
leaves), which gives `Locks`: nobody is in the queue twice, whoever wants a turn is in
it, and only its head runs. From the turn (`Talking`: it goes on, starts, says pieces,
is slow, closes or stops, or its worker works), which gives `Speech`: the queue is
exactly what is shown beyond what was handled or is in hand, followed by the end mark
once the reply has ended and until the worker has seen it (`Marked`). `SpeechKeepsUp`
is a part of it; the rest is needed because `Take` may swallow the end mark with the
last sentences, and nothing must then be left. From the client: `InState` says that a
client that has been alone since its turn began has the avatar "thinking", or
"speaking" from the first audio on. It is kept because whoever acts outside a turn is
not alone with one, and because a worker left behind by a dead turn can only set
"speaking". `Counted` pays for completed turns with frames. `TurnsSpeakAlone` follows.

`TextIsComplete` and `FinalClosesTurn` compare texts by their *ink*: `Ink(s, t)` is what
the texts of s, and t behind them, have besides white space. `Bare` and `Flat` are
defined by recursion, so what they compute has to be proved first. `Recursion` does it
once for any function on the places of a sequence: its values are found one place after
the other, and `Upwards` carries a set of places from 0 to the end (the induction
theorems of the library take an operator, so a set stands for it). From `BaresIs` and
`FlatIs` follow `BareJoins` and `FlatJoins`: both distribute over concatenation. Then
every step of the chunker keeps the ink (`FirstClauseInk`, `SentencesInk`, `SoftenInk`,
hence `PushInk` and `FlushedInk`); the hard one is `CutInk`, where the pieces between
the ends of sentences are laid side by side again. The invariant is `Written`: the
pieces shown and the chunker's buffer have the ink of the deltas. While a filler is
fetched the last delta is yielded and not yet pushed, and when the reply has ended the
buffer is empty; without either the invariant is not inductive. `FinalClosesTurn` is an
action property. By `Answers` a final text is sent by `Join` alone, when the worker has
seen the end mark; `Speech` says that every piece was then handled, and `Written` that
the pieces are the reply.

**The streamed turn** (`TurnProofs`), for any `MaxFragments` and any set of durations
(`StreamAssumption`). `StreamInv` adds to the two invariants where the coroutine is
(`StreamPlace`: while a sentence is at work it ends with the last fragment, and has its
number). `PartialsCount` says that every fragment was sent but the one being sent.
`TextCovered` excepts the sentence at work, which is not covered until its audio is sent
or has failed. `VisemesFollow` knows that between `SendAudio` and `SendViseme` the audio
is the last event, whatever is cancelled, and `OffsetsSum` that the offset is then behind
by its length. A step appends at most one event (`SentGrows`), so the sets `Events` grow
by at most one place and `Played` keeps its values (`PlayedAppends`).
`ChunksBelongTogether` and `SpeechIsTheText` follow. `NoSynthesisAfterCancel` needs no
invariant: the token is asked in the step that starts a synthesis.

Every invariant and action property that a run checks is stated by a theorem. Only
model-checked is liveness (`Drained`, `Answered` and the two `Returns`), which is outside
the proof system.

## 5. What is left

In the order of what it would add:

1. The browser client: reconnect, the queue of audio, and the microphone gate, against
   `TurnHandler`. Races found in reading: a watchdog that opens the microphone gate
   (`app.js:593`) before a late final, a second `onstop` of the recorder
   (`audio.js:30`), and a `play()` that is rejected and never ends (`audio.js:332`).
2. `VectorIndex`: ids and rows against a reference definition.

## 6. Not modelled

Numeric and media code (embeddings, emotion blending, lip-sync, audio, VAD and speech
inference, Live2D drawing), HTTP clients of the language models, prompt and persona
text, metrics exposition, logging, configuration parsing, the evaluation harness and the
demo scripts: no state of theirs takes part in a protocol. The browser client depends on
browser media APIs whose behaviour the repository does not define.

Of what is modelled, these parts are left out: the branch of the turn handler without a
streaming function (`handler.py:234-242`), which `main.py` never configures;
`auto_to_idle` of the state machine, which has no caller; the ranking and deduplication
of `search`; the fillers that `FillerAudioService` keeps; the second Redis client (for
bytes), which is cached by the same code; `consume`'s `max_messages` and
`inactivity_timeout`, which only tests use; the line breaks at which the chunker also
ends a sentence (`streaming.py:6`, `:55`), which change where text is cut and no more
than its white space; an index that is kept in Postgres (`memory/service.py:103-113`),
so that `IndexMatches` is about the index in the process. The orchestrator of protocol v2 is modelled as it stands, but the application does not
use it: `main.py` connects its sockets to `AvatarWebSocketHandler`.

What can go wrong in this code and is neither a property nor listed in `PROJECT.json`,
because the code does not claim to handle it: a handler that kills its process is
redelivered without end (`worker.py:323`); a delete whose database call failed is not
completed by its retry (`memory/service.py:335`); an SQL error leaves the connection in
a failed transaction (`postgres_store.py:47`); an exception in a turn leaves its worker
task waiting (`handler.py:356`); a tool has run and the second call of the model raises
(`main.py:204`); the worker process has a `ProactivityService` of its own, without the
app's reminders (`jobs.py:163`); a hung CosyVoice process stops every synthesis
(`tts_service.py:118`) and one that cannot start is started again after every call
(`tts_service.py:84`); speech of the fallback voice is cached under the key of the chain
(`tts_cache.py:60`); a second caller gets no speech model while the first is loading
(`stt_service.py:71`).
