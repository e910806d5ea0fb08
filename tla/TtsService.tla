------------------------------ MODULE TtsService ------------------------------
(***************************************************************************)
(* Speech synthesis (app/voice/tts_service.py): the chain of providers     *)
(* behind the Redis cache (app/voice/tts_cache.py), and the CosyVoice      *)
(* provider, which talks to a worker process (cosyvoice_worker.py) through *)
(* its stdin and stdout under a reentrant lock.                            *)
(* Callers are the threads that synthesize: those of the turn handler, the *)
(* endpoints and the filler's, which generates in advance. Warmers are the *)
(* threads that start a worker in the background and say Hello to it.      *)
(* A text is a model value; audio is the text it speaks and the provider   *)
(* that made it. The lines of the worker are its responses and noise, the  *)
(* brace that a library printed ({...}) being noise that reads as one.     *)
(***************************************************************************)
EXTENDS Integers, Sequences, FiniteSets

CONSTANTS
  Callers, Warmers,
  Texts,     \* what callers synthesize
  Silent,    \* of these, the texts that _clean_for_tts leaves empty
  Hello,     \* what warm-ups synthesize
  NoOne,     \* no thread holds the lock
  MaxCalls,  \* bound on the calls of synthesize
  MaxFaults  \* bound on deaths of workers, failed starts, noise and cache faults

ASSUME TtsAssumption ==
  /\ IsFiniteSet(Warmers) /\ Callers \cap Warmers = {}
  /\ Silent \subseteq Texts /\ Hello \notin Texts
  /\ NoOne \notin Callers \cup Warmers
  /\ MaxCalls \in Nat /\ MaxFaults \in Nat
  /\ Cardinality(Warmers) >= MaxFaults + 2 \* one at the start, one after the first call

VARIABLES
  proc,     \* _proc: the number of a worker, or 0 for None
  workers,  \* every worker that was started: alive, its stdin and its stdout
  confused, \* history: the workers whose noise was taken for a response
  lock,     \* who holds _lock
  pc, text, \* where a thread is, and what it synthesizes
  audio,    \* what a thread got
  store,    \* will the thread write the cache
  cache,    \* the Redis keys, by text
  calls, faults

procVars == <<proc, workers, confused>>
callVars == <<text, store>>
vars == <<proc, workers, confused, lock, pc, text, audio, store, cache, calls, faults>>

Threads == Callers \cup Warmers
Nothing == [of |-> NoOne, by |-> "none"]
Corrupt == [of |-> NoOne, by |-> "corrupt"]
Speech == [of : Texts \cup {Hello}, by : {"cosy", "fallback"}]

Alive(w) == w # 0 /\ workers[w].alive
Fault == faults < MaxFaults /\ faults' = faults + 1
At(t, place) == pc' = [pc EXCEPT ![t] = place]

\* A fresh worker takes the place of _proc.
Spawned ==
  /\ workers' = Append(workers, [alive |-> TRUE, stdin |-> << >>, stdout |-> << >>])
  /\ proc' = Len(workers) + 1

\* The constructor starts a warm-up.
Init ==
  /\ proc = 0 /\ workers = << >> /\ confused = {} /\ lock = NoOne
  /\ pc = [t \in Threads |-> IF t \in Callers THEN "idle"
                             ELSE IF t = CHOOSE w \in Warmers : TRUE THEN "warm"
                             ELSE "unborn"]
  /\ text = [t \in Threads |-> Hello]
  /\ audio = [t \in Callers |-> Nothing]
  /\ store = [t \in Callers |-> FALSE]
  /\ cache = [x \in Texts |-> Nothing]
  /\ calls = 0 /\ faults = 0

-----------------------------------------------------------------------------
(* The cache around the chain: CachedTTSService.synthesize.                 *)

\* The thread is through the cache, and goes to the first provider of the chain.
ToChain(t, x, cached) ==
  /\ text' = [text EXCEPT ![t] = x]
  /\ store' = [store EXCEPT ![t] = cached]
  /\ At(t, IF x \in Silent THEN "fallback" ELSE "enter")
  /\ UNCHANGED audio

Get(t) ==
  /\ pc[t] = "idle" /\ calls < MaxCalls
  /\ calls' = calls + 1
  /\ \E x \in Texts :
       IF cache[x] \in Speech
       THEN /\ audio' = [audio EXCEPT ![t] = cache[x]]
            /\ text' = [text EXCEPT ![t] = x]
            /\ At(t, "return")
            /\ UNCHANGED store
       ELSE ToChain(t, x, TRUE)
  /\ UNCHANGED <<procVars, lock, cache, faults>>

\* No client, or its get raises: the call passes the cache by.
GetFails(t) ==
  /\ pc[t] = "idle" /\ calls < MaxCalls
  /\ calls' = calls + 1 /\ Fault
  /\ \E x \in Texts : ToChain(t, x, FALSE)
  /\ UNCHANGED <<procVars, lock, cache>>

\* setex may raise, which is swallowed.
Put(t) ==
  /\ pc[t] = "put"
  /\ \/ cache' = [cache EXCEPT ![text[t]] = audio[t]] /\ UNCHANGED faults
     \/ Fault /\ UNCHANGED cache
  /\ At(t, "return")
  /\ UNCHANGED <<procVars, lock, callVars, audio, calls>>

Return(t) ==
  /\ pc[t] = "return"
  /\ At(t, "idle")
  /\ text' = [text EXCEPT ![t] = Hello]
  /\ audio' = [audio EXCEPT ![t] = Nothing]
  /\ store' = [store EXCEPT ![t] = FALSE]
  /\ UNCHANGED <<procVars, lock, cache, calls, faults>>

\* External: a key expires, or is found to be unreadable.
Expire(x) ==
  /\ cache[x] # Nothing
  /\ \/ cache' = [cache EXCEPT ![x] = Nothing] /\ UNCHANGED faults
     \/ cache' = [cache EXCEPT ![x] = Corrupt] /\ Fault
  /\ UNCHANGED <<procVars, lock, pc, callVars, audio, calls>>

-----------------------------------------------------------------------------
(* The chain: ChainedTTSService.synthesize.                                 *)

\* A provider's answer ends the chain; a provider that raises hands on to the
\* next: FishAudio always raises, the fallback answers always.
Answered(t, speech) ==
  IF t \in Callers
  THEN /\ audio' = [audio EXCEPT ![t] = speech]
       /\ At(t, IF store[t] THEN "put" ELSE "return")
  ELSE /\ At(t, "gone") /\ UNCHANGED audio

Raised(t) == At(t, IF t \in Callers THEN "fallback" ELSE "gone") /\ UNCHANGED audio

Fallback(t) ==
  /\ pc[t] = "fallback"
  /\ Answered(t, [of |-> text[t], by |-> "fallback"])
  /\ UNCHANGED <<procVars, lock, callVars, cache, calls, faults>>

-----------------------------------------------------------------------------
(* CosyVoice: starting the worker.                                          *)

\* _warmup and _warmup_background, up to the first check of _ensure_worker.
Warm(t) ==
  /\ pc[t] = "warm"
  /\ At(t, IF Alive(proc) THEN "enter" ELSE "locking")
  /\ UNCHANGED <<procVars, lock, callVars, audio, cache, calls, faults>>

\* Mutant: the check is not made again under the lock.
WarmLockedUnchecked(t) ==
  /\ pc[t] = "locking" /\ lock = NoOne
  /\ Spawned /\ At(t, "enter") /\ UNCHANGED faults
  /\ UNCHANGED <<confused, lock, callVars, audio, cache, calls>>

\* The second check of _ensure_worker, and Popen, which may raise.
WarmLocked(t) ==
  /\ pc[t] = "locking" /\ lock = NoOne
  /\ \/ /\ Alive(proc)
        /\ At(t, "enter") /\ UNCHANGED <<proc, workers, faults>>
     \/ /\ ~ Alive(proc)
        /\ Spawned /\ At(t, "enter") /\ UNCHANGED faults
     \/ /\ ~ Alive(proc)
        /\ Fault /\ At(t, "gone") /\ UNCHANGED <<proc, workers>>
  /\ UNCHANGED <<confused, lock, callVars, audio, cache, calls>>

-----------------------------------------------------------------------------
(* CosyVoice: synthesize, under the lock.                                   *)

\* _auto_restart: a thread of its own is to start and greet a new worker.
Enter(t) ==
  /\ pc[t] = "enter" /\ lock = NoOne
  /\ lock' = t
  /\ IF Alive(proc)
     THEN At(t, "ensure") /\ UNCHANGED proc
     ELSE /\ proc' = 0
          /\ \E w \in {CHOOSE v \in Warmers : pc[v] = "unborn"} :
               pc' = [pc EXCEPT ![t] = "ensure", ![w] = "warm"]
  /\ UNCHANGED <<workers, confused, callVars, audio, cache, calls, faults>>

\* _ensure_worker, with the lock held already.
Ensure(t) ==
  /\ pc[t] = "ensure"
  /\ \/ /\ Alive(proc)
        /\ At(t, "write") /\ UNCHANGED <<proc, workers, lock, audio, faults>>
     \/ /\ ~ Alive(proc)
        /\ Spawned /\ At(t, "write") /\ UNCHANGED <<lock, audio, faults>>
     \/ /\ ~ Alive(proc)
        /\ Fault /\ Raised(t) /\ lock' = NoOne /\ UNCHANGED <<proc, workers>>
  /\ UNCHANGED <<confused, callVars, cache, calls>>

\* The pipe of a worker that died is broken; _proc stays as it is.
Write(t) ==
  /\ pc[t] = "write"
  /\ IF Alive(proc)
     THEN /\ workers' = [workers EXCEPT ![proc].stdin = Append(@, text[t])]
          /\ At(t, "read") /\ UNCHANGED <<lock, audio>>
     ELSE Raised(t) /\ lock' = NoOne /\ UNCHANGED workers
  /\ UNCHANGED <<proc, confused, callVars, cache, calls, faults>>

\* The next line of the worker.
Line == Head(workers[proc].stdout)
Consumed == workers' = [workers EXCEPT ![proc].stdout = Tail(@)]
HasLine == proc # 0 /\ workers[proc].stdout # << >>

\* A response to the request, or a brace, which json.loads rejects.
Read(t) ==
  /\ pc[t] = "read" /\ HasLine
  /\ Line.kind # "noise"
  /\ Consumed
  /\ lock' = NoOne
  /\ IF Line.kind = "ok"
     THEN Answered(t, [of |-> Line.of, by |-> "cosy"])
     ELSE Raised(t)
  /\ confused' = confused \cup (IF Line.kind = "brace" THEN {proc} ELSE {})
  /\ UNCHANGED <<proc, callVars, cache, calls, faults>>

\* Any other line is skipped.
SkipNoise(t) ==
  /\ pc[t] = "read" /\ HasLine
  /\ Line.kind = "noise"
  /\ Consumed
  /\ UNCHANGED <<proc, confused, lock, pc, callVars, audio, cache, calls, faults>>

\* Mutant: a thread need not wait for its response.
ReadGivesUp(t) ==
  /\ pc[t] = "read" /\ ~ HasLine
  /\ IF Alive(proc) THEN UNCHANGED proc ELSE proc' = 0
  /\ Raised(t) /\ lock' = NoOne
  /\ UNCHANGED <<workers, confused, callVars, cache, calls, faults>>

\* Mutant: an empty line is noise like any other.
ReadOn(t) ==
  /\ pc[t] = "read" /\ ~ HasLine /\ ~ Alive(proc)
  /\ UNCHANGED vars

\* The output ended with the worker.
ReadEnd(t) ==
  /\ pc[t] = "read" /\ ~ HasLine /\ ~ Alive(proc)
  /\ proc' = 0
  /\ Raised(t) /\ lock' = NoOne
  /\ UNCHANGED <<workers, confused, callVars, cache, calls, faults>>

-----------------------------------------------------------------------------
(* The worker: main.                                                        *)

\* It answers one request after the other, with audio or an error.
Respond(w) ==
  /\ Alive(w) /\ workers[w].stdin # << >>
  /\ \E kind \in {"ok", "error"} :
       workers' = [workers EXCEPT ![w].stdin = Tail(@),
                     ![w].stdout = Append(@, [kind |-> kind, of |-> Head(workers[w].stdin)])]
  /\ UNCHANGED <<proc, confused, lock, pc, callVars, audio, cache, calls, faults>>

\* External: a library prints a line of its own while the worker works.
Chatter(w) ==
  /\ Alive(w) /\ workers[w].stdin # << >>
  /\ Fault
  /\ \E kind \in {"noise", "brace"} :
       workers' = [workers EXCEPT ![w].stdout = Append(@, [kind |-> kind, of |-> Hello])]
  /\ UNCHANGED <<proc, confused, lock, pc, callVars, audio, cache, calls>>

\* External: the worker dies; what it printed can still be read.
Die(w) ==
  /\ Alive(w)
  /\ Fault
  /\ workers' = [workers EXCEPT ![w].alive = FALSE, ![w].stdin = << >>]
  /\ UNCHANGED <<proc, confused, lock, pc, callVars, audio, cache, calls>>

Thread(t) ==
  \/ t \in Callers /\ (Put(t) \/ Return(t) \/ Fallback(t))
  \/ Warm(t) \/ WarmLocked(t)
  \/ Enter(t) \/ Ensure(t) \/ Write(t) \/ Read(t) \/ SkipNoise(t) \/ ReadEnd(t)

Next ==
  \/ \E t \in Callers : Get(t) \/ GetFails(t)
  \/ \E t \in Threads : Thread(t)
  \/ \E x \in Texts : Expire(x)
  \/ \E w \in 1 .. Len(workers) : Respond(w) \/ Chatter(w) \/ Die(w)

Spec == Init /\ [][Next]_vars

\* A caller that can go on does, warm-ups do not stop while one can go on, and
\* a worker that has a request answers it or dies. The lock is not fair: that a
\* caller gets it rests on the number of calls being bounded.
FairSpec ==
  /\ Spec
  /\ \A t \in Callers : WF_vars(Thread(t))
  /\ WF_vars(\E t \in Warmers : Thread(t))
  /\ WF_vars(\E w \in 1 .. Len(workers) : Respond(w))

-----------------------------------------------------------------------------
(* Properties. *)

TypeOK ==
  /\ proc \in 0 .. Len(workers) /\ confused \subseteq 1 .. Len(workers)
  /\ lock \in Threads \cup {NoOne}
  /\ \A t \in Threads :
       /\ (lock = t) = (pc[t] \in {"ensure", "write", "read"})
       /\ pc[t] \in {"enter", "ensure", "write", "read"} \cup
            (IF t \in Callers THEN {"idle", "fallback", "put", "return"}
             ELSE {"unborn", "warm", "locking", "gone"})
  /\ \A t \in Callers : (audio[t] # Nothing) = (pc[t] \in {"put", "return"})
  /\ \A x \in Texts : cache[x] \in Speech \cup {Nothing, Corrupt}
  /\ calls \in 0 .. MaxCalls /\ faults \in 0 .. MaxFaults

\* There is one worker at a time, whichever threads start one at once: a worker
\* "leaking a GPU-resident model" is what the comment at the lock warns of.
OneWorker == Cardinality({w \in 1 .. Len(workers) : workers[w].alive}) <= 1

\* What a call returns, and what the cache holds under a text, speaks that
\* text, whatever dies, raises or is noisy, until a brace was taken for a
\* worker's response ("one-request-one-response").
SpeaksItsText ==
  confused = {} =>
    /\ \A t \in Callers : audio[t] # Nothing => audio[t].of = text[t]
    /\ \A x \in Texts : cache[x] \in Speech => cache[x].of = x

\* Between two calls nothing is under way in the worker's pipes: the next call
\* cannot meet a request or a response that is not its own.
InStep ==
  lock = NoOne /\ Alive(proc) /\ proc \notin confused =>
    workers[proc].stdin = << >> /\ workers[proc].stdout = << >>

\* A call of synthesize returns, though the worker is dead, cannot be started or
\* dies under it.
Returns == \A t \in Callers : pc[t] # "idle" ~> pc[t] = "idle"

\* One request, one response: what is asked is what is answered, and under the lock
\* of one caller.
OneForOne == TypeOK /\ InStep /\ SpeaksItsText
=============================================================================
