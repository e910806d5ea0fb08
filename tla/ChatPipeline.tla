---------------------------- MODULE ChatPipeline ----------------------------
(***************************************************************************)
(* The chat pipeline (app/main.py) and the session history it keeps        *)
(* (app/session/service.py, app/session/redis_store.py). A turn comes      *)
(* through POST /chat/turn, or through the WebSocket handler, which runs   *)
(* its turns one at a time; each runs on a thread of its own. History      *)
(* lives in a list per user in memory, which add replaces when it grows    *)
(* too long, or in a Redis list.                                           *)
(* Messages, memories and what the model answers are arbitrary. Of a text  *)
(* of the model it matters whether it would pass check_output ("fine") or  *)
(* not ("unsafe"), is empty, or was broken off ("part"). The others are    *)
(* the program's own: "ready" in place of an empty one, "replaced" in      *)
(* place of an unsafe one, "refusal" and "busy"; and "rule", an answer     *)
(* made of a remembered name or of the persona's background, which nothing *)
(* checks and which therefore may be anything.                             *)
(***************************************************************************)
EXTENDS Integers, Sequences, FiniteSets

CONSTANTS
  Users,
  Turns,     \* the turns that may be asked for
  MaxTurns,  \* max_turns: entries of the history kept
  MaxDeltas, \* bound on the deltas of a streamed answer
  MaxEvents  \* bound on calls of Redis that raise, and on histories cleared or expired

ASSUME ChatAssumption ==
  /\ IsFiniteSet(Turns)
  /\ MaxTurns \in Nat \ {0}
  /\ MaxDeltas \in Nat /\ MaxEvents \in Nat

VARIABLES
  redis,     \* is history in Redis, or in memory
  streams,   \* ws_stream_enabled, and the provider streams
  pc,        \* where a turn is
  door,      \* "http" or "ws"
  user,      \* whose turn it is
  live,      \* does the turn stream its answer
  deltas,    \* how many deltas of the answer were yielded
  told,      \* the texts that the user was shown
  reply,     \* the answer, as it will be remembered
  role,      \* the entry that add stores
  list, cut, \* locals of add: the list it works on, and the slice of it
  lists, current, \* the lists that were ever _history[user], and which one is
  tokens,    \* calls of the rate limiter
  jobs,      \* curation jobs enqueued
  said,      \* history: the entries stored, in order
  calm,      \* history: has no turn of the user met another, nor a clear
  faults, clears

turnVars == <<door, user>>
answerVars == <<live, deltas, told, reply>>
addVars == <<role, list, cut>>
storeVars == <<lists, current, said>>
vars == <<redis, streams, pc, door, user, live, deltas, told, reply,
          role, list, cut, lists, current, tokens, jobs, said, calm, faults, clears>>

Roles == {"user", "assistant"}
Texts == {"fine", "empty", "unsafe"}
Replies == {"rule", "fine", "ready", "replaced", "unsafe", "refusal"}
Entries == [turn : Turns, role : Roles, answer : Replies]

Ended == {"new", "done", "gone", "over"}
Adding == {"fetch", "append", "trim", "rebind"}

\* The history of a user: none, or the list that _history holds.
History(u) == IF current[u] = 0 THEN <<>> ELSE lists[u][current[u]]

Latest(n, entries) == SubSeq(entries, Len(entries) - n + 1, Len(entries))

\* Types; and the WebSocket handler has one turn at a time.
TypeOK ==
  /\ redis \in BOOLEAN /\ streams \in BOOLEAN
  /\ pc \in [Turns -> {"streaming", "llm", "job"} \cup Ended \cup Adding]
  /\ door \in [Turns -> {"http", "ws"}] /\ user \in [Turns -> Users]
  /\ live \in [Turns -> BOOLEAN] /\ deltas \in [Turns -> 0..MaxDeltas]
  /\ told \in [Turns -> Seq(Replies \cup Texts \cup {"busy", "part"})]
  /\ reply \in [Turns -> Replies \cup {"none"}]
  /\ role \in [Turns -> Roles] /\ list \in [Turns -> Nat] /\ cut \in [Turns -> Seq(Entries)]
  /\ lists \in [Users -> Seq(Seq(Entries))]
  /\ \A u \in Users : current[u] \in 0..Len(lists[u])
  /\ tokens \in [Turns -> Nat] /\ jobs \in [Turns -> Nat]
  /\ \A t \in Turns : list[t] \in 0..Len(lists[user[t]])
  /\ Cardinality({t \in Turns : door[t] = "ws" /\ pc[t] \notin Ended}) <= 1
  /\ faults \in Nat /\ clears \in Nat /\ faults + clears <= MaxEvents

Init ==
  /\ redis \in BOOLEAN
  /\ streams \in BOOLEAN
  /\ pc = [t \in Turns |-> "new"]
  /\ door = [t \in Turns |-> "http"]
  /\ user \in {[t \in Turns |-> u] : u \in Users}
  /\ live = [t \in Turns |-> FALSE] /\ deltas = [t \in Turns |-> 0]
  /\ told = [t \in Turns |-> <<>>] /\ reply = [t \in Turns |-> "none"]
  /\ role = [t \in Turns |-> "user"] /\ list = [t \in Turns |-> 0]
  /\ cut = [t \in Turns |-> <<>>]
  /\ lists = [u \in Users |-> <<>>] /\ current = [u \in Users |-> 0]
  /\ tokens = [t \in Turns |-> 0] /\ jobs = [t \in Turns |-> 0]
  /\ said = [u \in Users |-> <<>>] /\ calm = [u \in Users |-> TRUE]
  /\ faults = 0 /\ clears = 0

-----------------------------------------------------------------------------
(***************************************************************************)
(* A turn, up to its answer.                                               *)
(***************************************************************************)
GoTo(t, label) == pc' = [pc EXCEPT ![t] = label]

Busy(u) == {t \in Turns : user[t] = u /\ pc[t] \notin Ended}

\* The answer is known: the exchange is to be added to the history.
Remember(t, text) ==
  /\ reply' = [reply EXCEPT ![t] = text]
  /\ role' = [role EXCEPT ![t] = "user"]
  /\ GoTo(t, "fetch")

\* What precedes the model: the capture of a name, the answers by rule (a remembered
\* name, and for a whole answer the persona's background), which go into the
\* history as they are, and the search of the memories. What raises here (memory.write,
\* memory.search) is not caught: the turn ends without an answer.
Start(t, label) ==
  \/ Remember(t, "rule")
  \/ GoTo(t, label) /\ UNCHANGED <<reply, role>>
  \/ GoTo(t, "gone") /\ UNCHANGED <<reply, role>>

\* The handler of the WebSocket holds its lock for a turn.
Free(d) == d = "ws" => \A t \in Turns : door[t] = "ws" => pc[t] \in Ended

\* chat_turn, or the handler's gate and then its stream of the answer. A caller
\* who is over the limit is told so, one whose message is unsafe gets a refusal.
Admit(t, u) ==
  /\ pc[t] = "new"
  /\ user' = [user EXCEPT ![t] = u]
  /\ tokens' = [tokens EXCEPT ![t] = @ + 1]
  /\ \E d \in {"http", "ws"} :
       /\ Free(d)
       /\ door' = [door EXCEPT ![t] = d]
       /\ live' = [live EXCEPT ![t] = (d = "ws" /\ streams)]
       /\ \/ /\ GoTo(t, "done")
             /\ told' = [told EXCEPT ![t] = <<"busy">>]
             /\ UNCHANGED <<reply, role, calm>>
          \/ /\ reply' = [reply EXCEPT ![t] = "refusal"]
             /\ GoTo(t, IF d = "http" THEN "job" ELSE "done")
             /\ told' = [told EXCEPT ![t] = IF d = "http" THEN <<>> ELSE <<"refusal">>]
             /\ UNCHANGED <<role, calm>>
          \/ /\ Start(t, IF d = "ws" /\ streams THEN "streaming" ELSE "llm")
             /\ calm' = [calm EXCEPT ![u] = @ /\ Busy(u) = {}]
             /\ UNCHANGED told
  /\ UNCHANGED <<redis, streams, deltas, list, cut, storeVars, jobs, faults, clears>>

\* The answer leaves the pipeline; chat_turn has a job to enqueue first.
Return(t, text) ==
  IF door[t] = "http"
  THEN GoTo(t, "job") /\ UNCHANGED told
  ELSE GoTo(t, "done") /\ told' = [told EXCEPT ![t] = Append(@, text)]

\* strip_thinking, the default for an empty answer, and check_output with the
\* text that replaces one that fails it. (The others are as they are.)
Checked(text) ==
  CASE text = "empty" -> "ready" [] text = "unsafe" -> "replaced" [] OTHER -> text

Answer(t, text) ==
  /\ Remember(t, Checked(text))
  /\ UNCHANGED <<redis, streams, turnVars, live, deltas, list, cut, storeVars,
                 tokens, jobs, calm, faults, clears>>

\* _tool_call_loop: the model answers, perhaps after one call of a tool. A call of
\* an unknown tool, and one whose follow-up cannot be parsed, are taken for the
\* answer; when the model fails, the fallback rule repeats the message.
ModelAnswers(t) ==
  /\ pc[t] = "llm"
  /\ \E text \in Texts : Answer(t, text)
  /\ UNCHANGED told

-----------------------------------------------------------------------------
(***************************************************************************)
(* _stream_chat_via_pipeline                                               *)
(***************************************************************************)
Delta(t) ==
  /\ pc[t] = "streaming"
  /\ deltas[t] < MaxDeltas
  /\ deltas' = [deltas EXCEPT ![t] = @ + 1]
  /\ UNCHANGED <<redis, streams, pc, turnVars, live, told, reply, addVars, storeVars,
                 tokens, jobs, calm, faults, clears>>

\* What the model may have streamed.
Streamed(t) == IF deltas[t] = 0 THEN {"empty"} ELSE Texts

\* The deltas of the answer were shown when they came.
Shown(t, text) == told' = IF deltas[t] = 0 THEN told ELSE [told EXCEPT ![t] = Append(@, text)]

\* Mutant: what was streamed is not checked.
StreamEndsUnchecked(t) ==
  /\ pc[t] = "streaming"
  /\ \E text \in Streamed(t) :
       /\ Remember(t, IF text = "unsafe" THEN text ELSE Checked(text))
       /\ Shown(t, text)
  /\ UNCHANGED <<redis, streams, turnVars, live, deltas, list, cut, storeVars,
                 tokens, jobs, calm, faults, clears>>

StreamEnds(t) ==
  /\ pc[t] = "streaming"
  /\ \E text \in Streamed(t) : Answer(t, text) /\ Shown(t, text)

\* Mutant: the fallback goes through the endpoint.
StreamFailsAtDoor(t) ==
  /\ pc[t] = "streaming"
  /\ live' = [live EXCEPT ![t] = FALSE]
  /\ Shown(t, "part")
  /\ Start(t, "llm")
  /\ tokens' = [tokens EXCEPT ![t] = @ + 1]
  /\ UNCHANGED <<redis, streams, turnVars, deltas, list, cut, storeVars,
                 jobs, calm, faults, clears>>

\* The stream breaks: the whole pipeline answers instead, from its start, after
\* what was shown of the stream.
StreamFails(t) ==
  /\ pc[t] = "streaming"
  /\ live' = [live EXCEPT ![t] = FALSE]
  /\ Shown(t, "part")
  /\ Start(t, "llm")
  /\ UNCHANGED <<redis, streams, turnVars, deltas, list, cut, storeVars,
                 tokens, jobs, calm, faults, clears>>

\* The handler drops the iterator after a delta: the client has left.
Abandon(t) ==
  /\ pc[t] = "streaming" /\ deltas[t] > 0
  /\ GoTo(t, "gone")
  /\ UNCHANGED <<redis, streams, turnVars, answerVars, addVars, storeVars, tokens, jobs,
                 calm, faults, clears>>

-----------------------------------------------------------------------------
(***************************************************************************)
(* SessionService.add, twice: the message, then the answer.                *)
(***************************************************************************)
\* A message or an answer, with what is remembered as the answer of its turn.
Entry(t) == [turn |-> t, role |-> role[t], answer |-> reply[t]]

\* Mutant: the answer that stands in for a broken stream is not given either.
WasStreamedOrBroke(t) == door[t] = "ws" /\ streams /\ reply[t] # "rule"

\* The answer was streamed, and is not given again.
WasStreamed(t) == live[t] /\ reply[t] # "rule"

\* add returns.
Added(t) ==
  /\ list' = [list EXCEPT ![t] = 0]
  /\ IF role[t] = "user"
     THEN role' = [role EXCEPT ![t] = "assistant"] /\ GoTo(t, "fetch") /\ UNCHANGED told
     ELSE /\ UNCHANGED role
          /\ IF WasStreamed(t) THEN GoTo(t, "done") /\ UNCHANGED told
             ELSE Return(t, reply[t])

RedisFails == redis /\ faults + clears < MaxEvents /\ faults' = faults + 1

AddUnchanged == UNCHANGED <<redis, streams, turnVars, live, deltas, reply, tokens, jobs, calm, clears>>

\* What a list is after an entry was appended to it.
Extended(u, i, t) == [lists EXCEPT ![u][i] = Append(@, Entry(t))]

Noted(t) == said' = [said EXCEPT ![user[t]] = Append(@, Entry(t))]

\* RPUSH, which creates the list
Push(t) ==
  /\ lists' = IF lists[user[t]] = <<>> THEN [lists EXCEPT ![user[t]] = <<<<Entry(t)>>>>]
              ELSE Extended(user[t], 1, t)
  /\ current' = [current EXCEPT ![user[t]] = 1]
  /\ Noted(t)

\* An error may hide an RPUSH that was done.
RedisPush(t) ==
  /\ pc[t] = "fetch" /\ redis
  /\ \/ Push(t) /\ GoTo(t, "trim") /\ UNCHANGED <<role, list, told, faults>>
     \/ RedisFails /\ Added(t) /\ (Push(t) \/ UNCHANGED storeVars)
  /\ UNCHANGED cut
  /\ AddUnchanged

\* What is kept of a list.
Kept(entries) ==
  Latest(IF Len(entries) <= MaxTurns THEN Len(entries) ELSE MaxTurns, entries)

\* LTRIM
RedisTrim(t) ==
  /\ pc[t] = "trim" /\ redis
  /\ Added(t)
  /\ \/ /\ lists' = IF current[user[t]] = 0 THEN lists
                    ELSE [lists EXCEPT ![user[t]][1] = Kept(@)]
        /\ UNCHANGED faults
     \/ RedisFails /\ UNCHANGED lists
  /\ UNCHANGED <<cut, current, said>>
  /\ AddUnchanged

\* In memory: the list of the user, a new one if there is none;
Fetch(t) ==
  LET u == user[t]
      n == IF current[u] = 0 THEN Len(lists[u]) + 1 ELSE current[u]
  IN  /\ pc[t] = "fetch" /\ ~redis
      /\ lists' = IF current[u] = 0 THEN [lists EXCEPT ![u] = Append(@, <<>>)] ELSE lists
      /\ current' = [current EXCEPT ![u] = n]
      /\ list' = [list EXCEPT ![t] = n]
      /\ GoTo(t, "append")
      /\ UNCHANGED <<told, role, cut, said, faults>>
      /\ AddUnchanged

\* the entry is appended to it;
AppendEntry(t) ==
  /\ pc[t] = "append"
  /\ lists' = Extended(user[t], list[t], t)
  /\ Noted(t)
  /\ GoTo(t, "trim")
  /\ UNCHANGED <<told, addVars, current, faults>>
  /\ AddUnchanged

\* Mutant: the oldest entries are kept.
SliceOldest(t) ==
  LET entries == lists[user[t]][list[t]]
  IN  /\ pc[t] = "trim" /\ ~redis
      /\ \/ Len(entries) <= MaxTurns /\ Added(t) /\ UNCHANGED cut
         \/ /\ Len(entries) > MaxTurns
            /\ cut' = [cut EXCEPT ![t] = SubSeq(entries, 1, MaxTurns)]
            /\ GoTo(t, "rebind")
            /\ UNCHANGED <<told, role, list>>
      /\ UNCHANGED <<storeVars, faults>>
      /\ AddUnchanged

\* when it is too long now, its last entries are copied,
Slice(t) ==
  LET entries == lists[user[t]][list[t]]
  IN  /\ pc[t] = "trim" /\ ~redis
      /\ \/ Len(entries) <= MaxTurns /\ Added(t) /\ UNCHANGED cut
         \/ /\ Len(entries) > MaxTurns
            /\ cut' = [cut EXCEPT ![t] = Latest(MaxTurns, entries)]
            /\ GoTo(t, "rebind")
            /\ UNCHANGED <<told, role, list>>
      /\ UNCHANGED <<storeVars, faults>>
      /\ AddUnchanged

\* and the copy becomes the user's list, whatever was appended since. (A list that
\* no other add holds is replaced, one that is held stays.)
Rebind(t) ==
  LET u == user[t]
      held == \E r \in Turns \ {t} : user[r] = u /\ list[r] = current[u]
      n == IF held \/ current[u] = 0 THEN Len(lists[u]) + 1 ELSE current[u]
  IN  /\ pc[t] = "rebind"
      /\ lists' = IF n > Len(lists[u]) THEN [lists EXCEPT ![u] = Append(@, cut[t])]
                  ELSE [lists EXCEPT ![u][n] = cut[t]]
      /\ current' = [current EXCEPT ![u] = n]
      /\ cut' = [cut EXCEPT ![t] = <<>>]
      /\ Added(t)
      /\ UNCHANGED <<said, faults>>
      /\ AddUnchanged

\* Back in chat_turn: the job is enqueued, or the broker is not there.
Job(t) ==
  /\ pc[t] = "job"
  /\ jobs' \in {jobs, [jobs EXCEPT ![t] = @ + 1]}
  /\ told' = [told EXCEPT ![t] = Append(@, reply[t])]
  /\ GoTo(t, "done")
  /\ UNCHANGED <<redis, streams, turnVars, live, deltas, reply, addVars, storeVars,
                 tokens, calm, faults, clears>>

\* The caller has the answer, and nothing is left of the turn but its entries.
Forget(t) ==
  /\ pc[t] \in {"done", "gone"}
  /\ GoTo(t, "over")
  /\ door' = [door EXCEPT ![t] = "http"] /\ live' = [live EXCEPT ![t] = FALSE]
  /\ deltas' = [deltas EXCEPT ![t] = 0] /\ told' = [told EXCEPT ![t] = <<>>]
  /\ reply' = [reply EXCEPT ![t] = "none"] /\ role' = [role EXCEPT ![t] = "user"]
  /\ tokens' = [tokens EXCEPT ![t] = 0] /\ jobs' = [jobs EXCEPT ![t] = 0]
  /\ UNCHANGED <<redis, streams, user, list, cut, storeVars, calm, faults, clears>>

\* DELETE /chat/history, or the list expired in Redis. In memory, an add at work
\* keeps its list. (When there is none, no list is left.)
Clear(u) ==
  /\ faults + clears < MaxEvents
  /\ \/ /\ clears' = clears + 1
        /\ current' = [current EXCEPT ![u] = 0]
        /\ lists' = IF redis \/ \A t \in Turns : list[t] = 0
                    THEN [lists EXCEPT ![u] = <<>>] ELSE lists
        /\ said' = [said EXCEPT ![u] = <<>>]
        /\ calm' = [calm EXCEPT ![u] = @ /\ Busy(u) = {}]
        /\ UNCHANGED faults
     \/ RedisFails /\ UNCHANGED <<storeVars, calm, clears>>
  /\ UNCHANGED <<redis, streams, pc, turnVars, answerVars, addVars, tokens, jobs>>

Next ==
  \/ \E t \in Turns :
       \/ \E u \in Users : Admit(t, u)
       \/ ModelAnswers(t)
       \/ Delta(t) \/ StreamEnds(t) \/ StreamFails(t) \/ Abandon(t)
       \/ RedisPush(t) \/ RedisTrim(t)
       \/ Fetch(t) \/ AppendEntry(t) \/ Slice(t) \/ Rebind(t)
       \/ Job(t) \/ Forget(t)
  \/ \E u \in Users : Clear(u)

Spec == Init /\ [][Next]_vars

-----------------------------------------------------------------------------
(***************************************************************************)
(* Properties.                                                             *)
(***************************************************************************)
\* The history of a user is the end of what was said, in order, and as much of it
\* as is kept: in Redis whatever turns ran at once, and in memory as long as the
\* turns of the user did not meet (the list in memory has no lock).
IsTheEnd ==
  \A u \in Users : redis \/ calm[u] =>
    LET n == Len(History(u))
    IN  /\ n <= Len(said[u])
        /\ History(u) = Latest(n, said[u])
        /\ n >= MaxTurns \/ n = Len(said[u])

\* History is bounded: beyond the limit it holds what is being added, and in Redis
\* what a failed LTRIM has left.
Bounded ==
  \A u \in Users :
    Len(History(u)) <= MaxTurns + faults
                       + Cardinality({t \in Turns : user[t] = u /\ pc[t] \in {"trim", "rebind"}})

\* A session forgets neither too much nor too little (SessionService.add and get).
Remembers == IsTheEnd /\ Bounded

\* The first entry is the answer to the second, a message.
Follows(answer, message) ==
  answer.turn = message.turn /\ answer.role = "assistant" /\ message.role = "user"

\* The messages that the model is given alternate: as long as a user's turns do
\* not meet and Redis works, a message is followed by its own answer, unless the
\* turn is not over yet.
Alternates ==
  \A u \in Users : calm[u] /\ faults = 0 =>
    \A i \in 1..Len(History(u)) :
      LET e == History(u)[i]
      IN  IF e.role = "user"
          THEN \/ i = Len(History(u)) /\ pc[e.turn] \notin Ended
               \/ i < Len(History(u)) /\ Follows(History(u)[i + 1], e)
          ELSE i = 1 \/ Follows(e, History(u)[i - 1])

\* No text of the model that fails check_output is remembered, and so given to the
\* model again, whether it was streamed, came whole or replaced a broken stream;
\* and nothing is remembered of a turn whose message was refused. It is about the
\* model's texts: answers by rule are remembered unchecked (main.py:248, :438).
HistoryIsSafe ==
  \A u \in Users : \A i \in 1..Len(History(u)) :
    History(u)[i].answer \notin {"unsafe", "refusal"}

\* What is remembered of what a user was shown: the last text, checked; the default
\* after an empty stream, of which nothing was shown.
Memory(texts) == IF texts = <<>> THEN "ready" ELSE Checked(texts[Len(texts)])

\* A finished turn showed one whole answer, or nothing if an empty text was streamed;
\* before the answer, perhaps the part of a stream that broke.
ShowsOneAnswer(t) ==
  \/ told[t] = <<>> /\ live[t] /\ deltas[t] = 0
  \/ Len(told[t]) = 1 /\ told[t][1] # "part"
  \/ /\ Len(told[t]) = 2 /\ told[t][1] = "part" /\ told[t][2] # "part"
     /\ door[t] = "ws" /\ ~live[t] /\ deltas[t] > 0

\* The history has an entry of this turn for this role, with this answer.
Has(entries, t, r, answer) ==
  \E i \in 1..Len(entries) : entries[i] = [turn |-> t, role |-> r, answer |-> answer]

\* What the user was shown is what the history says: of a finished turn the history
\* has no other answer than the one shown last, as check_output left it; and if
\* nothing failed or was cleared, message and answer were both stored, unless the
\* turn was turned away. The part of a broken stream is shown and not remembered; an
\* unsafe streamed text is shown, and its replacement remembered.
ToldIsRemembered ==
  \A t \in Turns : pc[t] = "done" =>
    /\ ShowsOneAnswer(t)
    /\ \A i \in 1..Len(History(user[t])) :
         History(user[t])[i].turn = t => History(user[t])[i].answer = Memory(told[t])
    /\ faults = 0 /\ clears = 0 /\ told[t] \notin {<<"busy">>, <<"refusal">>} =>
         \A r \in Roles : Has(said[user[t]], t, r, Memory(told[t]))

\* A turn takes one token from the rate limiter, whatever its transport, its
\* provider and its fallbacks.
OneToken == \A t \in Turns : pc[t] \notin {"new", "over"} => tokens[t] = 1

\* Jobs are enqueued at the HTTP boundary only, at most one for a turn, once its
\* answer is known and whatever the broker does.
JobBehindAnswer ==
  \A t \in Turns : jobs[t] > 0 =>
    door[t] = "http" /\ jobs[t] = 1 /\ reply[t] # "none" /\ told[t] = <<reply[t]>>

\* The history that the model is given is sound: messages and their own answers
\* alternate, and no text of the model in it failed check_output.
HistoryIsSound == Alternates /\ HistoryIsSafe

\* What a turn does once: it takes one token, holds the socket alone, and enqueues
\* at most one job, behind its answer.
OncePerTurn == TypeOK /\ OneToken /\ JobBehindAnswer
=============================================================================
