----------------------------- MODULE TurnHandler -----------------------------
(***************************************************************************)
(* AvatarWebSocketHandler (app/ws/handler.py) with the conversation state  *)
(* machine (app/avatar/state_machine.py). One handler object serves every  *)
(* socket: the avatar's state, the turn lock and the echo guard are        *)
(* shared. A turn streams the reply of the pipeline through the sentence   *)
(* chunker; a worker task speaks the sentences behind it.                  *)
(* An action runs from one wait for a thread of the executor, the queue,   *)
(* the lock or the socket's receive to the next; a send does not yield.    *)
(***************************************************************************)
EXTENDS Integers, Sequences, FiniteSets

CONSTANTS
  Sockets,     \* clients that connect
  Deltas,      \* what the pipeline may yield next
  FirstLimit, SoftLimit, \* of the sentence chunker
  FirstTarget, \* merge_target of the first chunk
  MergeTarget, \* merge_target of the others
  Fillers,     \* is there a filler service
  MaxDeltas,   \* bound on the deltas of a reply
  MaxFrames,   \* bound on the frames of all clients
  MaxConnects, \* bound on connections
  MaxFaults    \* bound on clients that leave and pipelines that raise

ASSUME TurnAssumption ==
  /\ IsFiniteSet(Sockets)
  /\ Deltas \subseteq Seq(STRING)
  /\ FirstLimit \in Nat \ {0} /\ SoftLimit \in Nat \ {0}
  /\ FirstTarget \in Nat /\ MergeTarget \in Nat
  /\ Fillers \in BOOLEAN
  /\ MaxDeltas \in Nat /\ MaxFrames \in Nat /\ MaxConnects \in Nat /\ MaxFaults \in Nat

VARIABLES
  avatar,    \* state_machine.state
  open,      \* can a frame be sent to the client
  pc,        \* where the task of each socket is in handle
  lock,      \* _turn_lock: its holder, then those who wait
  recent,    \* is _last_audio_send_ms less than POST_TTS_HOLDOFF_MS ago
  \* The turn that holds the lock:
  response, chunker, \* what the pipeline has yielded, and what is not yet cut
  queue,     \* tts_queue
  wpc,       \* where tts_worker is
  hand,      \* how many sentences it has taken from the queue
  sawEnd,    \* did it see the end of the queue
  firstAudio, fillerAudio, firstChunk, \* sent_first_audio, sent_filler_audio,
             \*   first_chunk_done
  orphans,   \* workers of turns that died, which may still set "speaking"
  shown,     \* history: the sentences of the turn sent as chat_partial
  handled,   \* history: how many of them were spoken, or skipped
  mute,      \* history: was audio sent while the avatar did not speak
  alone,     \* history: has the turn's client been the only one
  finals,    \* history: turns completed
  frames, connects, faults

turnVars == <<response, chunker, queue, wpc, hand, sawEnd, firstAudio, fillerAudio,
              firstChunk, shown, handled>>
sharedVars == <<avatar, lock, recent>>
ghostVars == <<mute, alone, finals>>
boundVars == <<frames, connects, faults>>
vars == <<avatar, open, pc, lock, recent, response, chunker, queue, wpc,
          hand, sawEnd, firstAudio, fillerAudio, firstChunk, orphans, shown, handled,
          mute, alone, finals, frames, connects, faults>>

Chunks == INSTANCE SentenceChunker

AvatarStates == {"idle", "listening", "thinking", "speaking"}

\* None in tts_queue; a sentence is never empty.
EndMark == <<>>

Holder(s) == lock # <<>> /\ Head(lock) = s

InTurn == {"next", "filler", "join"}

\* Types; and whoever wants a turn is in the lock's queue exactly once, at its
\* head while the turn runs.
TypeOK ==
  /\ avatar \in AvatarStates
  /\ open \in [Sockets -> BOOLEAN]
  /\ pc \in [Sockets -> {"off", "receive", "vad", "chatgate", "voicegate", "stt", "lock",
                         "next", "filler", "join"}]
  /\ lock \in Seq(Sockets)
  /\ \A s \in Sockets :
       /\ pc[s] \in InTurn => Holder(s)
       /\ Cardinality({i \in 1..Len(lock) : lock[i] = s}) =
            IF pc[s] \in {"lock"} \cup InTurn THEN 1 ELSE 0
  /\ recent \in BOOLEAN
  /\ wpc \in {"none", "wait", "synth", "done", "failed"}
  /\ hand \in Nat /\ handled \in Nat /\ handled + hand <= Len(shown)
  /\ {sawEnd, firstAudio, fillerAudio, firstChunk, mute, alone} \subseteq BOOLEAN
  /\ orphans \in Nat
  /\ finals \in 0..MaxFrames /\ frames \in 0..MaxFrames
  /\ connects \in 0..MaxConnects /\ faults \in 0..MaxFaults

NoTurn ==
  /\ response = <<>> /\ chunker = Chunks!EmptyChunker /\ queue = <<>>
  /\ wpc = "none" /\ hand = 0 /\ sawEnd = FALSE
  /\ firstAudio = FALSE /\ fillerAudio = FALSE /\ firstChunk = FALSE
  /\ shown = <<>> /\ handled = 0

Init ==
  /\ avatar = "idle"
  /\ open = [s \in Sockets |-> FALSE]
  /\ pc = [s \in Sockets |-> "off"]
  /\ lock = <<>>
  /\ recent = FALSE
  /\ NoTurn
  /\ orphans = 0
  /\ mute = FALSE /\ alone = TRUE /\ finals = 0
  /\ frames = 0 /\ connects = 0 /\ faults = 0

-----------------------------------------------------------------------------
(***************************************************************************)
(* The state machine.                                                      *)
(***************************************************************************)
Allowed == [idle      |-> {"listening", "thinking", "speaking"},
            listening |-> {"thinking", "idle"},
            thinking  |-> {"speaking", "idle"},
            speaking  |-> {"idle", "thinking", "listening"}]

\* An illegal transition keeps the state.
After(state, target) ==
  IF target \in Allowed[state] \cup {state, "idle"} THEN target ELSE state

Transition(target) == avatar' = After(avatar, target)

GoTo(s, label) == pc' = [pc EXCEPT ![s] = label]

-----------------------------------------------------------------------------
(***************************************************************************)
(* Connections, and the frames that handle answers itself.                 *)
(***************************************************************************)
\* The other clients with a handler.
Others(s) == {r \in Sockets \ {s} : pc[r] # "off"}

Connect(s) ==
  /\ pc[s] = "off"
  /\ connects < MaxConnects /\ connects' = connects + 1
  /\ open' = [open EXCEPT ![s] = TRUE]
  /\ GoTo(s, "receive")
  /\ alone' = (alone /\ Others(s) = {})
  /\ UNCHANGED <<sharedVars, turnVars, orphans, mute, finals, frames, faults>>

\* The client goes away; the handler learns of it at its next receive or send.
Leave(s) ==
  /\ open[s]
  /\ faults < MaxFaults /\ faults' = faults + 1
  /\ open' = [open EXCEPT ![s] = FALSE]
  /\ UNCHANGED <<sharedVars, pc, turnVars, orphans, ghostVars, frames, connects>>

\* receive raises WebSocketDisconnect, or the frame is not JSON: handle ends.
Disconnect(s) ==
  /\ pc[s] = "receive"
  /\ open' = [open EXCEPT ![s] = FALSE]
  /\ \/ ~open[s] /\ UNCHANGED frames
     \/ open[s] /\ frames < MaxFrames /\ frames' = frames + 1
  /\ GoTo(s, "off")
  /\ UNCHANGED <<sharedVars, turnVars, orphans, ghostVars, connects, faults>>

Frame(s) ==
  /\ pc[s] = "receive" /\ open[s]
  /\ frames < MaxFrames /\ frames' = frames + 1

Chat(s) ==
  /\ Frame(s)
  /\ GoTo(s, "chatgate")
  /\ UNCHANGED <<sharedVars, open, turnVars, orphans, ghostVars, connects, faults>>

\* mic_start and mic_stop
Mic(s) ==
  /\ Frame(s)
  /\ \E target \in {"listening", "thinking"} : Transition(target)
  /\ UNCHANGED <<open, pc, lock, recent, turnVars, orphans, ghostVars,
                 connects, faults>>

\* An audio frame within the holdoff is refused; any other goes to the VAD.
Audio(s) ==
  /\ Frame(s)
  /\ \/ /\ recent
        /\ Transition("idle")
        /\ UNCHANGED pc
     \/ /\ ~recent
        /\ Transition("listening")
        /\ GoTo(s, "vad")
  /\ UNCHANGED <<open, lock, recent, turnVars, orphans, ghostVars,
                 connects, faults>>

\* handle sends the client something; a client that left ends the handler,
\* after the transition of a state frame that is sent first.
Refuse(s) ==
  /\ \/ open[s] /\ Transition("idle") /\ GoTo(s, "receive")
     \/ ~open[s] /\ UNCHANGED avatar /\ GoTo(s, "off")
  /\ UNCHANGED <<open, lock, recent, turnVars, orphans, ghostVars, boundVars>>

Proceed(s, label) ==
  /\ GoTo(s, label)
  /\ UNCHANGED <<avatar, open, recent, turnVars, orphans, ghostVars, boundVars>>

Vad(s) ==
  /\ pc[s] = "vad"
  /\ \/ Refuse(s)
     \/ Proceed(s, "voicegate") /\ UNCHANGED lock

\* _rate_limit_ok, before the pipeline and before speech recognition.
Gate(s) ==
  \/ pc[s] \in {"chatgate", "voicegate"} /\ Refuse(s)
  \/ pc[s] = "chatgate" /\ Proceed(s, "lock") /\ lock' = Append(lock, s)
  \/ pc[s] = "voicegate" /\ Proceed(s, "stt") /\ UNCHANGED lock

\* Nothing was understood, or only the avatar's own words; or a turn begins.
Transcribe(s) ==
  /\ pc[s] = "stt"
  /\ \/ Refuse(s)
     \/ /\ open[s]
        /\ Proceed(s, "lock") /\ lock' = Append(lock, s)

-----------------------------------------------------------------------------
(***************************************************************************)
(* A turn. The holder of the lock pulls deltas from the pipeline.          *)
(***************************************************************************)
\* The turn is over, one way or the other; the lock goes to who waits longest.
EndTurn(s, label) ==
  /\ lock' = Tail(lock)
  /\ GoTo(s, label)
  /\ response' = <<>> /\ chunker' = Chunks!EmptyChunker /\ queue' = <<>>
  /\ wpc' = "none" /\ hand' = 0 /\ sawEnd' = FALSE
  /\ firstAudio' = FALSE /\ fillerAudio' = FALSE /\ firstChunk' = FALSE
  /\ shown' = <<>> /\ handled' = 0

\* Sentences that the worker has in hand, or will find.
Unspoken == hand > 0 \/ \E i \in 1..Len(queue) : queue[i] # EndMark

\* An exception leaves the turn: handle ends, and the worker task stays behind.
\* One that has not spoken yet will still set the state before its send fails.
Abort(s) ==
  /\ orphans' = IF ~firstAudio /\ Unspoken THEN orphans + 1 ELSE orphans
  /\ open' = [open EXCEPT ![s] = FALSE]
  /\ EndTurn(s, "off")
  /\ UNCHANGED <<recent, ghostVars, frames, connects>>

Begin(s) ==
  /\ pc[s] = "lock" /\ Holder(s)
  /\ Transition("thinking")
  /\ \/ /\ open[s]
        /\ wpc' = "wait"
        /\ alone' = (Others(s) = {})
        /\ GoTo(s, "next")
        /\ UNCHANGED <<open, lock, recent, response, chunker, queue, hand,
                       sawEnd, firstAudio, fillerAudio, firstChunk, shown, handled,
                       orphans, mute, finals, boundVars>>
     \/ ~open[s] /\ Abort(s) /\ UNCHANGED faults

\* Sentences are shown, then queued for the worker.
Show(sentences, end) ==
  /\ shown' = shown \o sentences
  /\ queue' = queue \o sentences \o end
  /\ UNCHANGED <<avatar, open, lock, wpc, hand, sawEnd, firstAudio, firstChunk, handled,
                 orphans, ghostVars, boundVars>>

\* A send raises: the client has left.
SendRaises(s) == ~open[s] /\ Abort(s) /\ UNCHANGED <<avatar, faults>>

\* _safe_next returns a delta, and what it completes is shown.
Delta(s) ==
  /\ pc[s] = "next"
  /\ Len(response) < MaxDeltas
  /\ \E d \in Deltas : \E pushed \in {Chunks!Push(chunker, d)} :
       \/ /\ open[s] \/ pushed.out = <<>>
          /\ response' = Append(response, d)
          /\ chunker' = pushed.chunker
          /\ Show(pushed.out, <<>>)
          /\ UNCHANGED <<pc, recent, fillerAudio>>
       \/ pushed.out # <<>> /\ SendRaises(s)

\* It was slow, and nothing was heard so far: a filler is fetched before it is cut.
SlowDelta(s) ==
  /\ pc[s] = "next"
  /\ Len(response) < MaxDeltas
  /\ Fillers /\ ~firstAudio /\ ~fillerAudio
  /\ \E d \in Deltas : response' = Append(response, d)
  /\ GoTo(s, "filler")
  /\ UNCHANGED <<sharedVars, open, chunker, queue, wpc, hand, sawEnd, firstAudio,
                 fillerAudio, firstChunk, shown, handled, orphans, ghostVars, boundVars>>

\* The filler is sent, whatever the worker has sent meanwhile.
FillerReady(s) ==
  /\ pc[s] = "filler"
  /\ \/ /\ open[s]
        /\ recent' = TRUE
        /\ fillerAudio' = TRUE
        /\ \E pushed \in {Chunks!Push(chunker, response[Len(response)])} :
             /\ chunker' = pushed.chunker
             /\ Show(pushed.out, <<>>)
        /\ GoTo(s, "next")
        /\ UNCHANGED response
     \/ SendRaises(s)

PipelineRaises(s) ==
  /\ pc[s] = "next"
  /\ faults < MaxFaults /\ faults' = faults + 1
  /\ Abort(s)
  /\ UNCHANGED avatar

\* The reply ends: what is left is shown, and the worker told.
EndOfReply(s) ==
  LET left == Chunks!Flushed(chunker)
      tail == IF left = <<>> THEN <<>> ELSE <<left>>
  IN  /\ pc[s] = "next"
      /\ \/ /\ open[s] \/ tail = <<>>
            /\ chunker' = [chunker EXCEPT !.buf = <<>>]
            /\ Show(tail, <<EndMark>>)
            /\ GoTo(s, "join")
            /\ UNCHANGED <<response, recent, fillerAudio>>
         \/ tail # <<>> /\ SendRaises(s)

\* Expression, final text and "idle" are sent.
Finish(s) ==
  \/ /\ open[s]
     /\ avatar' = "idle"
     /\ finals' = finals + 1
     /\ EndTurn(s, "receive")
     /\ UNCHANGED <<open, recent, orphans, mute, alone, boundVars>>
  \/ /\ ~open[s]
     /\ IF firstAudio THEN UNCHANGED avatar ELSE Transition("speaking")
     /\ Abort(s)
     /\ UNCHANGED faults

\* Mutant: the final text does not wait for the worker.
JoinEarly(s) == pc[s] = "join" /\ Finish(s)

\* The worker has returned, or what it raised is raised here.
Join(s) ==
  /\ pc[s] = "join"
  /\ \/ wpc = "done" /\ Finish(s)
     \/ wpc = "failed" /\ SendRaises(s)

-----------------------------------------------------------------------------
(***************************************************************************)
(* tts_worker.                                                             *)
(***************************************************************************)
Length(sentences) == Len(Chunks!Flat(sentences))

\* The text of the first n sentences in the queue is short.
Short(n, target) == Length(SubSeq(queue, 1, n)) < target

\* How many sentences are merged into one call of the synthesizer: more while
\* the text is short and the queue has another.
Merged(target) ==
  CHOOSE n \in 1..Len(queue) :
    /\ \A i \in 1..n : queue[i] # EndMark /\ (i < n => Short(i, target))
    /\ n = Len(queue) \/ queue[n + 1] = EndMark \/ ~Short(n, target)

Target == IF firstChunk THEN MergeTarget ELSE FirstTarget

\* The end mark is next, and is taken too when the text is still short.
EndFollows(n) ==
  n < Len(queue) /\ queue[n + 1] = EndMark /\ Short(n, Target)

\* Mutant: a sentence that makes the text too long is taken, and not merged.
TakeDrops ==
  /\ wpc = "wait" /\ queue # <<>> /\ Head(queue) # EndMark
  /\ \E n \in {Merged(Target)} :
       /\ hand' = n
       /\ sawEnd' = EndFollows(n)
       /\ queue' = SubSeq(queue, IF n < Len(queue) /\ (EndFollows(n) \/ queue[n + 1] # EndMark)
                                THEN n + 2 ELSE n + 1, Len(queue))
  /\ wpc' = "synth"
  /\ UNCHANGED <<sharedVars, open, pc, response, chunker, firstAudio, fillerAudio,
                 firstChunk, shown, handled, orphans, ghostVars, boundVars>>

Take ==
  /\ wpc = "wait" /\ queue # <<>> /\ Head(queue) # EndMark
  /\ \E n \in {Merged(Target)} :
       /\ hand' = n
       /\ sawEnd' = EndFollows(n)
       /\ queue' = SubSeq(queue, IF EndFollows(n) THEN n + 2 ELSE n + 1, Len(queue))
  /\ wpc' = "synth"
  /\ UNCHANGED <<sharedVars, open, pc, response, chunker, firstAudio, fillerAudio,
                 firstChunk, shown, handled, orphans, ghostVars, boundVars>>

TakeEnd ==
  /\ wpc = "wait" /\ queue # <<>> /\ Head(queue) = EndMark
  /\ queue' = Tail(queue)
  /\ wpc' = "done"
  /\ UNCHANGED <<sharedVars, open, pc, response, chunker, hand, sawEnd, firstAudio,
                 fillerAudio, firstChunk, shown, handled, orphans, ghostVars, boundVars>>

HandDone ==
  /\ handled' = handled + hand
  /\ hand' = 0
  /\ sawEnd' = FALSE
  /\ wpc' = IF sawEnd THEN "done" ELSE "wait"

\* Mutant: a failure goes on with the queue, although its end was seen.
SkipForgetsEnd ==
  /\ wpc = "synth"
  /\ handled' = handled + hand /\ hand' = 0
  /\ sawEnd' = FALSE /\ wpc' = "wait"
  /\ UNCHANGED <<sharedVars, open, pc, response, chunker, queue, firstAudio, fillerAudio,
                 firstChunk, shown, orphans, ghostVars, boundVars>>

\* The synthesizer raises: the chunk is not spoken.
Skip ==
  /\ wpc = "synth"
  /\ HandDone
  /\ UNCHANGED <<sharedVars, open, pc, response, chunker, queue, firstAudio, fillerAudio,
                 firstChunk, shown, orphans, ghostVars, boundVars>>

\* Mutant: the state is set when the reply is complete only.
SpeakUnannounced ==
  /\ wpc = "synth" /\ open[Head(lock)]
  /\ HandDone
  /\ firstChunk' = TRUE /\ firstAudio' = TRUE /\ recent' = TRUE
  /\ mute' = (mute \/ (alone /\ avatar # "speaking"))
  /\ UNCHANGED <<avatar, open, pc, lock, response, chunker, queue, fillerAudio, shown,
                 orphans, alone, finals, boundVars>>

\* The first audio sets the state; a send to a client that left ends the worker.
Speak ==
  /\ wpc = "synth"
  /\ firstChunk' = TRUE /\ firstAudio' = TRUE
  /\ IF firstAudio THEN UNCHANGED avatar ELSE Transition("speaking")
  /\ \/ /\ open[Head(lock)]
        /\ HandDone
        /\ recent' = TRUE
        /\ mute' = (mute \/ (alone /\ avatar' # "speaking"))
     \/ /\ ~open[Head(lock)]
        /\ wpc' = "failed"
        /\ UNCHANGED <<recent, hand, handled, sawEnd, mute>>
  /\ UNCHANGED <<open, pc, lock, response, chunker, queue, fillerAudio, shown,
                 orphans, alone, finals, boundVars>>

Worker == Take \/ TakeEnd \/ Skip \/ Speak

\* A worker whose turn has died sets the state, or fails before.
Orphan ==
  /\ orphans > 0
  /\ orphans' = orphans - 1
  /\ avatar' \in {avatar, After(avatar, "speaking")}
  /\ UNCHANGED <<open, pc, lock, recent, turnVars, ghostVars, boundVars>>

\* POST_TTS_HOLDOFF_MS have passed since the last audio.
HoldoffOver ==
  /\ recent
  /\ recent' = FALSE
  /\ UNCHANGED <<avatar, open, pc, lock, turnVars, orphans, ghostVars, boundVars>>

-----------------------------------------------------------------------------
\* What the task of a socket does once it has a frame, and what of it must happen:
\* the reply of the pipeline ends.
Due(s) ==
  Vad(s) \/ Gate(s) \/ Transcribe(s) \/ Begin(s) \/ EndOfReply(s) \/ FillerReady(s) \/ Join(s)

Task(s) == Delta(s) \/ SlowDelta(s) \/ Due(s)

Next ==
  \/ \E s \in Sockets :
       \/ Connect(s) \/ Leave(s) \/ Disconnect(s)
       \/ Chat(s) \/ Mic(s) \/ Audio(s)
       \/ Task(s) \/ PipelineRaises(s)
  \/ Worker \/ Orphan \/ HoldoffOver

Spec == Init /\ [][Next]_vars

\* The executor answers, replies end, and the event loop runs every task that can
\* go on; what clients send and when they leave is up to them.
FairSpec == Spec /\ WF_vars(Worker) /\ \A s \in Sockets : WF_vars(Due(s))

-----------------------------------------------------------------------------
(***************************************************************************)
(* Properties.                                                             *)
(***************************************************************************)
\* What was shown and is still to be spoken is exactly what the worker has in
\* hand and in its queue, in the order it was shown: no sentence is lost, spoken
\* twice or overtaken on the way through the merging worker.
SpeechFollowsText ==
  LET rest == SubSeq(shown, handled + hand + 1, Len(shown))
  IN  queue = rest \/ queue = Append(rest, EndMark)

\* The chat_partial frames carry the reply: but for white space, what was shown
\* and what the chunker still holds is what the pipeline has yielded.
TextComplete ==
  (\A s \in Sockets : pc[s] # "filler") =>
    Chunks!Bare(Chunks!Flat(shown)) \o Chunks!Bare(chunker.buf)
      = Chunks!Bare(Chunks!Flat(response))

\* The final text closes a turn: when it is sent, everything shown was spoken or
\* given up, and everything was shown.
FinalIsLast ==
  [][finals' # finals =>
       /\ handled = Len(shown)
       /\ Chunks!Bare(Chunks!Flat(shown)) = Chunks!Bare(Chunks!Flat(response))]_vars

\* As long as a client has the avatar for itself, it never hears a sentence while
\* its avatar is shown doing something else than speaking; workers that outlive
\* an earlier turn included. (The state machine is shared: another client's
\* frames may keep the avatar listening.)
SpeaksInState == ~mute

\* A frame is answered, or its client lost: no turn waits for ever, for the lock,
\* the worker or the queue, whatever fails to be synthesized.
Answered ==
  \A s \in Sockets : pc[s] \notin {"off", "receive"} ~> pc[s] \in {"off", "receive"}

\* Turns are taken one at a time, in the order of the lock, and heard in state.
OneTurnSpeaks == TypeOK /\ SpeaksInState
=============================================================================
