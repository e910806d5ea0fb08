---------------------------- MODULE StreamingTurn ----------------------------
(***************************************************************************)
(* The streaming turn of protocol v2 (app/ws/protocol_v2.py): one          *)
(* coroutine takes the fragments of an answer from the model, sends them,  *)
(* and speaks every sentence as it is complete. The turn's token is        *)
(* cancelled by somebody else whenever the coroutine awaits something; so  *)
(* may the coroutine's task be.                                            *)
(* A fragment ends a sentence, or does not, or is blank. A sentence is the *)
(* range of fragments it is made of, and an audio lasts some of Durations. *)
(***************************************************************************)
EXTENDS Integers, Sequences, FiniteSets

CONSTANTS
  MaxFragments, \* bound on the fragments of the answer
  Durations     \* what _estimate_duration_ms returns

ASSUME StreamAssumption == MaxFragments \in Nat /\ Durations \subseteq Nat

VARIABLES
  awaits,    \* what run awaits
  cancelled, \* the token's flag
  seq,       \* the token's number
  full_text, \* the fragments so far
  start,     \* the first fragment of the buffer
  offset,    \* audio_time_offset_ms
  chunk,     \* arguments and locals of _synthesize_and_send
  sent,      \* history: what the client was sent
  unsaid     \* history: the fragments whose sentence was given up

textVars == <<full_text, start>>
streamVars == <<awaits, cancelled, seq, full_text, start, offset, chunk, sent, unsaid>>

Kinds == {"mid", "end", "blank"}
NoChunk == [from |-> 0, to |-> 0, seq |-> 0, last |-> FALSE, dur |-> 0]
Interrupt == [type |-> "turn_interrupt"]
Ended == {"done", "raised"}

StreamInit ==
  /\ awaits = "next" /\ cancelled = FALSE /\ seq = 0
  /\ full_text = << >> /\ start = 1 /\ offset = 0
  /\ chunk = NoChunk /\ sent = << >> /\ unsaid = {}

\* buffer.strip(): the places of the buffer's fragments that are not blank.
Stripped == {i \in start .. Len(full_text) : full_text[i] # "blank"}

\* _is_sentence_boundary(buffer).
Boundary ==
  \E i \in Stripped : full_text[i] = "end" /\ \A j \in Stripped : j <= i

Sent(event) == sent' = Append(sent, event)

-----------------------------------------------------------------------------
(* run: the loop over the fragments.                                        *)

Fragment ==
  /\ awaits = "next" /\ ~ cancelled /\ Len(full_text) < MaxFragments
  /\ \E k \in Kinds : full_text' = Append(full_text, k)
  /\ seq' = seq + 1
  /\ awaits' = "partial"
  /\ UNCHANGED <<cancelled, start, offset, chunk, sent, unsaid>>

Interrupted ==
  /\ awaits = "next" /\ cancelled /\ Len(full_text) < MaxFragments
  /\ Sent(Interrupt)
  /\ awaits' = "done"
  /\ UNCHANGED <<cancelled, seq, textVars, offset, chunk, unsaid>>

\* What follows a sentence, or the flush of the remainder.
Resume == awaits' = IF chunk.last THEN "done" ELSE "next"

\* _synthesize_and_send up to the executor: nothing is synthesized for a turn
\* that is cancelled, and the sentence is lost to speech.
Say(number, last) ==
  IF cancelled
  THEN /\ unsaid' = unsaid \cup (start .. Len(full_text))
       /\ awaits' = IF last THEN "done" ELSE "next"
       /\ UNCHANGED chunk
  ELSE /\ chunk' = [from |-> start, to |-> Len(full_text), seq |-> number,
                    last |-> last, dur |-> 0]
       /\ awaits' = "synth"
       /\ UNCHANGED unsaid

Partial == [type |-> "chat_partial", seq |-> seq, of |-> Len(full_text)]

\* Mutant: the token is asked about in the loop alone.
SendPartialSpeaks ==
  /\ awaits = "partial"
  /\ Sent(Partial)
  /\ IF Boundary
     THEN /\ chunk' = [from |-> start, to |-> Len(full_text), seq |-> seq,
                       last |-> FALSE, dur |-> 0]
          /\ awaits' = "synth"
          /\ start' = Len(full_text) + 1
     ELSE awaits' = "next" /\ UNCHANGED <<start, chunk>>
  /\ UNCHANGED <<cancelled, seq, full_text, offset, unsaid>>

\* Mutant: a blank fragment empties the buffer.
SendPartialForgets ==
  /\ awaits = "partial"
  /\ Sent(Partial)
  /\ IF Boundary
     THEN Say(seq, FALSE) /\ start' = Len(full_text) + 1
     ELSE /\ start' = IF full_text[Len(full_text)] = "blank" THEN Len(full_text) + 1 ELSE start
          /\ awaits' = "next" /\ UNCHANGED <<chunk, unsaid>>
  /\ UNCHANGED <<cancelled, seq, full_text, offset>>

SendPartial ==
  /\ awaits = "partial"
  /\ Sent(Partial)
  /\ IF Boundary
     THEN Say(seq, FALSE) /\ start' = Len(full_text) + 1
     ELSE awaits' = "next" /\ UNCHANGED <<start, chunk, unsaid>>
  /\ UNCHANGED <<cancelled, seq, full_text, offset>>

\* The fragments end; the remainder is flushed, under a number of its own.
StreamEnds ==
  /\ awaits = "next"
  /\ IF Stripped # {} /\ ~ cancelled
     THEN seq' = seq + 1 /\ Say(seq + 1, TRUE)
     ELSE awaits' = "done" /\ UNCHANGED <<seq, chunk, unsaid>>
  /\ start' = Len(full_text) + 1
  /\ UNCHANGED <<cancelled, full_text, offset, sent>>

-----------------------------------------------------------------------------
(* _synthesize_and_send, from the executor on. The token is not asked again. *)

Synthesized ==
  /\ awaits = "synth"
  /\ \E d \in Durations : chunk' = [chunk EXCEPT !.dur = d]
  /\ awaits' = "audio"
  /\ UNCHANGED <<cancelled, seq, textVars, offset, sent, unsaid>>

SynthesisFails ==
  /\ awaits = "synth"
  /\ unsaid' = unsaid \cup (chunk.from .. chunk.to)
  /\ chunk' = NoChunk
  /\ Resume
  /\ UNCHANGED <<cancelled, seq, textVars, offset, sent>>

SendAudio ==
  /\ awaits = "audio"
  /\ Sent([type |-> "audio_chunk", seq |-> chunk.seq, is_last |-> chunk.last,
           from |-> chunk.from, to |-> chunk.to, dur |-> chunk.dur])
  /\ awaits' = "viseme"
  /\ UNCHANGED <<cancelled, seq, textVars, offset, chunk, unsaid>>

\* Mutant: the next sentence starts where this one is long.
SendVisemeRestarts ==
  /\ awaits = "viseme"
  /\ Sent([type |-> "viseme_chunk", seq |-> chunk.seq, time_offset_ms |-> offset])
  /\ offset' = chunk.dur
  /\ chunk' = NoChunk
  /\ Resume
  /\ UNCHANGED <<cancelled, seq, textVars, unsaid>>

SendViseme ==
  /\ awaits = "viseme"
  /\ Sent([type |-> "viseme_chunk", seq |-> chunk.seq, time_offset_ms |-> offset])
  /\ offset' = offset + chunk.dur
  /\ chunk' = NoChunk
  /\ Resume
  /\ UNCHANGED <<cancelled, seq, textVars, unsaid>>

-----------------------------------------------------------------------------

\* External: TurnToken.cancel, while the coroutine awaits.
Cancel ==
  /\ awaits \notin Ended /\ ~ cancelled
  /\ cancelled' = TRUE
  /\ UNCHANGED <<awaits, seq, textVars, offset, chunk, sent, unsaid>>

\* The task is cancelled at an await, and the client is told.
TaskCancelled ==
  /\ awaits \notin Ended
  /\ Sent(Interrupt)
  /\ awaits' = "raised"
  /\ UNCHANGED <<cancelled, seq, textVars, offset, chunk, unsaid>>

\* A send raises: the client has left.
ClientLeft ==
  /\ awaits \in {"partial", "audio", "viseme"}
  /\ awaits' = "raised"
  /\ UNCHANGED <<cancelled, seq, textVars, offset, chunk, sent, unsaid>>

StreamNext ==
  \/ Fragment \/ Interrupted \/ SendPartial \/ StreamEnds
  \/ Synthesized \/ SynthesisFails \/ SendAudio \/ SendViseme
  \/ Cancel \/ TaskCancelled \/ ClientLeft

StreamSpec == StreamInit /\ [][StreamNext]_streamVars

-----------------------------------------------------------------------------
(* Properties. *)

Events(type) == {i \in 1 .. Len(sent) : sent[i].type = type}

StreamTypes ==
  /\ awaits \in {"next", "partial", "synth", "audio", "viseme"} \cup Ended
  /\ seq \in 0 .. MaxFragments + 1
  /\ full_text \in Seq(Kinds) /\ Len(full_text) <= MaxFragments
  /\ start \in 1 .. Len(full_text) + 1
  /\ awaits # "raised" => (chunk # NoChunk) = (awaits \in {"synth", "audio", "viseme"})
  /\ chunk.from <= chunk.to /\ (chunk # NoChunk => chunk.to < start)
  /\ unsaid \subseteq 1 .. Len(full_text)

\* The numbers let a client order and pair what it gets (make_chat_partial,
\* make_viseme_chunk): fragments are numbered without gaps, an audio has the
\* number of the fragment that completed its sentence, or the number after the
\* last one, and its visemes follow under the same number.
NumbersPair ==
  /\ \A i \in Events("chat_partial") :
       sent[i].seq = Cardinality({j \in Events("chat_partial") : j <= i})
  /\ \A i \in Events("audio_chunk") :
       sent[i].seq = sent[i].to + IF sent[i].is_last THEN 1 ELSE 0
  /\ \A i \in Events("viseme_chunk") :
       i - 1 \in Events("audio_chunk") /\ sent[i - 1].seq = sent[i].seq

\* The fragments that were spoken.
Spoken == UNION {sent[i].from .. sent[i].to : i \in Events("audio_chunk")}

\* The audio speaks the text in order and once: a sentence is spoken after its
\* fragments were sent, and what is behind the buffer was spoken, or blank, or
\* its synthesis failed or was given up with the turn.
SpeechCoversText ==
  /\ \A i, j \in Events("audio_chunk") : i < j => sent[i].to < sent[j].from
  /\ Spoken \subseteq 1 .. Cardinality(Events("chat_partial"))
  /\ awaits = "next" \/ (awaits = "done" /\ ~ cancelled) =>
       \A i \in 1 .. start - 1 : i \in Spoken \cup unsaid \/ full_text[i] = "blank"

\* How long the audio among the first i events plays.
Played[i \in 0 .. Len(sent)] ==
  IF i = 0 THEN 0
  ELSE Played[i - 1] + IF sent[i].type = "audio_chunk" THEN sent[i].dur ELSE 0

\* The visemes of a sentence start where the audio before it ends, whichever
\* sentences failed ("absolute playback offset from turn start").
OffsetsAddUp ==
  \A i \in Events("viseme_chunk") : sent[i].time_offset_ms = Played[i - 2]

\* No synthesis starts for a turn that is cancelled; the one under way is the
\* only audio that may still come.
NothingStartsAfterCancel == [][cancelled /\ awaits # "synth" => awaits' # "synth"]_streamVars

\* Fragments, audio and visemes belong together, by their numbers and in time.
ChunksPair == StreamTypes /\ NumbersPair /\ OffsetsAddUp
=============================================================================
