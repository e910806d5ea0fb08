--------------------------- MODULE SentenceChunker ---------------------------
(***************************************************************************)
(* SentenceChunker (app/llm/streaming.py): cuts a growing text into the    *)
(* pieces that are shown and spoken. A text is a sequence of characters,   *)
(* of which only the class matters: "c" a letter, " " white space, "," a   *)
(* pause, ";" a mark that ends clauses and sentences, "." one that ends    *)
(* sentences only.                                                         *)
(***************************************************************************)
EXTENDS Integers, Sequences, SequencesExt, FiniteSetsExt

CONSTANTS
  FirstLimit, \* _first_soft_limit_chars
  SoftLimit   \* _soft_limit_chars

SentenceEnd == {";", "."}
FirstChunkClause == {",", ";"}

EmptyChunker == [buf |-> <<>>, emitted |-> FALSE]

\* The text without its white space.
Bare(text) ==
  LET bare[i \in 0 .. Len(text)] ==
        IF i = 0 THEN <<>>
        ELSE IF text[i] = " " THEN bare[i - 1] ELSE Append(bare[i - 1], text[i])
  IN  bare[Len(text)]

\* The characters of a sequence of texts.
Flat(texts) == FlattenSeq(texts)

\* str.strip and str.lstrip
Inked(text) == {i \in 1..Len(text) : text[i] # " "}
Strip(text) == IF Inked(text) = {} THEN <<>>
               ELSE SubSeq(text, Min(Inked(text)), Max(Inked(text)))
LStrip(text) == IF Inked(text) = {} THEN <<>>
                ELSE SubSeq(text, Min(Inked(text)), Len(text))

\* Where the maximal runs of marks of a class end.
Ends(text, class) ==
  {i \in 1..Len(text) : text[i] \in class /\ (i = Len(text) \/ text[i + 1] \notin class)}

\* A push at work: the pieces cut so far, the text left, and first_chunk_emitted.
\* The steps of a push are functions from one such record to the next.
Cutting == [out : Seq(Seq(STRING)), buf : Seq(STRING), emitted : BOOLEAN]

\* The k-th of a set of places is the one with k - 1 places before it.
Before(places, p) == {q \in places : q < p}
Nth(places, k) == CHOOSE p \in places : Cardinality(Before(places, p)) = k - 1

\* Pieces of the text end at the given places.
Cut(c, ends) ==
  LET from(k) == IF k = 1 THEN 1 ELSE Nth(ends, k - 1) + 1
  IN  [out |-> c.out \o [k \in 1..Cardinality(ends) |->
                           Strip(SubSeq(c.buf, from(k), Nth(ends, k)))],
       buf |-> SubSeq(c.buf, Max(ends) + 1, Len(c.buf)),
       emitted |-> TRUE]

\* The first piece ends with the first clause.
FirstClause ==
  [c \in Cutting |->
     IF c.emitted \/ Ends(c.buf, FirstChunkClause) = {} THEN c
     ELSE Cut(c, {Min(Ends(c.buf, FirstChunkClause))})]

\* Once there was a first piece, every sentence is one.
Sentences ==
  [c \in Cutting |->
     IF ~c.emitted \/ Ends(c.buf, SentenceEnd) = {} THEN c
     ELSE Cut(c, Ends(c.buf, SentenceEnd))]

\* Where a text that has grown to its limit is cut: after the last pause, before
\* the last white space, or at the limit.
SoftCut(text, limit, pauses) ==
  LET found(class) == {i \in 1..limit : text[i] \in class}
  IN  IF found(pauses) # {} THEN Max(found(pauses))
      ELSE IF found({" "}) # {} THEN Max(found({" "})) - 1
      ELSE limit

Limit(emitted) == IF emitted THEN SoftLimit ELSE FirstLimit

\* Mutant: the character at the cut is dropped.
SoftenDrops ==
  [c \in Cutting |->
     LET at == SoftCut(c.buf, Limit(c.emitted), IF c.emitted THEN {","} ELSE FirstChunkClause)
         piece == Strip(SubSeq(c.buf, 1, at))
     IN  IF Len(c.buf) < Limit(c.emitted) THEN c
         ELSE [out |-> IF piece = <<>> THEN c.out ELSE Append(c.out, piece),
               buf |-> LStrip(SubSeq(c.buf, at + 2, Len(c.buf))),
               emitted |-> c.emitted \/ piece # <<>>]]

Soften ==
  [c \in Cutting |->
     LET at == SoftCut(c.buf, Limit(c.emitted), IF c.emitted THEN {","} ELSE FirstChunkClause)
         piece == Strip(SubSeq(c.buf, 1, at))
     IN  IF Len(c.buf) < Limit(c.emitted) THEN c
         ELSE [out |-> IF piece = <<>> THEN c.out ELSE Append(c.out, piece),
               buf |-> LStrip(SubSeq(c.buf, at + 1, Len(c.buf))),
               emitted |-> c.emitted \/ piece # <<>>]]

\* push: the pieces a delta completes, and the chunker after it.
Push(chunker, delta) ==
  LET done == Soften[Sentences[FirstClause[
                [out |-> <<>>, buf |-> chunker.buf \o delta, emitted |-> chunker.emitted]]]]
  IN  IF delta = <<>> THEN [out |-> <<>>, chunker |-> chunker]
      ELSE [out |-> done.out, chunker |-> [buf |-> done.buf, emitted |-> done.emitted]]

\* flush
Flushed(chunker) == Strip(chunker.buf)
=============================================================================
