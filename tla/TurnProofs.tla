----------------------------- MODULE TurnProofs -----------------------------
(***************************************************************************)
(* Proofs about the two handlers of a turn. TurnHandler: the chunker loses *)
(* no character but white space; the turn lock is a queue without          *)
(* repetitions; what is shown is what was yielded, and what of it is not   *)
(* yet spoken is in the worker's hand and in its queue, the end mark       *)
(* behind it; a client alone with the avatar hears it in state; and the    *)
(* final text closes the turn. StreamingTurn: what is sent of a turn, in   *)
(* which order.                                                            *)
(***************************************************************************)
EXTENDS TurnHandler, StreamingTurn, FiniteSetTheorems, SequenceTheorems, NaturalsInduction,
        WellFoundedInduction, TLAPS


-----------------------------------------------------------------------------
(***************************************************************************)
(* Numbers.                                                                *)
(***************************************************************************)
\* A set of numbers has a least one,
LEMMA Least ==
  ASSUME NEW T \in SUBSET Nat, T # {}
  PROVE  \E m \in T : \A n \in T : m <= n
<1>1. PICK m \in T : \A k \in T : <<k, m>> \notin OpToRel(<, Nat)
  BY WFMin, NatLessThanWellFounded
<1>2. \A k \in T : ~(k < m)
  BY <1>1, Zenon DEF OpToRel
<1>3. \A k \in T : k \in Nat /\ m \in Nat
  OBVIOUS
<1>4. \A k \in T : m <= k
  BY <1>2, <1>3
<1> QED
  BY <1>4

\* and one that is bounded a greatest one.
LEMMA Greatest ==
  ASSUME NEW n \in Nat, NEW T \in SUBSET (0..n), T # {}
  PROVE  \E m \in T : \A k \in T : m >= k
<1> DEFINE U == {n - k : k \in T}
<1>0. \A k \in T : k \in Nat /\ k <= n
  OBVIOUS
<1>1. U \in SUBSET Nat /\ U # {}
  <2>1. \A k \in T : n - k \in Nat
    BY <1>0
  <2>2. PICK k \in T : TRUE
    OBVIOUS
  <2> QED
    BY <2>1, <2>2
<1>2. PICK u \in U : \A k \in U : u <= k
  BY <1>1, Least
<1>3. PICK m \in T : u = n - m
  OBVIOUS
<1>4. \A k \in T : n - m <= n - k
  BY <1>2, <1>3
<1>5. \A k \in T : m >= k
  BY <1>0, <1>4
<1> QED
  BY <1>5

\* So Min and Max are what they say.
LEMMA MinIs ==
  ASSUME NEW T \in SUBSET Nat, T # {}
  PROVE  Chunks!Min(T) \in T /\ \A k \in T : Chunks!Min(T) <= k
BY Least DEF Chunks!Min

LEMMA MaxIs ==
  ASSUME NEW n \in Nat, NEW T \in SUBSET (0..n), T # {}
  PROVE  Chunks!Max(T) \in T /\ \A k \in T : Chunks!Max(T) >= k
BY Greatest DEF Chunks!Max

\* The places of a text are finitely many.
LEMMA PlacesFinite ==
  ASSUME NEW n \in Nat, NEW T \in SUBSET (1..n)
  PROVE  IsFiniteSet(T) /\ Cardinality(T) \in Nat
<1>1. IsFiniteSet(1..n) /\ T \subseteq 1..n
  BY FS_Interval
<1>2. IsFiniteSet(T)
  BY <1>1, FS_Subset
<1> QED
  BY <1>2, FS_CardinalityType

\* Every place of a bounded set is the k-th for one k, and each k has one.
LEMMA NthIs ==
  ASSUME NEW n \in Nat, NEW T \in SUBSET (1..n), NEW k \in 1..Cardinality(T)
  PROVE  /\ Chunks!Nth(T, k) \in T
         /\ Cardinality(Chunks!Before(T, Chunks!Nth(T, k))) = k - 1
<1>0. \A q \in T : q \in Nat
  OBVIOUS
<1>1. IsFiniteSet(T) /\ Cardinality(T) \in Nat
  BY PlacesFinite
<1>2. \A p \in Nat : IsFiniteSet(Chunks!Before(T, p)) /\ Cardinality(Chunks!Before(T, p)) \in Nat
  BY <1>1, FS_Subset, FS_CardinalityType DEF Chunks!Before
<1> DEFINE Bad == {j \in 1..Cardinality(T) : ~ \E p \in T : Cardinality(Chunks!Before(T, p)) = j - 1}
<1>3. Bad = {}
  <2> SUFFICES ASSUME Bad # {} PROVE FALSE
    OBVIOUS
  <2>1. PICK j \in Bad : \A i \in Bad : j <= i
    <3>1. Bad \in SUBSET Nat
      BY <1>1
    <3> QED
      BY <3>1, Least
  <2>2. j \in 1..Cardinality(T) /\ ~ \E p \in T : Cardinality(Chunks!Before(T, p)) = j - 1
    OBVIOUS
  <2>3. CASE j = 1
    <3>1. T # {}
      BY <1>1, <2>2, FS_EmptySet
    <3>2. PICK p \in T : \A q \in T : p <= q
      BY <3>1, Least
    <3>3. Chunks!Before(T, p) = {}
      <4>1. \A q \in T : ~(q < p)
        BY <1>0, <3>2
      <4> QED
        BY <4>1 DEF Chunks!Before
    <3> QED
      BY <2>2, <2>3, <3>3, FS_EmptySet
  <2>4. CASE j # 1
    <3>1. j - 1 \in 1..Cardinality(T) /\ j - 1 \notin Bad
      BY <1>1, <2>1, <2>2, <2>4
    <3>2. PICK p \in T : Cardinality(Chunks!Before(T, p)) = j - 1 - 1
      BY <3>1
    <3> DEFINE Later == {q \in T : q > p}
    <3>3. /\ IsFiniteSet(Chunks!Before(T, p) \cup {p})
          /\ Cardinality(Chunks!Before(T, p) \cup {p}) = j - 1
      <4>1. p \notin Chunks!Before(T, p) /\ p \in Nat
        BY DEF Chunks!Before
      <4> QED
        BY <1>1, <1>2, <2>2, <3>2, <4>1, FS_AddElement
    <3>4. Later # {}
      <4> SUFFICES ASSUME Later = {} PROVE FALSE
        OBVIOUS
      <4>0. \A q \in T : q < p \/ q = p
        BY <1>0
      <4>1. T = Chunks!Before(T, p) \cup {p}
        BY <4>0 DEF Chunks!Before
      <4>2. Cardinality(T) = j - 1
        BY <3>3, <4>1
      <4> QED
        BY <2>2, <4>2
    <3>5. PICK m \in Later : \A q \in Later : m <= q
      <4>1. Later \in SUBSET Nat
        BY <1>0
      <4> HIDE DEF Later
      <4> QED
        BY <3>4, <4>1, Least
    <3>6. Chunks!Before(T, m) = Chunks!Before(T, p) \cup {p}
      <4>1. \A q \in T : q < m <=> q < p \/ q = p
        BY <1>0, <3>5
      <4> QED
        BY <4>1 DEF Chunks!Before
    <3> QED
      BY <2>2, <3>3, <3>5, <3>6
  <2> QED
    BY <2>3, <2>4
<1>4. \E p \in T : Cardinality(Chunks!Before(T, p)) = k - 1
  BY <1>3
<1> QED
  <2> DEFINE One(p) == Cardinality(Chunks!Before(T, p)) = k - 1
  <2>1. \E p \in T : One(p)
    BY <1>4
  <2>2. Chunks!Nth(T, k) = CHOOSE p \in T : One(p)
    BY DEF Chunks!Nth, Chunks!Cardinality, Cardinality
  <2> HIDE DEF One
  <2>3. Chunks!Nth(T, k) \in T /\ One(Chunks!Nth(T, k))
    BY <2>1, <2>2, Zenon
  <2> QED
    BY <2>3 DEF One

\* The places are in order.
LEMMA NthGrows ==
  ASSUME NEW n \in Nat, NEW T \in SUBSET (1..n), NEW k \in 2..Cardinality(T)
  PROVE  Chunks!Nth(T, k - 1) < Chunks!Nth(T, k)
<1> DEFINE p == Chunks!Nth(T, k - 1)
           q == Chunks!Nth(T, k)
<1>0. \A e \in T : e \in Nat
  OBVIOUS
<1>1. IsFiniteSet(T) /\ Cardinality(T) \in Nat
  BY PlacesFinite
<1>2. k \in 1..Cardinality(T) /\ k - 1 \in 1..Cardinality(T)
  BY <1>1
<1>3. /\ p \in T /\ Cardinality(Chunks!Before(T, p)) = k - 1 - 1
      /\ q \in T /\ Cardinality(Chunks!Before(T, q)) = k - 1
  BY <1>2, NthIs
<1> HIDE DEF p, q
<1>4. ASSUME q <= p PROVE FALSE
  <2>1. Chunks!Before(T, q) \subseteq Chunks!Before(T, p) /\ IsFiniteSet(Chunks!Before(T, p))
    <3>1. Chunks!Before(T, q) \subseteq Chunks!Before(T, p)
      <4>1. \A r \in T : r < q => r < p
        BY <1>0, <1>3, <1>4
      <4> QED
        BY <4>1 DEF Chunks!Before
    <3> QED
      BY <1>1, <3>1, FS_Subset DEF Chunks!Before
  <2>2. Cardinality(Chunks!Before(T, q)) <= Cardinality(Chunks!Before(T, p))
    BY <2>1, FS_Subset
  <2> QED
    BY <1>1, <1>2, <1>3, <2>2
<1>5. p \in Nat /\ q \in Nat
  BY <1>3
<1> QED
  BY <1>4, <1>5 DEF p, q

-----------------------------------------------------------------------------
(***************************************************************************)
(* The sentence chunker: what it cuts are texts, and none is empty.        *)
(***************************************************************************)
Texts == Seq(STRING)
Pieces == Texts \ {<<>>}

\* A push at work whose pieces are not empty.
Whole == [out : Seq(Pieces), buf : Texts, emitted : BOOLEAN]

\* Small facts, for the steps that cannot work out sizes and sequences at once.
LEMMA SameCount == \A S : Chunks!Cardinality(S) = Cardinality(S)
BY DEF Chunks!Cardinality, Cardinality

LEMMA TextLen == \A t \in Texts : Len(t) \in Nat
BY DEF Texts

LEMMA NotEmpty == \A t : Len(t) # 0 => t # <<>>
OBVIOUS

LEMMA NotLess == \A n \in Nat : n <= n
OBVIOUS

LEMMA Places == \A n \in Nat : \A e \in 1..n :
  e \in Nat /\ e <= n /\ e \in 0..n /\ e + 1 \in Nat \ {0}
OBVIOUS

LEMMA PlacesAre ==
  ASSUME NEW n \in Nat, NEW T \in SUBSET (1..n)
  PROVE  /\ T \in SUBSET Nat /\ T \in SUBSET (0..n)
         /\ \A e \in T : e \in Nat \ {0} /\ e <= n /\ e \in 0..n /\ e + 1 \in Nat \ {0}
OBVIOUS

\* A part of a text is a text.
LEMMA PartOf ==
  ASSUME NEW t \in Texts, NEW a \in Nat \ {0}, NEW b \in Nat, b <= Len(t)
  PROVE  /\ SubSeq(t, a, b) \in Texts
         /\ Len(SubSeq(t, a, b)) = IF a <= b THEN b - a + 1 ELSE 0
         /\ \A i \in 1..(b - a + 1) : SubSeq(t, a, b)[i] = t[a + i - 1]
<1>1. a \in Int /\ b \in Int /\ Len(t) \in Nat
  BY DEF Texts
<1>2. \A i \in a..b : t[i] \in STRING
  BY <1>1 DEF Texts
<1> QED
  BY <1>1, <1>2, SubSeqProperties DEF Texts

\* Stripping a text leaves one, and something of it where there is ink.
LEMMA StripIs ==
  ASSUME NEW t \in Texts
  PROVE  /\ Chunks!Strip(t) \in Texts /\ Chunks!LStrip(t) \in Texts
         /\ (\E i \in 1..Len(t) : t[i] # " ") => Chunks!Strip(t) # <<>>
<1> DEFINE I == Chunks!Inked(t)
<1>0. PICK n \in Nat : n = Len(t)
  BY TextLen
<1>1. I = {i \in 1..Len(t) : t[i] # " "}
  BY DEF Chunks!Inked
<1>2. CASE I = {}
  <2>1. Chunks!Strip(t) = <<>> /\ Chunks!LStrip(t) = <<>>
    BY <1>2 DEF Chunks!Strip, Chunks!LStrip
  <2>2. <<>> \in Texts
    BY DEF Texts
  <2>3. ~ \E i \in 1..Len(t) : t[i] # " "
    BY <1>1, <1>2
  <2> QED
    BY <2>1, <2>2, <2>3
<1>3. CASE I # {}
  <2> DEFINE a == Chunks!Min(I)
             b == Chunks!Max(I)
  <2>0. I \in SUBSET (1..n)
    BY <1>0, <1>1
  <2>1. Chunks!Strip(t) = SubSeq(t, a, b) /\ Chunks!LStrip(t) = SubSeq(t, a, Len(t))
    BY <1>3 DEF Chunks!Strip, Chunks!LStrip
  <2> HIDE DEF I
  <2>2. a \in I /\ b \in I /\ a <= b
    <3>1. I \in SUBSET Nat /\ I \in SUBSET (0..n)
      BY <2>0, PlacesAre
    <3>2. a \in I /\ \A k \in I : a <= k
      BY <1>3, <3>1, MinIs
    <3>3. b \in I
      BY <1>3, <3>1, MaxIs
    <3> QED
      BY <3>2, <3>3
  <2> HIDE DEF a, b
  <2>3. a \in Nat \ {0} /\ b \in Nat /\ b <= n
    BY <2>0, <2>2, PlacesAre
  <2>4. /\ SubSeq(t, a, b) \in Texts /\ Len(SubSeq(t, a, b)) = b - a + 1
        /\ SubSeq(t, a, Len(t)) \in Texts
    <3>1. SubSeq(t, a, b) \in Texts /\ Len(SubSeq(t, a, b)) = b - a + 1
      BY <1>0, <2>2, <2>3, PartOf
    <3>2. n <= n
      OBVIOUS
    <3> QED
      BY <1>0, <2>3, <3>1, <3>2, PartOf
  <2>5. b - a + 1 # 0
    BY <2>2, <2>3
  <2> QED
    BY <2>1, <2>4, <2>5, NotEmpty
<1> QED
  BY <1>2, <1>3

\* Where the k-th piece starts.
From(T, k) == IF k = 1 THEN 1 ELSE Chunks!Nth(T, k - 1) + 1

\* A piece starts before it ends.
LEMMA FromIs ==
  ASSUME NEW n \in Nat, NEW T \in SUBSET (1..n), NEW m \in Nat, m = Cardinality(T),
         NEW k \in 1..m
  PROVE  From(T, k) \in Nat \ {0} /\ From(T, k) <= Chunks!Nth(T, k) /\ Chunks!Nth(T, k) \in T
<1>0. \A e \in T : e \in Nat \ {0}
  OBVIOUS
<1>1. Chunks!Nth(T, k) \in T
  BY NthIs
<1>2. Chunks!Nth(T, k) \in Nat \ {0}
  BY <1>0, <1>1
<1>3. CASE k = 1
  BY <1>1, <1>2, <1>3 DEF From
<1>4. CASE k # 1
  <2>1. k \in 2..m /\ k - 1 \in 1..m
    BY <1>4
  <2>2. Chunks!Nth(T, k - 1) \in T /\ Chunks!Nth(T, k - 1) < Chunks!Nth(T, k)
    BY <2>1, NthIs, NthGrows
  <2>3. Chunks!Nth(T, k - 1) \in Nat
    BY <1>0, <2>2
  <2> QED
    BY <1>1, <1>2, <1>4, <2>2, <2>3 DEF From
<1> QED
  BY <1>3, <1>4

\* Sizes of parts.
LEMMA Span ==
  ASSUME NEW a \in Nat \ {0}, NEW b \in Nat, a <= b
  PROVE  /\ b - a + 1 \in Nat \ {0} /\ a + (b - a + 1) - 1 = b
         /\ b - a + 1 \in 1..(b - a + 1)
OBVIOUS

\* Every piece that ends with ink is one.
LEMMA PieceIs ==
  ASSUME NEW t \in Texts, NEW a \in Nat \ {0}, NEW b \in Nat, a <= b, b <= Len(t),
         t[b] # " "
  PROVE  Chunks!Strip(SubSeq(t, a, b)) \in Pieces
<1> DEFINE s == SubSeq(t, a, b)
           j == b - a + 1
<1>1. j \in Nat \ {0} /\ a + j - 1 = b /\ j \in 1..j
  BY Span
<1>2. s \in Texts /\ Len(s) = j /\ \A i \in 1..j : s[i] = t[a + i - 1]
  BY PartOf
<1> HIDE DEF s, j
<1>3. s[j] # " "
  BY <1>1, <1>2
<1>4. Chunks!Strip(s) \in Texts /\ Chunks!Strip(s) # <<>>
  BY <1>1, <1>2, <1>3, StripIs
<1> QED
  BY <1>4 DEF s, Pieces

\* A text that is cut after places with ink gives pieces.
LEMMA CutWhole ==
  ASSUME NEW c \in Whole, NEW n \in Nat, n = Len(c.buf), NEW T \in SUBSET (1..n), T # {},
         \A e \in T : c.buf[e] # " "
  PROVE  Chunks!Cut(c, T) \in Whole
<1> DEFINE piece(k) == Chunks!Strip(SubSeq(c.buf, From(T, k), Chunks!Nth(T, k)))
           pieces == [k \in 1..Cardinality(T) |-> piece(k)]
           rest == SubSeq(c.buf, Chunks!Max(T) + 1, Len(c.buf))
<1>1. c.buf \in Texts /\ c.out \in Seq(Pieces)
  BY DEF Whole
<1>p. \A e \in T : e \in Nat /\ e <= n /\ e \in 0..n /\ e + 1 \in Nat \ {0}
  BY Places
<1>2. PICK m \in Nat : m = Cardinality(T)
  BY PlacesFinite
<1>3. ASSUME NEW k \in 1..m PROVE piece(k) \in Pieces
  <2>1. /\ From(T, k) \in Nat \ {0} /\ From(T, k) <= Chunks!Nth(T, k)
        /\ Chunks!Nth(T, k) \in T
    BY <1>2, FromIs
  <2>2. Chunks!Nth(T, k) \in Nat /\ Chunks!Nth(T, k) <= Len(c.buf) /\ c.buf[Chunks!Nth(T, k)] # " "
    BY <1>p, <2>1
  <2> QED
    BY <1>1, <2>1, <2>2, PieceIs
<1>4. c.out \o pieces \in Seq(Pieces)
  <2>1. pieces = [k \in 1..m |-> piece(k)]
    BY <1>2
  <2> HIDE DEF piece
  <2>2. pieces \in [1..m -> Pieces]
    BY <1>3, <2>1
  <2> HIDE DEF pieces
  <2>3. pieces \in Seq(Pieces)
    BY <2>2, SeqDef
  <2> QED
    BY <1>1, <2>3, ConcatProperties
<1>5. rest \in Texts
  <2>1. Chunks!Max(T) \in T
    <3>1. T \in SUBSET (0..n)
      BY <1>p
    <3> QED
      BY <3>1, MaxIs
  <2>2. Chunks!Max(T) + 1 \in Nat \ {0}
    BY <1>p, <2>1
  <2>3. Len(c.buf) \in Nat /\ Len(c.buf) <= Len(c.buf)
    BY NotLess
  <2> QED
    BY <1>1, <2>2, <2>3, PartOf
<1>6. Chunks!Cut(c, T) = [out |-> c.out \o pieces, buf |-> rest, emitted |-> TRUE]
  BY SameCount DEF Chunks!Cut, From
<1> DEFINE o == c.out \o pieces
<1> HIDE DEF o, pieces, rest
<1>7. [out |-> o, buf |-> rest, emitted |-> TRUE] \in Whole
  <2>1. o \in Seq(Pieces) /\ TRUE \in BOOLEAN
    BY <1>4 DEF o
  <2> QED
    BY <1>5, <2>1 DEF Whole
<1> QED
  BY <1>6, <1>7 DEF o

\* A push works on what it can work on.
LEMMA WholeIsCutting == Whole \subseteq Chunks!Cutting
<1>1. Seq(Pieces) \subseteq Seq(Texts)
  <2>1. \A s \in Seq(Pieces) : s \in Seq(Texts)
    BY SeqMonotonic DEF Pieces
  <2> QED
    BY <2>1
<1> QED
  BY <1>1 DEF Whole, Texts, Chunks!Cutting

\* The ends of clauses and sentences are places with ink.
LEMMA EndsHaveInk ==
  ASSUME NEW t \in Texts, NEW n \in Nat, n = Len(t), NEW class, " " \notin class
  PROVE  /\ Chunks!Ends(t, class) \in SUBSET (1..n)
         /\ \A e \in Chunks!Ends(t, class) : t[e] # " "
BY DEF Chunks!Ends

\* What is left to cut is a text.
LEMMA BufLen == \A c \in Whole : c.buf \in Texts /\ Len(c.buf) \in Nat
BY TextLen DEF Whole

\* The cut at the first clause.
LEMMA FirstClauseWhole ==
  ASSUME NEW c \in Whole
  PROVE  Chunks!FirstClause[c] \in Whole
<1> DEFINE T == Chunks!Ends(c.buf, Chunks!FirstChunkClause)
<1>1. PICK n \in Nat : n = Len(c.buf)
  BY BufLen
<1>2. T \in SUBSET (1..n) /\ \A e \in T : c.buf[e] # " "
  BY <1>1, BufLen, EndsHaveInk DEF Chunks!FirstChunkClause
<1>3. Chunks!FirstClause[c] = IF c.emitted \/ T = {} THEN c ELSE Chunks!Cut(c, {Chunks!Min(T)})
  BY WholeIsCutting DEF Chunks!FirstClause
<1> HIDE DEF T
<1>4. ASSUME T # {} PROVE Chunks!Cut(c, {Chunks!Min(T)}) \in Whole
  <2>1. Chunks!Min(T) \in T
    <3>1. T \in SUBSET Nat
      BY <1>2, PlacesAre
    <3> QED
      BY <1>4, <3>1, MinIs
  <2>2. /\ {Chunks!Min(T)} \in SUBSET (1..n) /\ {Chunks!Min(T)} # {}
        /\ \A e \in {Chunks!Min(T)} : c.buf[e] # " "
    BY <1>2, <2>1
  <2> QED
    BY <1>1, <2>2, CutWhole
<1> QED
  BY <1>3, <1>4

\* The cuts at the ends of the sentences.
LEMMA SentencesWhole ==
  ASSUME NEW c \in Whole
  PROVE  Chunks!Sentences[c] \in Whole
<1> DEFINE T == Chunks!Ends(c.buf, Chunks!SentenceEnd)
<1>1. PICK n \in Nat : n = Len(c.buf)
  BY BufLen
<1>2. T \in SUBSET (1..n) /\ \A e \in T : c.buf[e] # " "
  BY <1>1, BufLen, EndsHaveInk DEF Chunks!SentenceEnd
<1>3. Chunks!Sentences[c] = IF ~c.emitted \/ T = {} THEN c ELSE Chunks!Cut(c, T)
  BY WholeIsCutting DEF Chunks!Sentences
<1> HIDE DEF T
<1> QED
  BY <1>1, <1>2, <1>3, CutWhole

\* A place to cut a text that has grown to its limit.
LEMMA SoftCutIs ==
  ASSUME NEW t \in Texts, NEW limit \in Nat \ {0}, NEW pauses
  PROVE  Chunks!SoftCut(t, limit, pauses) \in 0..limit
<1> DEFINE found(class) == {i \in 1..limit : t[i] \in class}
<1>1. \A class : found(class) \in SUBSET (0..limit) /\ found(class) \in SUBSET (1..limit)
  BY PlacesAre
<1>2. \A class : found(class) # {} => Chunks!Max(found(class)) \in found(class)
  BY <1>1, MaxIs
<1>3. \A class : found(class) # {} => Chunks!Max(found(class)) \in 1..limit
  BY <1>1, <1>2
<1>4. Chunks!SoftCut(t, limit, pauses) =
        IF found(pauses) # {} THEN Chunks!Max(found(pauses))
        ELSE IF found({" "}) # {} THEN Chunks!Max(found({" "})) - 1 ELSE limit
  BY DEF Chunks!SoftCut
<1> DEFINE p == found(pauses)
           q == found({" "})
<1>5. (p # {} => Chunks!Max(p) \in 1..limit) /\ (q # {} => Chunks!Max(q) \in 1..limit)
  BY <1>3
<1>6. Chunks!SoftCut(t, limit, pauses) =
        IF p # {} THEN Chunks!Max(p) ELSE IF q # {} THEN Chunks!Max(q) - 1 ELSE limit
  BY <1>4
<1> HIDE DEF p, q
<1>7. \A k \in 1..limit : k \in 0..limit /\ k - 1 \in 0..limit
  OBVIOUS
<1>8. limit \in 0..limit
  OBVIOUS
<1> QED
  BY <1>5, <1>6, <1>7, <1>8

\* The cut of a text that has grown too long.
LEMMA SoftenWhole ==
  ASSUME NEW c \in Whole
  PROVE  Chunks!Soften[c] \in Whole
<1> DEFINE limit == Chunks!Limit(c.emitted)
           at == Chunks!SoftCut(c.buf, limit,
                                IF c.emitted THEN {","} ELSE Chunks!FirstChunkClause)
           piece == Chunks!Strip(SubSeq(c.buf, 1, at))
           rest == Chunks!LStrip(SubSeq(c.buf, at + 1, Len(c.buf)))
           out == IF piece = <<>> THEN c.out ELSE Append(c.out, piece)
           cut == [out |-> out, buf |-> rest, emitted |-> c.emitted \/ piece # <<>>]
<1>1. PICK n \in Nat : n = Len(c.buf)
  BY BufLen
<1>2. limit \in Nat \ {0}
  BY TurnAssumption DEF Chunks!Limit
<1>3. Chunks!Soften[c] = IF Len(c.buf) < limit THEN c ELSE cut
  BY WholeIsCutting DEF Chunks!Soften
<1>4. at \in 0..limit
  BY <1>2, BufLen, SoftCutIs
<1> HIDE DEF at, limit
<1>5. ASSUME ~(Len(c.buf) < limit) PROVE cut \in Whole
  <2>1. at \in Nat /\ at <= n /\ at + 1 \in Nat \ {0} /\ 1 \in Nat \ {0} /\ n <= n
    BY <1>1, <1>2, <1>4, <1>5
  <2>2. SubSeq(c.buf, 1, at) \in Texts
    BY <1>1, <2>1, BufLen, PartOf
  <2>3. SubSeq(c.buf, at + 1, Len(c.buf)) \in Texts
    BY <1>1, <2>1, BufLen, PartOf
  <2>4. piece \in Texts
    BY <2>2, StripIs
  <2>5. rest \in Texts
    BY <2>3, StripIs
  <2> HIDE DEF piece, rest
  <2>6. out \in Seq(Pieces)
    <3>1. c.out \in Seq(Pieces)
      BY DEF Whole
    <3>2. CASE piece = <<>>
      BY <3>1, <3>2
    <3>3. CASE piece # <<>>
      <4>1. piece \in Pieces
        BY <2>4, <3>3 DEF Pieces
      <4> QED
        BY <3>1, <3>3, <4>1, AppendProperties
    <3> QED
      BY <3>2, <3>3
  <2>7. (c.emitted \/ piece # <<>>) \in BOOLEAN
    BY DEF Whole
  <2> HIDE DEF out
  <2> QED
    BY <2>5, <2>6, <2>7 DEF Whole
<1> QED
  BY <1>3, <1>5

\* What the chunker keeps.
Keeping == [buf : Texts, emitted : BOOLEAN]

\* A delta is cut into pieces that are not empty.
LEMMA PushIs ==
  ASSUME NEW k \in Keeping, NEW d \in Texts
  PROVE  /\ Chunks!Push(k, d).out \in Seq(Pieces)
         /\ Chunks!Push(k, d).chunker \in Keeping
<1> DEFINE c == [out |-> <<>>, buf |-> k.buf \o d, emitted |-> k.emitted]
           done == Chunks!Soften[Chunks!Sentences[Chunks!FirstClause[c]]]
<1>1. c \in Whole
  <2>1. k.buf \o d \in Texts
    BY ConcatProperties DEF Keeping, Texts
  <2>2. <<>> \in Seq(Pieces) /\ k.emitted \in BOOLEAN
    BY DEF Keeping
  <2> QED
    BY <2>1, <2>2 DEF Whole
<1>2. Chunks!Push(k, d) =
        IF d = <<>> THEN [out |-> <<>>, chunker |-> k]
        ELSE [out |-> done.out, chunker |-> [buf |-> done.buf, emitted |-> done.emitted]]
  BY DEF Chunks!Push
<1> HIDE DEF c
<1>3. done \in Whole
  BY <1>1, FirstClauseWhole, SentencesWhole, SoftenWhole
<1> HIDE DEF done
<1>4. /\ done.out \in Seq(Pieces)
      /\ [buf |-> done.buf, emitted |-> done.emitted] \in Keeping
  BY <1>3 DEF Whole, Keeping
<1> QED
  BY <1>2, <1>4

\* What is left at the end is a piece, or nothing.
LEMMA FlushedIs ==
  ASSUME NEW k \in Keeping
  PROVE  Chunks!Flushed(k) \in Texts
BY StripIs DEF Chunks!Flushed, Keeping

\* Pieces, and deltas, are texts.
LEMMA PiecesAreTexts ==
  ASSUME NEW p \in Seq(Pieces)
  PROVE  p \in Seq(Texts)
BY SeqMonotonic DEF Pieces

\* Induction up to a number: a set that 0 is in, and with each number the next, is all.
LEMMA Upwards ==
  ASSUME NEW n \in Nat, NEW T, 0 \in T, \A i \in 1..n : i - 1 \in T => i \in T
  PROVE  \A i \in 0..n : i \in T
<1> DEFINE Bad == {i \in 0..n : i \notin T}
<1>1. SUFFICES ASSUME Bad # {} PROVE FALSE
  OBVIOUS
<1>2. PICK m \in Bad : \A k \in Bad : m <= k
  <2>1. Bad \in SUBSET Nat
    OBVIOUS
  <2> HIDE DEF Bad
  <2> QED
    BY <1>1, <2>1, Least
<1>3. m \in 0..n /\ m \notin T /\ m # 0
  OBVIOUS
<1>4. m \in 1..n /\ m - 1 \in 0..n /\ ~(m <= m - 1)
  BY <1>3
<1>5. m - 1 \notin Bad
  BY <1>2, <1>4
<1>6. m - 1 \in T
  BY <1>4, <1>5
<1> QED
  BY <1>3, <1>4, <1>6

\* Recursion up to a number: where step[i] takes the value at i - 1 to the value at i,
\* there is a function of these values. (A step is a function, and not an operator, so
\* that the lemma is one of first-order logic.)
LEMMA Recursion ==
  ASSUME NEW A, NEW a \in A, NEW n \in Nat, NEW step \in [1..n -> [A -> A]]
  PROVE  \E g \in [0..n -> A] : g[0] = a /\ \A i \in 1..n : g[i] = step[i][g[i - 1]]
<1> DEFINE Run(m, g) == g[0] = a /\ \A i \in 1..m : g[i] = step[i][g[i - 1]]
           T == {m \in 0..n : \E g \in [0..m -> A] : Run(m, g)}
<1>1. 0 \in T
  <2>1. [i \in 0..0 |-> a] \in [0..0 -> A] /\ Run(0, [i \in 0..0 |-> a])
    OBVIOUS
  <2>2. 0 \in 0..n
    OBVIOUS
  <2> HIDE DEF Run
  <2>3. \E g \in [0..0 -> A] : Run(0, g)
    BY <2>1
  <2> QED
    BY <2>2, <2>3
<1>2. ASSUME NEW m \in 1..n, m - 1 \in T PROVE m \in T
  <2>1. PICK g \in [0..(m - 1) -> A] : Run(m - 1, g)
    BY <1>2
  <2>2. m - 1 \in 0..(m - 1) /\ m \in Nat /\ m # 0
    OBVIOUS
  <2>3. step[m][g[m - 1]] \in A
    BY <2>1, <2>2
  <2> DEFINE h == [i \in 0..m |-> IF i = m THEN step[m][g[m - 1]] ELSE g[i]]
  <2>4. \A i \in 0..m : i = m \/ i \in 0..(m - 1)
    BY <2>2
  <2>5. h \in [0..m -> A]
    BY <2>1, <2>3, <2>4
  <2>6. \A i \in 0..(m - 1) : h[i] = g[i]
    BY <2>2
  <2>7. h[m] = step[m][g[m - 1]]
    BY <2>2
  <2> HIDE DEF h
  <2>8. h[0] = a
    BY <2>1, <2>2, <2>6
  <2>9. ASSUME NEW i \in 1..m PROVE h[i] = step[i][h[i - 1]]
    <3>1. i - 1 \in 0..(m - 1) /\ (i = m \/ i \in 1..(m - 1)) /\ i \in 0..m
      BY <2>2
    <3>2. CASE i = m
      BY <2>6, <2>7, <3>1, <3>2
    <3>3. CASE i \in 1..(m - 1)
      <4>1. i \in 0..(m - 1)
        BY <3>3
      <4> QED
        BY <2>1, <2>6, <3>1, <3>3, <4>1
    <3> QED
      BY <3>1, <3>2, <3>3
  <2>10. Run(m, h)
    BY <2>8, <2>9
  <2>11. m \in 0..n
    OBVIOUS
  <2> HIDE DEF Run
  <2>12. \E k \in [0..m -> A] : Run(m, k)
    BY <2>5, <2>10
  <2> QED
    BY <2>11, <2>12
<1>3. n \in 0..n
  OBVIOUS
<1> HIDE DEF T
<1>4. n \in T
  BY <1>1, <1>2, <1>3, Upwards
<1> QED
  BY <1>4 DEF T

-----------------------------------------------------------------------------
(***************************************************************************)
(* The characters of a text, and of a sequence of texts.                   *)
(***************************************************************************)
\* Recursion among texts.
LEMMA TextRecursion ==
  ASSUME NEW n \in Nat, NEW step \in [1..n -> [Texts -> Texts]]
  PROVE  \E h \in [0..n -> Texts] : h[0] = <<>> /\ \A i \in 1..n : h[i] = step[i][h[i - 1]]
<1> DEFINE A == Texts
           a == <<>>
<1>1. n \in Nat /\ a \in A /\ step \in [1..n -> [A -> A]]
  BY DEF Texts
<1> HIDE DEF A, a
<1>2. \E h \in [0..n -> A] : h[0] = a /\ \A i \in 1..n : h[i] = step[i][h[i - 1]]
  BY <1>1, Recursion
<1> QED
  BY <1>2 DEF A, a

\* What a character adds to the text without white space.
Inks(x, c) == IF c = " " THEN x ELSE Append(x, c)

LEMMA InksIs ==
  ASSUME NEW x \in Texts, NEW c \in STRING
  PROVE  Inks(x, c) \in Texts
BY AppendProperties DEF Inks, Texts

\* g holds, for every i, what the first i characters are without their white space.
Baring(t, g) == g = [i \in 0..Len(t) |-> IF i = 0 THEN <<>>
                                         ELSE IF t[i] = " " THEN g[i - 1] ELSE Append(g[i - 1], t[i])]
Bares(t) == CHOOSE g : Baring(t, g)

LEMMA BaresIs ==
  ASSUME NEW t \in Texts
  PROVE  /\ Bares(t) \in [0..Len(t) -> Texts] /\ Bares(t)[0] = <<>>
         /\ \A i \in 1..Len(t) : Bares(t)[i] = Inks(Bares(t)[i - 1], t[i])
         /\ Chunks!Bare(t) = Bares(t)[Len(t)]
<1>1. PICK n \in Nat : n = Len(t)
  BY TextLen
<1>2. \A i \in 1..n : t[i] \in STRING
  BY <1>1 DEF Texts
<1> DEFINE step == [i \in 1..n |-> [x \in Texts |-> Inks(x, t[i])]]
<1>3. step \in [1..n -> [Texts -> Texts]]
  <2>1. ASSUME NEW i \in 1..n, NEW x \in Texts PROVE Inks(x, t[i]) \in Texts
    BY <1>2, InksIs
  <2> QED
    BY <2>1
<1>4. PICK g \in [0..n -> Texts] : g[0] = <<>> /\ \A i \in 1..n : g[i] = step[i][g[i - 1]]
  <2> HIDE DEF step
  <2> QED
    BY <1>3, TextRecursion, Zenon
<1>5. \A i \in 1..n : g[i - 1] \in Texts /\ i # 0
  BY <1>1
<1>6. \A i \in 1..n : g[i] = Inks(g[i - 1], t[i])
  BY <1>4, <1>5
<1> HIDE DEF step
<1>7. \A i \in 0..n : i = 0 \/ i \in 1..n
  BY <1>1
<1>8. \A i \in 0..n : g[i] = IF i = 0 THEN <<>>
                             ELSE IF t[i] = " " THEN g[i - 1] ELSE Append(g[i - 1], t[i])
  BY <1>4, <1>5, <1>6, <1>7 DEF Inks
<1>9. g = [i \in 0..n |-> g[i]]
  OBVIOUS
<1>10. Baring(t, g)
  BY <1>1, <1>8, <1>9, Zenon DEF Baring
<1>11. Baring(t, Bares(t))
  BY <1>10, Zenon DEF Bares
<1>12. Chunks!Bare(t) = Bares(t)[Len(t)]
  BY DEF Chunks!Bare, Bares, Baring
<1> DEFINE h == Bares(t)
<1> HIDE DEF h
<1>13. h = [i \in 0..n |-> IF i = 0 THEN <<>>
                           ELSE IF t[i] = " " THEN h[i - 1] ELSE Append(h[i - 1], t[i])]
  BY <1>1, <1>11, Zenon DEF Baring, h
<1>14. h[0] = <<>> /\ \A i \in 1..n : h[i] = Inks(h[i - 1], t[i])
  <2>1. 0 \in 0..n /\ \A i \in 1..n : i \in 0..n /\ i # 0
    OBVIOUS
  <2>2. \A i \in 0..n : h[i] = IF i = 0 THEN <<>>
                               ELSE IF t[i] = " " THEN h[i - 1] ELSE Append(h[i - 1], t[i])
    BY <1>13
  <2> QED
    BY <2>1, <2>2, Zenon DEF Inks
<1> DEFINE T == {i \in 0..n : h[i] \in Texts}
<1>15. \A i \in 0..n : i \in T
  <2>1. 0 \in T
    <3>1. <<>> \in Texts /\ 0 \in 0..n
      BY DEF Texts
    <3> QED
      BY <1>14, <3>1
  <2>2. ASSUME NEW i \in 1..n, i - 1 \in T PROVE i \in T
    <3>1. h[i - 1] \in Texts /\ i \in 0..n
      BY <2>2
    <3>2. h[i] \in Texts
      <4>1. t[i] \in STRING /\ h[i] = Inks(h[i - 1], t[i])
        BY <1>2, <1>14
      <4> QED
        BY <3>1, <4>1, InksIs
    <3> QED
      BY <3>1, <3>2
  <2> HIDE DEF T
  <2> QED
    BY <2>1, <2>2, Upwards
<1>16. h \in [0..n -> Texts]
  <2>1. h = [i \in 0..n |-> h[i]]
    BY <1>13
  <2> QED
    BY <1>15, <2>1
<1> QED
  BY <1>1, <1>12, <1>14, <1>16 DEF h

\* A sequence of one.
LEMMA Single ==
  ASSUME NEW S, NEW x \in S
  PROVE  <<x>> \in Seq(S)
OBVIOUS

\* What a character adds is added behind what was before.
LEMMA InksBehind ==
  ASSUME NEW x \in Texts, NEW y \in Texts, NEW c \in STRING
  PROVE  Inks(x \o y, c) = x \o Inks(y, c)
<1>1. Append(x \o y, c) = x \o Append(y, c)
  <2>0. x \in Seq(STRING) /\ y \in Seq(STRING)
    BY DEF Texts
  <2>1. x \in Seq(STRING) /\ y \in Seq(STRING) /\ <<c>> \in Seq(STRING)
    <3>1. <<c>> \in Seq(STRING)
      BY Single
    <3> QED
      BY <2>0, <3>1
  <2>2. x \o y \in Seq(STRING)
    BY <2>1, ConcatProperties
  <2>3. Append(x \o y, c) = (x \o y) \o <<c>> /\ Append(y, c) = y \o <<c>>
    BY <2>1, <2>2, AppendIsConcat
  <2>4. (x \o y) \o <<c>> = x \o (y \o <<c>>)
    BY <2>1, ConcatAssociative
  <2> QED
    BY <2>3, <2>4
<1> QED
  BY <1>1 DEF Inks

\* Two texts behind each other, place by place.
LEMMA Joined ==
  ASSUME NEW S, NEW s \in Seq(S), NEW t \in Seq(S), NEW n \in Nat, NEW m \in Nat,
         n = Len(s), m = Len(t)
  PROVE  /\ s \o t \in Seq(S) /\ Len(s \o t) = n + m
         /\ \A i \in 1..n : i \in 1..(n + m) /\ (s \o t)[i] = s[i]
         /\ \A i \in 1..m : n + i \in 1..(n + m) /\ (s \o t)[n + i] = t[i]
<1>1. s \o t \in Seq(S) /\ Len(s \o t) = n + m
      /\ \A i \in 1..(n + m) : (s \o t)[i] = IF i <= n THEN s[i] ELSE t[i - n]
  BY ConcatProperties
<1>2. \A i \in 1..n : i \in 1..(n + m) /\ i <= n
  OBVIOUS
<1>3. \A i \in 1..m : n + i \in 1..(n + m) /\ ~(n + i <= n) /\ n + i - n = i
  OBVIOUS
<1> QED
  BY <1>1, <1>2, <1>3

\* The same of two texts.
LEMMA TextsJoined ==
  ASSUME NEW s \in Texts, NEW t \in Texts, NEW n \in Nat, NEW m \in Nat,
         n = Len(s), m = Len(t)
  PROVE  /\ s \o t \in Texts /\ Len(s \o t) = n + m
         /\ \A i \in 1..n : i \in 1..(n + m) /\ (s \o t)[i] = s[i]
         /\ \A i \in 1..m : n + i \in 1..(n + m) /\ (s \o t)[n + i] = t[i]
<1>1. s \in Seq(STRING) /\ t \in Seq(STRING) /\ Texts = Seq(STRING)
  BY DEF Texts
<1> QED
  BY <1>1, Joined

\* Places behind n places.
LEMMA Behind ==
  ASSUME NEW n \in Nat, NEW m \in Nat
  PROVE  /\ \A i \in 1..m : n + i \in 1..(n + m) /\ n + i - 1 = n + (i - 1) /\ i - 1 \in 0..m
         /\ \A i \in 0..m : n + i \in 0..(n + m)
         /\ n + 0 = n /\ m \in 0..m /\ n \in 0..n /\ 0 \in 0..n
         /\ \A i \in 0..n : i \in 0..(n + m)
         /\ \A i \in 1..n : i \in 0..n /\ i - 1 \in 0..n
OBVIOUS

\* The white space of two texts behind each other is that of both.
LEMMA BareJoins ==
  ASSUME NEW s \in Texts, NEW t \in Texts
  PROVE  Chunks!Bare(s \o t) = Chunks!Bare(s) \o Chunks!Bare(t)
<1>1. PICK n \in Nat : n = Len(s)
  BY TextLen
<1>2. PICK m \in Nat : m = Len(t)
  BY TextLen
<1> DEFINE st == s \o t
           f == Bares(s)
           g == Bares(t)
           h == Bares(st)
<1>3. /\ st \in Texts /\ Len(st) = n + m
      /\ \A i \in 1..n : i \in 1..(n + m) /\ st[i] = s[i]
      /\ \A i \in 1..m : n + i \in 1..(n + m) /\ st[n + i] = t[i]
  <2>1. n = Len(s) /\ m = Len(t)
    BY <1>1, <1>2
  <2> QED
    BY <2>1, TextsJoined
<1> HIDE DEF st
<1>4. /\ f \in [0..n -> Texts] /\ f[0] = <<>>
      /\ \A i \in 1..n : f[i] = Inks(f[i - 1], s[i])
      /\ Chunks!Bare(s) = f[n]
  BY <1>1, BaresIs
<1>5. /\ g \in [0..m -> Texts] /\ g[0] = <<>>
      /\ \A i \in 1..m : g[i] = Inks(g[i - 1], t[i])
      /\ Chunks!Bare(t) = g[m]
  BY <1>2, BaresIs
<1>6. /\ h[0] = <<>>
      /\ \A i \in 1..(n + m) : h[i] = Inks(h[i - 1], st[i])
      /\ Chunks!Bare(st) = h[n + m]
  BY <1>3, BaresIs
<1> HIDE DEF f, g, h
<1> DEFINE S == {i \in 0..n : h[i] = f[i]}
           T == {i \in 0..m : h[n + i] = f[n] \o g[i]}
<1>7. \A i \in 0..n : i \in S
  <2>1. 0 \in S
    BY <1>4, <1>6
  <2>2. ASSUME NEW i \in 1..n, i - 1 \in S PROVE i \in S
    <3>1. h[i - 1] = f[i - 1]
      BY <2>2
    <3>2. h[i] = f[i]
      BY <1>3, <1>4, <1>6, <3>1
    <3> QED
      BY <3>2, Behind
  <2> HIDE DEF S
  <2> QED
    BY <2>1, <2>2, Upwards
<1>8. h[n] = f[n] /\ f[n] \in Texts
  BY <1>4, <1>7, Behind
<1>9. \A i \in 1..m : t[i] \in STRING /\ g[i - 1] \in Texts
  <2>1. \A i \in 1..m : t[i] \in STRING
    BY <1>2 DEF Texts
  <2>2. \A i \in 1..m : g[i - 1] \in Texts
    BY <1>5, Behind
  <2> QED
    BY <2>1, <2>2
<1>10. \A i \in 0..m : i \in T
  <2>1. 0 \in T
    <3>1. f[n] \o g[0] = f[n]
      BY <1>5, <1>8, ConcatEmptySeq DEF Texts
    <3> QED
      BY <1>8, <3>1, Behind
  <2>2. ASSUME NEW i \in 1..m, i - 1 \in T PROVE i \in T
    <3>1. h[n + (i - 1)] = f[n] \o g[i - 1]
      BY <2>2
    <3>2. h[n + i] = Inks(h[n + (i - 1)], t[i])
      BY <1>3, <1>6, Behind
    <3>3. Inks(f[n] \o g[i - 1], t[i]) = f[n] \o Inks(g[i - 1], t[i])
      BY <1>8, <1>9, InksBehind
    <3>4. h[n + i] = f[n] \o g[i]
      BY <1>5, <3>1, <3>2, <3>3
    <3>5. i \in 0..m
      OBVIOUS
    <3> QED
      BY <3>4, <3>5
  <2> HIDE DEF T
  <2> QED
    BY <2>1, <2>2, Upwards
<1>11. h[n + m] = f[n] \o g[m]
  BY <1>10, Behind
<1> QED
  BY <1>4, <1>5, <1>6, <1>11 DEF st

\* A text of white space alone has nothing else.
LEMMA BareBlank ==
  ASSUME NEW t \in Texts, \A i \in 1..Len(t) : t[i] = " "
  PROVE  Chunks!Bare(t) = <<>>
<1>1. PICK n \in Nat : n = Len(t)
  BY TextLen
<1> DEFINE g == Bares(t)
           T == {i \in 0..n : g[i] = <<>>}
<1>2. g[0] = <<>> /\ (\A i \in 1..n : g[i] = Inks(g[i - 1], t[i])) /\ Chunks!Bare(t) = g[n]
  BY <1>1, BaresIs
<1> HIDE DEF g
<1>3. 0 \in T
  BY <1>2, Behind, Zenon
<1>4. ASSUME NEW i \in 1..n, i - 1 \in T PROVE i \in T
  <2>1. g[i - 1] = <<>> /\ t[i] = " " /\ i \in 0..n
    <3>1. g[i - 1] = <<>>
      BY <1>4, Zenon
    <3>2. t[i] = " "
      BY <1>1
    <3> QED
      BY <3>1, <3>2, Behind
  <2>2. g[i] = <<>>
    BY <1>2, <2>1, Zenon DEF Inks
  <2> QED
    BY <2>1, <2>2, Zenon
<1> HIDE DEF T
<1>5. n \in T
  BY <1>3, <1>4, Upwards, Behind
<1> QED
  BY <1>2, <1>5 DEF T

\* Without its white space a text is a text,
LEMMA BareIs ==
  ASSUME NEW t \in Texts
  PROVE  Chunks!Bare(t) \in Texts
<1>1. PICK n \in Nat : n = Len(t)
  BY TextLen
<1> QED
  BY <1>1, BaresIs, Behind

\* and nothing is nothing.
LEMMA BareNothing == Chunks!Bare(<<>>) = <<>>
<1>1. <<>> \in Texts /\ Len(<<>>) = 0
  BY DEF Texts
<1>2. \A i \in 1..Len(<<>>) : <<>>[i] = " "
  <2>1. \A i : i \notin 1..0
    OBVIOUS
  <2> QED
    BY <1>1, <2>1, Zenon
<1> QED
  BY <1>1, <1>2, BareBlank

\* g holds, for every i, the characters of the first i texts.
Flattening(s, g) == g = [i \in 1..Len(s) |-> IF i = 1 THEN s[i] ELSE g[i - 1] \o s[i]]
Flattened(s) == CHOOSE g : Flattening(s, g)

\* Texts, one behind the other.
LEMMA Concats ==
  ASSUME NEW n \in Nat, NEW s, \A i \in 1..n : s[i] \in Texts
  PROVE  \E h \in [0..n -> Texts] : h[0] = <<>> /\ \A i \in 1..n : h[i] = h[i - 1] \o s[i]
<1>1. <<>> \in Texts /\ \A x, y \in Texts : x \o y \in Texts
  BY ConcatProperties DEF Texts
<1> DEFINE step == [i \in 1..n |-> [x \in Texts |-> x \o s[i]]]
<1>2. step \in [1..n -> [Texts -> Texts]]
  BY <1>1
<1>3. PICK h \in [0..n -> Texts] : h[0] = <<>> /\ \A i \in 1..n : h[i] = step[i][h[i - 1]]
  <2> HIDE DEF step
  <2> QED
    BY <1>2, TextRecursion, Zenon
<1>4. \A i \in 1..n : h[i - 1] \in Texts
  BY Behind
<1> QED
  BY <1>3, <1>4

\* The characters of the first texts, beginning with none.
LEMMA FlatIs ==
  ASSUME NEW s \in Seq(Texts), NEW n \in Nat, n = Len(s)
  PROVE  \E h \in [0..n -> Texts] :
           h[0] = <<>> /\ (\A i \in 1..n : h[i] = h[i - 1] \o s[i]) /\ Chunks!Flat(s) = h[n]
<1>1. \A i \in 1..n : s[i] \in Texts
  OBVIOUS
<1>0. 0 \in 0..n /\ \A i \in 1..n : i \in 0..n /\ i - 1 \in 0..n
  OBVIOUS
<1>9. \A x \in Texts : <<>> \o x = x
  BY ConcatEmptySeq DEF Texts
<1>2. PICK h \in [0..n -> Texts] : h[0] = <<>> /\ \A i \in 1..n : h[i] = h[i - 1] \o s[i]
  BY <1>1, Concats
<1>3. \A i \in 1..n : h[i - 1] \in Texts /\ h[i] \in Texts
  BY Behind
<1>4. \A i \in 1..n : h[i] = h[i - 1] \o s[i]
  BY <1>2
<1>5. CASE n = 0
  <2>1. Chunks!Flat(s) = s
    BY <1>5 DEF Chunks!Flat, Chunks!FlattenSeq
  <2>2. s = <<>>
    BY <1>5, EmptySeq
  <2> QED
    BY <1>2, <1>4, <1>5, <2>1, <2>2
<1>6. CASE n # 0
  <2>1. n \in 1..n /\ \A i \in 1..n : i = 1 \/ i - 1 \in 1..n
    BY <1>6
  <2> DEFINE g == [i \in 1..n |-> h[i]]
  <2>2. \A i \in 1..n : g[i] = IF i = 1 THEN s[i] ELSE g[i - 1] \o s[i]
    <3>1. \A i \in 1..n : i = 1 => h[i] = s[i]
      <4>1. 1 - 1 = 0
        OBVIOUS
      <4>2. ASSUME 1 \in 1..n PROVE h[1] = s[1]
        <5>1. h[1] = h[1 - 1] \o s[1] /\ s[1] \in Texts
          BY <1>1, <1>4, <4>2, Zenon
        <5>2. h[1 - 1] = <<>>
          BY <1>2, <4>1, Zenon
        <5> QED
          BY <1>9, <5>1, <5>2, Zenon
      <4> QED
        BY <4>2, Zenon
    <3> QED
      BY <1>4, <2>1, <3>1
  <2>3. Flattening(s, g)
    <3>1. g = [i \in 1..n |-> g[i]]
      OBVIOUS
    <3> HIDE DEF g
    <3> QED
      BY <2>2, <3>1, Zenon DEF Flattening
  <2>4. Flattening(s, Flattened(s))
    BY <2>3, Zenon DEF Flattened
  <2>5. Chunks!Flat(s) = Flattened(s)[n]
    BY <1>6 DEF Chunks!Flat, Chunks!FlattenSeq, Flattened, Flattening
  <2> DEFINE f == Flattened(s)
  <2> HIDE DEF f
  <2>6. f = [i \in 1..n |-> IF i = 1 THEN s[i] ELSE f[i - 1] \o s[i]]
    BY <2>4, Zenon DEF Flattening, f
  <2>7. \A i \in 1..n : f[i] = IF i = 1 THEN s[i] ELSE f[i - 1] \o s[i]
    BY <2>6
  <2> DEFINE T == {i \in 0..n : i = 0 \/ f[i] = h[i]}
  <2>8. \A i \in 0..n : i \in T
    <3>1. 0 \in T
      OBVIOUS
    <3>2. ASSUME NEW i \in 1..n, i - 1 \in T PROVE i \in T
      <4>1. i \in 0..n /\ i # 0 /\ (i = 1 \/ i - 1 # 0)
        OBVIOUS
      <4>2. CASE i = 1
        <5>1. f[i] = s[i] /\ h[i] = s[i]
          BY <2>2, <2>7, <4>2
        <5> QED
          BY <4>1, <5>1
      <4>3. CASE i # 1
        <5>1. f[i - 1] = h[i - 1]
          BY <3>2, <4>1, <4>3
        <5>2. f[i] = h[i]
          BY <1>4, <2>7, <4>3, <5>1
        <5> QED
          BY <4>1, <5>2
      <4> QED
        BY <4>2, <4>3
    <3> HIDE DEF T
    <3> QED
      BY <3>1, <3>2, Upwards
  <2>9. f[n] = h[n]
    BY <1>6, <2>8, Behind
  <2> QED
    BY <1>2, <1>4, <2>5, <2>9 DEF f
<1> QED
  BY <1>5, <1>6

\* Texts behind each other.
LEMMA TextsJoin ==
  ASSUME NEW x \in Texts, NEW y \in Texts
  PROVE  /\ x \o y \in Texts
         /\ x \o <<>> = x /\ <<>> \o x = x
<1>1. x \in Seq(STRING) /\ y \in Seq(STRING)
  BY DEF Texts
<1>2. x \o y \in Seq(STRING)
  BY <1>1, ConcatProperties
<1>3. x \o <<>> = x /\ <<>> \o x = x
  BY <1>1, ConcatEmptySeq
<1> QED
  BY <1>2, <1>3 DEF Texts

\* Three texts behind each other, joined in either order.
LEMMA TextsAssociate ==
  ASSUME NEW x \in Texts, NEW y \in Texts, NEW z \in Texts
  PROVE  (x \o y) \o z = x \o (y \o z)
<1>1. x \in Seq(STRING) /\ y \in Seq(STRING) /\ z \in Seq(STRING)
  BY DEF Texts
<1> QED
  BY <1>1, ConcatAssociative

\* The characters of two sequences of texts are those of one, then those of the other.
LEMMA FlatJoins ==
  ASSUME NEW s \in Seq(Texts), NEW t \in Seq(Texts)
  PROVE  /\ Chunks!Flat(s \o t) = Chunks!Flat(s) \o Chunks!Flat(t)
         /\ Chunks!Flat(s) \in Texts
<1>1. PICK n \in Nat : n = Len(s)
  BY LenProperties
<1>2. PICK m \in Nat : m = Len(t)
  BY LenProperties
<1> DEFINE st == s \o t
<1>3. /\ st \in Seq(Texts) /\ Len(st) = n + m
      /\ \A i \in 1..n : i \in 1..(n + m) /\ st[i] = s[i]
      /\ \A i \in 1..m : n + i \in 1..(n + m) /\ st[n + i] = t[i]
  <2>1. st \in Seq(Texts) /\ Len(st) = n + m
        /\ \A i \in 1..(n + m) : st[i] = IF i <= n THEN s[i] ELSE t[i - n]
    BY <1>1, <1>2, ConcatProperties
  <2> HIDE DEF st
  <2>2. \A i \in 1..n : i \in 1..(n + m) /\ i <= n
    OBVIOUS
  <2>3. \A i \in 1..m : n + i \in 1..(n + m) /\ ~(n + i <= n) /\ n + i - n = i
    OBVIOUS
  <2>4. \A i \in 1..m : st[n + i] = t[n + i - n]
    BY <2>1, <2>3
  <2> QED
    BY <2>1, <2>2, <2>3, <2>4
<1> HIDE DEF st
<1>4. PICK f \in [0..n -> Texts] :
        f[0] = <<>> /\ (\A i \in 1..n : f[i] = f[i - 1] \o s[i]) /\ Chunks!Flat(s) = f[n]
  BY <1>1, FlatIs
<1>5. PICK g \in [0..m -> Texts] :
        g[0] = <<>> /\ (\A i \in 1..m : g[i] = g[i - 1] \o t[i]) /\ Chunks!Flat(t) = g[m]
  BY <1>2, FlatIs
<1>6. PICK h \in [0..(n + m) -> Texts] :
        h[0] = <<>> /\ (\A i \in 1..(n + m) : h[i] = h[i - 1] \o st[i]) /\ Chunks!Flat(st) = h[n + m]
  <2>1. n + m \in Nat
    OBVIOUS
  <2> QED
    BY <1>3, <2>1, FlatIs
<1> DEFINE S == {i \in 0..n : h[i] = f[i]}
           T == {i \in 0..m : h[n + i] = f[n] \o g[i]}
<1>7. \A i \in 0..n : i \in S
  <2>1. 0 \in S
    BY <1>4, <1>6
  <2>2. ASSUME NEW i \in 1..n, i - 1 \in S PROVE i \in S
    <3>1. h[i - 1] = f[i - 1]
      BY <2>2
    <3>2. h[i] = f[i]
      BY <1>3, <1>4, <1>6, <3>1
    <3> QED
      BY <3>2, Behind
  <2> HIDE DEF S
  <2> QED
    BY <2>1, <2>2, Upwards
<1>8. h[n] = f[n] /\ f[n] \in Texts
  BY <1>4, <1>7, Behind
<1>9. \A i \in 1..m : t[i] \in Texts /\ g[i - 1] \in Texts
  <2>1. \A i \in 1..m : t[i] \in Texts
    BY <1>2
  <2>2. \A i \in 1..m : g[i - 1] \in Texts
    BY <1>5, Behind
  <2> QED
    BY <2>1, <2>2
<1>10. \A i \in 0..m : i \in T
  <2>1. 0 \in T
    <3>1. f[n] \o g[0] = f[n]
      BY <1>5, <1>8, TextsJoin
    <3> QED
      BY <1>8, <3>1, Behind
  <2>2. ASSUME NEW i \in 1..m, i - 1 \in T PROVE i \in T
    <3>1. PICK k \in 1..(n + m) : k = n + i /\ k - 1 = n + (i - 1)
      BY Behind
    <3>2. h[k - 1] = f[n] \o g[i - 1]
      BY <2>2, <3>1
    <3>3. h[k] = h[k - 1] \o t[i]
      BY <1>3, <1>6, <3>1
    <3>4. h[k] = f[n] \o g[i]
      <4>1. (f[n] \o g[i - 1]) \o t[i] = f[n] \o (g[i - 1] \o t[i])
        BY <1>8, <1>9, TextsAssociate
      <4>2. g[i] = g[i - 1] \o t[i]
        BY <1>5
      <4> QED
        BY <3>2, <3>3, <4>1, <4>2, Zenon
    <3>5. i \in 0..m
      OBVIOUS
    <3> QED
      BY <3>1, <3>4, <3>5
  <2> HIDE DEF T
  <2> QED
    BY <2>1, <2>2, Upwards
<1>11. h[n + m] = f[n] \o g[m]
  BY <1>10, Behind
<1> QED
  BY <1>4, <1>5, <1>6, <1>8, <1>11 DEF st

\* No text has no characters, and one has its own.
LEMMA FlatSmall ==
  /\ Chunks!Flat(<<>>) = <<>>
  /\ \A x \in Texts : Chunks!Flat(<<x>>) = x
<1>1. Chunks!Flat(<<>>) = <<>>
  <2>1. <<>> \in Seq(Texts) /\ 0 = Len(<<>>) /\ 0 \in Nat
    OBVIOUS
  <2>2. PICK h \in [0..0 -> Texts] : h[0] = <<>> /\ Chunks!Flat(<<>>) = h[0]
    BY <2>1, FlatIs
  <2> QED
    BY <2>2
<1>2. ASSUME NEW x \in Texts PROVE Chunks!Flat(<<x>>) = x
  <2>1. <<x>> \in Seq(Texts)
    BY Single
  <2>2. Len(<<x>>) = 1 /\ <<x>>[1] = x /\ 1 \in Nat
    OBVIOUS
  <2>3. PICK h \in [0..1 -> Texts] :
          h[0] = <<>> /\ (\A i \in 1..1 : h[i] = h[i - 1] \o <<x>>[i]) /\ Chunks!Flat(<<x>>) = h[1]
    BY <2>1, <2>2, FlatIs
  <2>4. h[1] = h[0] \o x
    <3>1. 1 \in 1..1 /\ 1 - 1 = 0
      OBVIOUS
    <3>2. h[1] = h[1 - 1] \o <<x>>[1]
      BY <2>3, <3>1, Zenon
    <3> QED
      BY <2>2, <3>1, <3>2, Zenon
  <2> QED
    BY <2>3, <2>4, TextsJoin
<1> QED
  BY <1>1, <1>2

-----------------------------------------------------------------------------
(***************************************************************************)
(* The ink of a sequence of texts, and of one more text behind them.       *)
(***************************************************************************)
Ink(s, t) == Chunks!Bare(Chunks!Flat(s)) \o Chunks!Bare(t)

\* The ink of two sequences of texts.
LEMMA InkJoins ==
  ASSUME NEW s \in Seq(Texts), NEW p \in Seq(Texts)
  PROVE  /\ s \o p \in Seq(Texts)
         /\ Chunks!Bare(Chunks!Flat(s)) \in Texts
         /\ Chunks!Bare(Chunks!Flat(s \o p)) = Chunks!Bare(Chunks!Flat(s)) \o Chunks!Bare(Chunks!Flat(p))
<1>1. Chunks!Flat(s) \in Texts /\ Chunks!Flat(p) \in Texts
      /\ Chunks!Flat(s \o p) = Chunks!Flat(s) \o Chunks!Flat(p)
  BY FlatJoins
<1>2. s \o p \in Seq(Texts)
  BY ConcatProperties
<1> QED
  BY <1>1, <1>2, BareIs, BareJoins

\* The ink of a sequence of texts is that of the first, and of the others.
LEMMA InkFront ==
  ASSUME NEW s \in Seq(Texts), NEW p \in Seq(Texts), NEW t \in Texts
  PROVE  Ink(s \o p, t) = Chunks!Bare(Chunks!Flat(s)) \o Ink(p, t)
<1> DEFINE a == Chunks!Bare(Chunks!Flat(s))
           b == Chunks!Bare(Chunks!Flat(p))
           c == Chunks!Bare(t)
<1>1. a \in Texts /\ b \in Texts /\ c \in Texts
  BY InkJoins, BareIs
<1>2. Chunks!Bare(Chunks!Flat(s \o p)) = a \o b
  BY InkJoins
<1> HIDE DEF a, b, c
<1>3. (a \o b) \o c = a \o (b \o c)
  BY <1>1, TextsAssociate
<1> QED
  BY <1>2, <1>3 DEF Ink, a, b, c

\* The ink that one text had may be that of others and of the text behind them.
LEMMA InkMoves ==
  ASSUME NEW s \in Seq(Texts), NEW p \in Seq(Texts), NEW t \in Texts, NEW u,
         Chunks!Bare(u) = Ink(p, t)
  PROVE  Ink(s \o p, t) = Ink(s, u)
<1>1. Ink(s \o p, t) = Chunks!Bare(Chunks!Flat(s)) \o Ink(p, t)
  BY InkFront
<1> QED
  BY <1>1 DEF Ink

\* The ink of one text behind others.
LEMMA InkSingle ==
  ASSUME NEW x \in Texts, NEW t \in Texts
  PROVE  /\ Ink(<<x>>, t) = Chunks!Bare(x) \o Chunks!Bare(t)
         /\ Ink(<<>>, t) = Chunks!Bare(t)
<1>1. Chunks!Bare(t) \in Texts
  BY BareIs
<1> QED
  BY <1>1, FlatSmall, BareNothing, TextsJoin DEF Ink

\* A part of a text has the ink of its parts.
LEMMA BareSplits ==
  ASSUME NEW t \in Texts, NEW n \in Nat, n = Len(t),
         NEW a \in 1..(n + 1), NEW b \in (a - 1)..n, NEW c \in b..n
  PROVE  /\ Chunks!Bare(SubSeq(t, a, c))
              = Chunks!Bare(SubSeq(t, a, b)) \o Chunks!Bare(SubSeq(t, b + 1, c))
         /\ SubSeq(t, a, c) \in Texts /\ SubSeq(t, a, b) \in Texts /\ SubSeq(t, b + 1, c) \in Texts
<1>1. /\ a \in Nat \ {0} /\ b \in Nat /\ b <= n /\ c \in Nat /\ c <= n /\ b + 1 \in Nat \ {0}
      /\ a \in 1..Len(t) + 1 /\ b \in (a - 1)..Len(t) /\ c \in b..Len(t)
  OBVIOUS
<1>2. SubSeq(t, a, c) \in Texts /\ SubSeq(t, a, b) \in Texts /\ SubSeq(t, b + 1, c) \in Texts
  BY <1>1, PartOf
<1>3. SubSeq(t, a, b) \o SubSeq(t, b + 1, c) = SubSeq(t, a, c)
  <2>1. t \in Seq(STRING)
    BY DEF Texts
  <2> QED
    BY <1>1, <2>1, ConcatAdjacentSubSeq
<1> QED
  BY <1>2, <1>3, BareJoins

\* The places of a part.
LEMMA PlacesOfPart ==
  ASSUME NEW a \in Nat \ {0}, NEW b \in Nat, NEW m \in Nat,
         m = IF a <= b THEN b - a + 1 ELSE 0, NEW i \in 1..m
  PROVE  i \in 1..(b - a + 1) /\ a + i - 1 \in a..b
OBVIOUS

\* A part of white space has none.
LEMMA BarePart ==
  ASSUME NEW t \in Texts, NEW a \in Nat \ {0}, NEW b \in Nat, b <= Len(t),
         \A i \in a..b : t[i] = " "
  PROVE  Chunks!Bare(SubSeq(t, a, b)) = <<>>
<1>1. /\ SubSeq(t, a, b) \in Texts
      /\ Len(SubSeq(t, a, b)) = IF a <= b THEN b - a + 1 ELSE 0
      /\ \A i \in 1..(b - a + 1) : SubSeq(t, a, b)[i] = t[a + i - 1]
  BY PartOf
<1>2. PICK m \in Nat : m = Len(SubSeq(t, a, b))
  BY <1>1, TextLen
<1>3. \A i \in 1..m : i \in 1..(b - a + 1) /\ a + i - 1 \in a..b
  <2>1. m \in Nat /\ m = IF a <= b THEN b - a + 1 ELSE 0
    BY <1>1, <1>2
  <2> QED
    BY <2>1, PlacesOfPart
<1>4. \A i \in 1..m : SubSeq(t, a, b)[i] = " "
  BY <1>1, <1>3
<1> QED
  BY <1>1, <1>2, <1>4, BareBlank

\* Stripping a text leaves its ink.
LEMMA BareStripped ==
  ASSUME NEW t \in Texts
  PROVE  Chunks!Bare(Chunks!Strip(t)) = Chunks!Bare(t) /\ Chunks!Bare(Chunks!LStrip(t)) = Chunks!Bare(t)
<1> DEFINE I == Chunks!Inked(t)
<1>0. PICK n \in Nat : n = Len(t)
  BY TextLen
<1>1. I = {i \in 1..n : t[i] # " "}
  BY <1>0 DEF Chunks!Inked
<1>2. CASE I = {}
  <2>1. \A i \in 1..Len(t) : t[i] = " "
    BY <1>0, <1>1, <1>2
  <2>2. Chunks!Strip(t) = <<>> /\ Chunks!LStrip(t) = <<>>
    BY <1>2 DEF Chunks!Strip, Chunks!LStrip
  <2> QED
    BY <2>1, <2>2, BareBlank, BareNothing
<1>3. CASE I # {}
  <2> DEFINE a == Chunks!Min(I)
             b == Chunks!Max(I)
  <2>1. Chunks!Strip(t) = SubSeq(t, a, b) /\ Chunks!LStrip(t) = SubSeq(t, a, n)
    BY <1>0, <1>3 DEF Chunks!Strip, Chunks!LStrip
  <2>2. I \in SUBSET Nat /\ I \in SUBSET (0..n) /\ I \in SUBSET (1..n)
    BY <1>1, PlacesAre
  <2>3. (\A i : i \in I <=> i \in 1..n /\ t[i] # " ")
    BY <1>1
  <2> HIDE DEF I
  <2>4. a \in I /\ (\A k \in I : a <= k) /\ b \in I /\ (\A k \in I : k <= b)
    BY <1>3, <2>2, MinIs, MaxIs
  <2> HIDE DEF a, b
  <2>5. a \in 1..n /\ b \in 1..n /\ a <= b
    BY <2>2, <2>4
  <2>6. \A i \in 1..(a - 1) : t[i] = " "
    <3>1. \A i \in 1..(a - 1) : i \in 1..n /\ ~(a <= i)
      BY <2>5
    <3> QED
      BY <2>3, <2>4, <3>1
  <2>7. \A i \in (b + 1)..n : t[i] = " "
    <3>1. \A i \in (b + 1)..n : i \in 1..n /\ ~(i <= b)
      BY <2>5
    <3> QED
      BY <2>3, <2>4, <3>1
  <2>8. /\ 1 \in 1..(n + 1) /\ a - 1 \in (1 - 1)..n /\ n \in (a - 1)..n /\ a - 1 + 1 = a
        /\ a \in 1..(n + 1) /\ b \in (a - 1)..n /\ n \in b..n
        /\ 1 \in Nat \ {0} /\ a - 1 \in Nat /\ a - 1 <= n /\ b + 1 \in Nat \ {0} /\ n <= n
    BY <2>5
  <2>9. /\ Chunks!Bare(SubSeq(t, 1, n)) = Chunks!Bare(SubSeq(t, 1, a - 1)) \o Chunks!Bare(SubSeq(t, a - 1 + 1, n))
        /\ Chunks!Bare(SubSeq(t, a, n)) = Chunks!Bare(SubSeq(t, a, b)) \o Chunks!Bare(SubSeq(t, b + 1, n))
        /\ SubSeq(t, a, n) \in Texts /\ SubSeq(t, a, b) \in Texts
    <3>1. Chunks!Bare(SubSeq(t, 1, n))
            = Chunks!Bare(SubSeq(t, 1, a - 1)) \o Chunks!Bare(SubSeq(t, a - 1 + 1, n))
      BY <1>0, <2>8, BareSplits
    <3>2. /\ Chunks!Bare(SubSeq(t, a, n))
               = Chunks!Bare(SubSeq(t, a, b)) \o Chunks!Bare(SubSeq(t, b + 1, n))
          /\ SubSeq(t, a, n) \in Texts /\ SubSeq(t, a, b) \in Texts
      BY <1>0, <2>8, BareSplits
    <3> QED
      BY <3>1, <3>2
  <2>10. Chunks!Bare(SubSeq(t, 1, a - 1)) = <<>> /\ Chunks!Bare(SubSeq(t, b + 1, n)) = <<>>
    BY <1>0, <2>6, <2>7, <2>8, BarePart
  <2>11. SubSeq(t, 1, n) = t
    BY <1>0, SubSeqFull DEF Texts
  <2>12. Chunks!Bare(SubSeq(t, a, n)) \in Texts /\ Chunks!Bare(SubSeq(t, a, b)) \in Texts
    BY <2>9, BareIs
  <2>13. Chunks!Bare(SubSeq(t, a, n)) = Chunks!Bare(SubSeq(t, a, b))
    BY <2>9, <2>10, <2>12, TextsJoin
  <2>14. Chunks!Bare(t) = Chunks!Bare(SubSeq(t, a, n))
    BY <2>8, <2>9, <2>10, <2>11, <2>12, TextsJoin
  <2> QED
    BY <2>1, <2>13, <2>14
<1> QED
  BY <1>2, <1>3

\* The last of the places is the greatest.
LEMMA NthLast ==
  ASSUME NEW n \in Nat, NEW T \in SUBSET (1..n), T # {}
  PROVE  /\ Cardinality(T) \in Nat \ {0}
         /\ Chunks!Nth(T, Cardinality(T)) = Chunks!Max(T)
<1> DEFINE m == Cardinality(T)
           p == Chunks!Nth(T, m)
           q == Chunks!Max(T)
<1>1. IsFiniteSet(T) /\ m \in Nat
  BY PlacesFinite
<1>2. m # 0
  BY <1>1, FS_EmptySet
<1>3. m \in 1..m
  BY <1>1, <1>2
<1>4. p \in T /\ Cardinality(Chunks!Before(T, p)) = m - 1
  BY <1>3, NthIs
<1>5. T \in SUBSET (0..n) /\ \A e \in T : e \in Nat
  OBVIOUS
<1>6. q \in T /\ \A k \in T : q >= k
  BY <1>5, MaxIs
<1> HIDE DEF p, q, m
<1>7. ASSUME p # q PROVE FALSE
  <2>1. Chunks!Before(T, p) \subseteq T \ {p, q}
    BY <1>4, <1>5, <1>6 DEF Chunks!Before
  <2>2. Chunks!Before(T, p) \subseteq (T \ {p}) \ {q} /\ q \in T \ {p}
    BY <1>6, <1>7, <2>1
  <2>3. IsFiniteSet(T \ {p}) /\ Cardinality(T \ {p}) = m - 1
    BY <1>1, <1>4, FS_RemoveElement DEF m
  <2>4. IsFiniteSet((T \ {p}) \ {q}) /\ Cardinality((T \ {p}) \ {q}) = m - 1 - 1
    BY <2>2, <2>3, FS_RemoveElement
  <2>5. Cardinality(Chunks!Before(T, p)) <= m - 1 - 1
    BY <2>2, <2>4, FS_Subset
  <2> QED
    BY <1>1, <1>4, <2>5
<1> QED
  BY <1>1, <1>2, <1>7 DEF m, p, q

\* The first k of some texts are the first k - 1, and the k-th.
LEMMA FirstOnes ==
  ASSUME NEW S, NEW k \in Nat \ {0}, NEW f, \A j \in 1..k : f[j] \in S
  PROVE  /\ [j \in 1..k |-> f[j]] \in Seq(S) /\ [j \in 1..(k - 1) |-> f[j]] \in Seq(S)
         /\ [j \in 1..k |-> f[j]] = [j \in 1..(k - 1) |-> f[j]] \o <<f[k]>>
<1> DEFINE s == [j \in 1..k |-> f[j]]
           r == [j \in 1..(k - 1) |-> f[j]]
<1>1. k \in 1..k /\ k - 1 \in Nat /\ \A j \in 1..(k - 1) : j \in 1..k
  OBVIOUS
<1>2. s \in Seq(S) /\ r \in Seq(S) /\ f[k] \in S
  <2>1. s \in [1..k -> S] /\ r \in [1..(k - 1) -> S]
    BY <1>1
  <2> HIDE DEF s, r
  <2>2. s \in Seq(S) /\ r \in Seq(S)
    BY <1>1, <2>1, SeqDef
  <2> QED
    BY <1>1, <2>2
<1>3. Len(s) = k /\ Len(r) = k - 1
  <2>1. DOMAIN s = 1..k /\ DOMAIN r = 1..(k - 1)
    OBVIOUS
  <2> HIDE DEF s, r
  <2> QED
    BY <1>1, <1>2, <2>1, LenProperties
<1>4. (\A j \in 1..k : s[j] = f[j]) /\ (\A j \in 1..(k - 1) : r[j] = f[j])
  OBVIOUS
<1> HIDE DEF s, r
<1>5. s = Append(r, f[k])
  <2>1. /\ Append(r, f[k]) \in Seq(S) /\ Len(Append(r, f[k])) = k - 1 + 1
        /\ \A j \in 1..(k - 1) : Append(r, f[k])[j] = r[j]
        /\ Append(r, f[k])[k - 1 + 1] = f[k]
    BY <1>2, <1>3, AppendProperties
  <2>2. k - 1 + 1 = k /\ \A j \in 1..k : j = k \/ j \in 1..(k - 1)
    OBVIOUS
  <2>3. \A j \in 1..k : s[j] = Append(r, f[k])[j]
    BY <1>4, <2>1, <2>2
  <2>4. Len(s) = Len(Append(r, f[k]))
    BY <1>3, <2>1, <2>2
  <2> QED
    BY <1>2, <1>3, <2>1, <2>3, <2>4, SeqEqual
<1>6. Append(r, f[k]) = r \o <<f[k]>>
  BY <1>2, AppendIsConcat
<1> QED
  BY <1>2, <1>5, <1>6 DEF s, r

\* Numbers up to m, and the places of a piece.
LEMMA NumbersTo ==
  ASSUME NEW m \in Nat \ {0}
  PROVE  /\ m \in 1..m /\ m \in 0..m /\ 0 \in 0..m
         /\ \A k \in 1..m : k \in Nat \ {0} /\ k \in 0..m /\ k # 0 /\ (k - 1 = 0 <=> k = 1)
         /\ \A k \in 1..m : \A j \in 1..k : j \in 1..m
         /\ \A k \in 1..m : k - 1 \in 0..m
         /\ \A k \in 0..m : k = 0 \/ k \in 1..m
OBVIOUS

\* The same for a piece from a to b.
LEMMA PiecePlaces ==
  ASSUME NEW n \in Nat, NEW a \in Nat \ {0}, NEW b \in 1..n, a <= b
  PROVE  a \in 1..(n + 1) /\ b \in (a - 1)..n /\ n \in b..n
OBVIOUS

\* None of some texts.
LEMMA NoOnes ==
  ASSUME NEW f
  PROVE  [j \in 1..0 |-> f[j]] = <<>>
<1> DEFINE r == [j \in 1..0 |-> f[j]]
<1>1. r \in Seq({}) /\ Len(r) = 0
  <2>1. DOMAIN r = 1..0 /\ \A j \in 1..0 : r[j] \in {}
    OBVIOUS
  <2>2. r \in [1..0 -> {}]
    OBVIOUS
  <2>3. r \in Seq({})
    BY <2>2, SeqDef
  <2> HIDE DEF r
  <2> QED
    BY <2>1, <2>3, LenProperties
<1> HIDE DEF r
<1> QED
  BY <1>1, EmptySeq DEF r


\* Texts taken one by one from the front of a text have its ink, with what is left.
LEMMA InkWalks ==
  ASSUME NEW t \in Texts, NEW m \in Nat, NEW piece, NEW left, left[0] = t,
         \A k \in 0..m : left[k] \in Texts,
         \A k \in 1..m : piece[k] \in Texts,
         \A k \in 1..m : Chunks!Bare(left[k - 1]) = Ink(<<piece[k]>>, left[k])
  PROVE  /\ Ink([j \in 1..m |-> piece[j]], left[m]) = Chunks!Bare(t)
         /\ [j \in 1..m |-> piece[j]] \in Seq(Texts)
<1> DEFINE pieces(k) == [j \in 1..k |-> piece[j]]
           K == {k \in 0..m : /\ pieces(k) \in Seq(Texts)
                              /\ Ink(pieces(k), left[k]) = Chunks!Bare(t)}
<1>1. 0 \in K
  <2>1. pieces(0) = <<>>
    BY NoOnes
  <2>2. Ink(<<>>, t) = Chunks!Bare(t)
    BY InkSingle
  <2>3. <<>> \in Seq(Texts)
    OBVIOUS
  <2>4. 0 \in 0..m
    OBVIOUS
  <2> HIDE DEF pieces
  <2>5. pieces(0) \in Seq(Texts)
    BY <2>1, <2>3
  <2>6. Ink(pieces(0), left[0]) = Chunks!Bare(t)
    BY <2>1, <2>2
  <2> QED
    BY <2>4, <2>5, <2>6
<1>2. ASSUME NEW k \in 1..m, k - 1 \in K PROVE k \in K
  <2> DEFINE s == pieces(k - 1)
             p == <<piece[k]>>
             x == left[k]
             u == left[k - 1]
  <2>0. k \in 0..m /\ k - 1 \in 0..m /\ k \in Nat \ {0} /\ \A j \in 1..k : j \in 1..m
    OBVIOUS
  <2>1. x \in Texts /\ u \in Texts /\ piece[k] \in Texts
    BY <2>0
  <2>2. p \in Seq(Texts)
    BY <2>1, Single
  <2>3. Chunks!Bare(u) = Ink(p, x)
    OBVIOUS
  <2>4. Ink(s, u) = Chunks!Bare(t) /\ s \in Seq(Texts)
    BY <1>2
  <2>5. \A j \in 1..k : piece[j] \in Texts
    BY <2>0
  <2>6. pieces(k) = s \o p /\ pieces(k) \in Seq(Texts)
    BY <2>0, <2>5, FirstOnes
  <2> HIDE DEF s, p, x, u, pieces
  <2>7. Ink(s \o p, x) = Ink(s, u)
    BY <2>1, <2>2, <2>3, <2>4, InkMoves
  <2>8. Ink(pieces(k), x) = Chunks!Bare(t)
    BY <2>4, <2>6, <2>7
  <2> QED
    BY <2>0, <2>6, <2>8 DEF x
<1> HIDE DEF K
<1>3. \A k \in 0..m : k \in K
  BY <1>1, <1>2, Upwards
<1>4. m \in K
  BY <1>3
<1> QED
  BY <1>4 DEF K

\* One text in the place of some that have its ink.
LEMMA InkInPlace ==
  ASSUME NEW o \in Seq(Texts), NEW t, NEW r,
         \E p \in Seq(Texts), x \in Texts : \E e :
           r = [out |-> o \o p, buf |-> x, emitted |-> e] /\ Chunks!Bare(t) = Ink(p, x)
  PROVE  Ink(r.out, r.buf) = Ink(o, t)
<1>1. PICK p \in Seq(Texts), x \in Texts : \E e :
        r = [out |-> o \o p, buf |-> x, emitted |-> e] /\ Chunks!Bare(t) = Ink(p, x)
  OBVIOUS
<1>2. r.out = o \o p /\ r.buf = x
  <2> DEFINE q == o \o p
  <2>1. PICK e : r = [out |-> q, buf |-> x, emitted |-> e]
    BY <1>1
  <2> HIDE DEF q
  <2>2. r.out = q /\ r.buf = x
    BY <2>1
  <2> QED
    BY <2>2 DEF q
<1>3. Ink(o \o p, x) = Ink(o, t)
  BY <1>1, InkMoves
<1> QED
  BY <1>2, <1>3

\* A text that is cut becomes pieces that have its ink, with the text left.
LEMMA CutPieces ==
  ASSUME NEW c \in Whole, NEW n \in Nat, n = Len(c.buf), NEW T \in SUBSET (1..n), T # {},
         \A e \in T : c.buf[e] # " "
  PROVE  \E p \in Seq(Texts), x \in Texts :
           /\ Chunks!Cut(c, T) = [out |-> c.out \o p, buf |-> x, emitted |-> TRUE]
           /\ Chunks!Bare(c.buf) = Ink(p, x)
<1>1. PICK m \in Nat \ {0} : m = Cardinality(T) /\ Chunks!Nth(T, m) = Chunks!Max(T)
  BY NthLast
<1>0. /\ m \in 1..m /\ m \in 0..m /\ 0 \in 0..m
      /\ \A k \in 1..m : k \in Nat \ {0} /\ k \in 0..m /\ k # 0 /\ (k - 1 = 0 <=> k = 1)
      /\ \A k \in 1..m : \A j \in 1..k : j \in 1..m
      /\ \A k \in 1..m : k - 1 \in 0..m
      /\ \A k \in 0..m : k = 0 \/ k \in 1..m
  BY NumbersTo
<1> DEFINE t == c.buf
           piece == [k \in 1..m |-> Chunks!Strip(SubSeq(t, From(T, k), Chunks!Nth(T, k)))]
           opens(k) == IF k = 0 THEN 1 ELSE Chunks!Nth(T, k) + 1
           pieces == [j \in 1..m |-> piece[j]]
           left == [k \in 0..m |-> SubSeq(t, opens(k), n)]
<1>2. t \in Texts /\ c.out \in Seq(Texts)
  BY PiecesAreTexts DEF Whole
<1>3. Chunks!Cut(c, T) = [out |-> c.out \o pieces, buf |-> left[m], emitted |-> TRUE]
  <2>1. pieces = [k \in 1..m |-> Chunks!Strip(SubSeq(t, From(T, k), Chunks!Nth(T, k)))]
    OBVIOUS
  <2>2. left[m] = SubSeq(t, Chunks!Max(T) + 1, n)
    BY <1>0, <1>1
  <2> HIDE DEF pieces, left
  <2> QED
    BY <1>1, <2>1, <2>2, SameCount DEF Chunks!Cut, From
<1>4. ASSUME NEW k \in 1..m
      PROVE  /\ opens(k - 1) = From(T, k)
             /\ opens(k) = Chunks!Nth(T, k) + 1
             /\ From(T, k) \in 1..(n + 1) /\ Chunks!Nth(T, k) \in (From(T, k) - 1)..n
             /\ n \in Chunks!Nth(T, k)..n
             /\ k \in 0..m /\ k - 1 \in 0..m
  <2>1. From(T, k) \in Nat \ {0} /\ From(T, k) <= Chunks!Nth(T, k) /\ Chunks!Nth(T, k) \in 1..n
    BY <1>1, FromIs
  <2>2. (k - 1 = 0 <=> k = 1) /\ k # 0
    BY <1>0
  <2>3. opens(k - 1) = From(T, k) /\ opens(k) = Chunks!Nth(T, k) + 1
    BY <2>2 DEF From
  <2>4. From(T, k) \in 1..(n + 1) /\ Chunks!Nth(T, k) \in (From(T, k) - 1)..n
        /\ n \in Chunks!Nth(T, k)..n
    BY <2>1, PiecePlaces
  <2>5. k \in 0..m /\ k - 1 \in 0..m
    BY <1>0
  <2> QED
    BY <2>3, <2>4, <2>5
<1>5. ASSUME NEW k \in 1..m
      PROVE  /\ piece[k] \in Texts /\ left[k] \in Texts /\ left[k - 1] \in Texts
             /\ Chunks!Bare(left[k - 1]) = Ink(<<piece[k]>>, left[k])
  <2> DEFINE a == From(T, k)
             b == Chunks!Nth(T, k)
             s == SubSeq(t, a, b)
  <2>1. a \in 1..(n + 1) /\ b \in (a - 1)..n /\ n \in b..n
    BY <1>4
  <2>2. piece[k] = Chunks!Strip(s) /\ left[k] = SubSeq(t, b + 1, n) /\ left[k - 1] = SubSeq(t, a, n)
    BY <1>4
  <2> HIDE DEF a, b, piece, left
  <2>3. /\ Chunks!Bare(SubSeq(t, a, n)) = Chunks!Bare(SubSeq(t, a, b)) \o Chunks!Bare(SubSeq(t, b + 1, n))
        /\ SubSeq(t, a, n) \in Texts /\ s \in Texts /\ SubSeq(t, b + 1, n) \in Texts
    BY <1>2, <2>1, BareSplits
  <2>4. piece[k] \in Texts /\ Chunks!Bare(piece[k]) = Chunks!Bare(s)
    BY <2>2, <2>3, StripIs, BareStripped
  <2>5. Ink(<<piece[k]>>, left[k]) = Chunks!Bare(piece[k]) \o Chunks!Bare(left[k])
    BY <2>2, <2>3, <2>4, InkSingle
  <2> QED
    BY <2>2, <2>3, <2>4, <2>5
<1>6. \A k \in 1..m : piece[k] \in Texts
  BY <1>5
<1>7. \A k \in 1..m : Chunks!Bare(left[k - 1]) = Ink(<<piece[k]>>, left[k])
  BY <1>5
<1>8. left[0] = t
  <2>1. SubSeq(t, 1, Len(t)) = t
    BY <1>2, SubSeqFull DEF Texts
  <2> QED
    BY <1>0, <2>1 DEF t
<1>9. \A k \in 0..m : left[k] \in Texts
  <2>1. ASSUME NEW k \in 0..m PROVE left[k] \in Texts
    <3>1. k = 0 \/ k \in 1..m
      BY <1>0
    <3> HIDE DEF left
    <3> QED
      BY <1>2, <1>5, <1>8, <3>1
  <2> QED
    BY <2>1
<1> HIDE DEF piece, left, t
<1>10. Ink(pieces, left[m]) = Chunks!Bare(t) /\ pieces \in Seq(Texts)
  BY <1>2, <1>6, <1>7, <1>8, <1>9, InkWalks
<1>11. m \in 0..m
  BY <1>0
<1> HIDE DEF pieces
<1> QED
  BY <1>3, <1>9, <1>10, <1>11 DEF t

\* Cutting keeps the ink, in its order.
LEMMA CutInk ==
  ASSUME NEW c \in Whole, NEW n \in Nat, n = Len(c.buf), NEW T \in SUBSET (1..n), T # {},
         \A e \in T : c.buf[e] # " "
  PROVE  Ink(Chunks!Cut(c, T).out, Chunks!Cut(c, T).buf) = Ink(c.out, c.buf)
<1> DEFINE o == c.out
           t == c.buf
           r == Chunks!Cut(c, T)
<1>1. \E p \in Seq(Texts), x \in Texts :
        r = [out |-> o \o p, buf |-> x, emitted |-> TRUE] /\ Chunks!Bare(t) = Ink(p, x)
  BY CutPieces
<1>2. o \in Seq(Texts)
  BY PiecesAreTexts DEF Whole
<1> HIDE DEF o, t, r
<1>3. \E p \in Seq(Texts), x \in Texts : \E e :
        r = [out |-> o \o p, buf |-> x, emitted |-> e] /\ Chunks!Bare(t) = Ink(p, x)
  BY <1>1
<1>4. Ink(r.out, r.buf) = Ink(o, t)
  BY <1>2, <1>3, InkInPlace
<1> QED
  BY <1>4 DEF o, t, r

\* The step of a push that cuts at the first clause keeps the ink.
LEMMA FirstClauseInk ==
  ASSUME NEW c \in Whole
  PROVE  Ink(Chunks!FirstClause[c].out, Chunks!FirstClause[c].buf) = Ink(c.out, c.buf)
<1> DEFINE T == Chunks!Ends(c.buf, Chunks!FirstChunkClause)
           r == Chunks!FirstClause[c]
<1>1. PICK n \in Nat : n = Len(c.buf)
  BY BufLen
<1>2. T \in SUBSET (1..n) /\ \A e \in T : c.buf[e] # " "
  BY <1>1, BufLen, EndsHaveInk DEF Chunks!FirstChunkClause
<1>3. r = IF c.emitted \/ T = {} THEN c ELSE Chunks!Cut(c, {Chunks!Min(T)})
  BY WholeIsCutting DEF Chunks!FirstClause
<1> HIDE DEF T, r
<1>4. ASSUME T # {}
      PROVE  Ink(Chunks!Cut(c, {Chunks!Min(T)}).out, Chunks!Cut(c, {Chunks!Min(T)}).buf)
               = Ink(c.out, c.buf)
  <2>1. Chunks!Min(T) \in T
    <3>1. T \in SUBSET Nat
      BY <1>2, PlacesAre
    <3> QED
      BY <1>4, <3>1, MinIs
  <2> DEFINE U == {Chunks!Min(T)}
  <2>2. /\ U \in SUBSET (1..n) /\ U # {}
        /\ \A e \in U : c.buf[e] # " "
    BY <1>2, <2>1
  <2> HIDE DEF U
  <2>3. Ink(Chunks!Cut(c, U).out, Chunks!Cut(c, U).buf) = Ink(c.out, c.buf)
    BY <1>1, <2>2, CutInk
  <2> QED
    BY <2>3 DEF U
<1>5. Ink(r.out, r.buf) = Ink(c.out, c.buf)
  BY <1>3, <1>4
<1> QED
  BY <1>5 DEF r

\* The step that makes every sentence a piece keeps the ink.
LEMMA SentencesInk ==
  ASSUME NEW c \in Whole
  PROVE  Ink(Chunks!Sentences[c].out, Chunks!Sentences[c].buf) = Ink(c.out, c.buf)
<1> DEFINE T == Chunks!Ends(c.buf, Chunks!SentenceEnd)
           r == Chunks!Sentences[c]
<1>1. PICK n \in Nat : n = Len(c.buf)
  BY BufLen
<1>2. T \in SUBSET (1..n) /\ \A e \in T : c.buf[e] # " "
  BY <1>1, BufLen, EndsHaveInk DEF Chunks!SentenceEnd
<1>3. r = IF ~c.emitted \/ T = {} THEN c ELSE Chunks!Cut(c, T)
  BY WholeIsCutting DEF Chunks!Sentences
<1> HIDE DEF T, r
<1>4. ASSUME T # {}
      PROVE  Ink(Chunks!Cut(c, T).out, Chunks!Cut(c, T).buf) = Ink(c.out, c.buf)
  BY <1>1, <1>2, <1>4, CutInk
<1>5. Ink(r.out, r.buf) = Ink(c.out, c.buf)
  BY <1>3, <1>4
<1> QED
  BY <1>5 DEF r

\* The first part of a text taken as a piece, if it is not of white space alone, and
\* the other with its white space in front stripped, keep the ink.
LEMMA HalvesInk ==
  ASSUME NEW o \in Seq(Texts), NEW t \in Texts, NEW n \in Nat, n = Len(t),
         NEW at \in 0..n, NEW piece, NEW rest,
         piece = Chunks!Strip(SubSeq(t, 1, at)), rest = Chunks!LStrip(SubSeq(t, at + 1, n))
  PROVE  Ink(IF piece = <<>> THEN o ELSE Append(o, piece), rest) = Ink(o, t)
<1> DEFINE u == SubSeq(t, 1, at)
           v == SubSeq(t, at + 1, n)
           p == IF piece = <<>> THEN <<>> ELSE <<piece>>
<1>1. 1 \in 1..(n + 1) /\ at \in (1 - 1)..n /\ n \in at..n
  OBVIOUS
<1>2. /\ Chunks!Bare(SubSeq(t, 1, n)) = Chunks!Bare(u) \o Chunks!Bare(v)
      /\ u \in Texts /\ v \in Texts
  BY <1>1, BareSplits
<1>3. SubSeq(t, 1, n) = t
  BY SubSeqFull DEF Texts
<1> HIDE DEF u, v
<1>4. piece = Chunks!Strip(u) /\ rest = Chunks!LStrip(v)
  BY DEF u, v
<1>5. Chunks!Bare(piece) = Chunks!Bare(u) /\ Chunks!Bare(rest) = Chunks!Bare(v)
  BY <1>2, <1>4, BareStripped
<1>6. piece \in Texts /\ rest \in Texts
  BY <1>2, <1>4, StripIs
<1>7. Chunks!Bare(t) = Chunks!Bare(piece) \o Chunks!Bare(rest)
  BY <1>2, <1>3, <1>5
<1>8. p \in Seq(Texts) /\ Chunks!Bare(t) = Ink(p, rest)
  <2>1. CASE piece = <<>>
    <3>1. p = <<>> /\ <<>> \in Seq(Texts)
      BY <2>1
    <3>2. Ink(<<>>, rest) = Chunks!Bare(rest)
      BY <1>6, InkSingle
    <3>3. Chunks!Bare(rest) \in Texts /\ Chunks!Bare(piece) = <<>>
      BY <1>6, <2>1, BareIs, BareNothing
    <3>4. Chunks!Bare(t) = Chunks!Bare(rest)
      BY <1>7, <3>3, TextsJoin
    <3> HIDE DEF p
    <3> QED
      BY <3>1, <3>2, <3>4
  <2>2. CASE piece # <<>>
    <3>1. p = <<piece>>
      BY <2>2
    <3>2. <<piece>> \in Seq(Texts)
      BY <1>6, Single
    <3>3. Ink(<<piece>>, rest) = Chunks!Bare(piece) \o Chunks!Bare(rest)
      BY <1>6, InkSingle
    <3> HIDE DEF p
    <3> QED
      BY <1>7, <3>1, <3>2, <3>3
  <2> QED
    BY <2>1, <2>2
<1>9. (IF piece = <<>> THEN o ELSE Append(o, piece)) = o \o p
  <2>1. o \o <<>> = o
    BY ConcatEmptySeq
  <2>2. Append(o, piece) = o \o <<piece>>
    BY <1>6, AppendIsConcat
  <2> QED
    BY <2>1, <2>2
<1> HIDE DEF p
<1>10. Ink(o \o p, rest) = Ink(o, t)
  BY <1>6, <1>8, InkMoves
<1> QED
  BY <1>9, <1>10

\* The step that cuts a text grown to its limit keeps the ink.
LEMMA SoftenInk ==
  ASSUME NEW c \in Whole
  PROVE  Ink(Chunks!Soften[c].out, Chunks!Soften[c].buf) = Ink(c.out, c.buf)
<1> DEFINE limit == Chunks!Limit(c.emitted)
           at == Chunks!SoftCut(c.buf, limit,
                                IF c.emitted THEN {","} ELSE Chunks!FirstChunkClause)
           t == c.buf
           o == c.out
           piece == Chunks!Strip(SubSeq(t, 1, at))
           rest == Chunks!LStrip(SubSeq(t, at + 1, Len(t)))
           out == IF piece = <<>> THEN o ELSE Append(o, piece)
           cut == [out |-> out, buf |-> rest, emitted |-> c.emitted \/ piece # <<>>]
           r == Chunks!Soften[c]
<1>1. PICK n \in Nat : n = Len(t)
  BY BufLen
<1>2. limit \in Nat \ {0}
  BY TurnAssumption DEF Chunks!Limit
<1>3. r = IF Len(t) < limit THEN c ELSE cut
  BY WholeIsCutting DEF Chunks!Soften
<1>4. at \in 0..limit
  BY <1>2, BufLen, SoftCutIs
<1>5. t \in Texts /\ o \in Seq(Texts)
  BY PiecesAreTexts DEF Whole
<1> HIDE DEF at, limit, r, t, o
<1>6. ASSUME ~(Len(t) < limit) PROVE Ink(out, rest) = Ink(o, t)
  <2>1. at \in 0..n
    BY <1>1, <1>2, <1>4, <1>6
  <2>2. piece = Chunks!Strip(SubSeq(t, 1, at)) /\ rest = Chunks!LStrip(SubSeq(t, at + 1, n))
    BY <1>1
  <2>3. out = IF piece = <<>> THEN o ELSE Append(o, piece)
    OBVIOUS
  <2> HIDE DEF out, piece, rest
  <2>4. Ink(IF piece = <<>> THEN o ELSE Append(o, piece), rest) = Ink(o, t)
    BY <1>1, <1>5, <2>1, <2>2, HalvesInk
  <2> QED
    BY <2>3, <2>4
<1>7. cut.out = out /\ cut.buf = rest
  OBVIOUS
<1> HIDE DEF cut, out, rest
<1>8. Ink(r.out, r.buf) = Ink(o, t)
  <2>1. CASE Len(t) < limit
    BY <1>3, <2>1 DEF o, t
  <2>2. CASE ~(Len(t) < limit)
    BY <1>3, <1>6, <1>7, <2>2
  <2> QED
    BY <2>1, <2>2
<1> QED
  BY <1>8 DEF o, t, r

\* A push keeps the ink of what was left and of the delta.
LEMMA PushInk ==
  ASSUME NEW k \in Keeping, NEW d \in Texts
  PROVE  Ink(Chunks!Push(k, d).out, Chunks!Push(k, d).chunker.buf)
           = Chunks!Bare(k.buf) \o Chunks!Bare(d)
<1> DEFINE c == [out |-> <<>>, buf |-> k.buf \o d, emitted |-> k.emitted]
           done == Chunks!Soften[Chunks!Sentences[Chunks!FirstClause[c]]]
           r == Chunks!Push(k, d)
<1>0. k.buf \in Texts /\ k.emitted \in BOOLEAN
  BY DEF Keeping
<1>1. c \in Whole /\ k.buf \o d \in Texts
  <2>1. k.buf \o d \in Texts
    BY <1>0, TextsJoin
  <2>2. <<>> \in Seq(Pieces)
    OBVIOUS
  <2> QED
    BY <1>0, <2>1, <2>2 DEF Whole
<1>2. r = IF d = <<>> THEN [out |-> <<>>, chunker |-> k]
          ELSE [out |-> done.out, chunker |-> [buf |-> done.buf, emitted |-> done.emitted]]
  BY DEF Chunks!Push
<1>3. c.out = <<>> /\ c.buf = k.buf \o d
  OBVIOUS
<1> HIDE DEF c, r
<1>4. Ink(done.out, done.buf) = Ink(c.out, c.buf)
  BY <1>1, FirstClauseWhole, SentencesWhole, FirstClauseInk, SentencesInk, SoftenInk
<1>5. Ink(c.out, c.buf) = Chunks!Bare(k.buf) \o Chunks!Bare(d)
  <2>1. Ink(<<>>, k.buf \o d) = Chunks!Bare(k.buf \o d)
    BY <1>1, InkSingle
  <2>2. Chunks!Bare(k.buf \o d) = Chunks!Bare(k.buf) \o Chunks!Bare(d)
    BY <1>0, BareJoins
  <2> QED
    BY <1>3, <2>1, <2>2
<1> HIDE DEF done
<1>6. CASE d = <<>>
  <2>1. r.out = <<>> /\ r.chunker.buf = k.buf
    BY <1>2, <1>6
  <2>2. Ink(<<>>, k.buf) = Chunks!Bare(k.buf)
    BY <1>0, InkSingle
  <2>3. Chunks!Bare(d) = <<>> /\ Chunks!Bare(k.buf) \in Texts
    BY <1>0, <1>6, BareNothing, BareIs
  <2>4. Chunks!Bare(k.buf) \o Chunks!Bare(d) = Chunks!Bare(k.buf)
    BY <2>3, TextsJoin
  <2>5. Ink(r.out, r.chunker.buf) = Chunks!Bare(k.buf) \o Chunks!Bare(d)
    BY <2>1, <2>2, <2>4
  <2> QED
    BY <2>5 DEF r
<1>7. CASE d # <<>>
  <2>1. r.out = done.out /\ r.chunker.buf = done.buf
    BY <1>2, <1>7
  <2>2. Ink(r.out, r.chunker.buf) = Chunks!Bare(k.buf) \o Chunks!Bare(d)
    BY <1>4, <1>5, <2>1
  <2> QED
    BY <2>2 DEF r
<1> QED
  BY <1>6, <1>7

\* What is flushed has the ink of what was left.
LEMMA FlushedInk ==
  ASSUME NEW k \in Keeping
  PROVE  Chunks!Bare(Chunks!Flushed(k)) = Chunks!Bare(k.buf)
<1>1. k.buf \in Texts
  BY DEF Keeping
<1> QED
  BY <1>1, BareStripped DEF Chunks!Flushed

-----------------------------------------------------------------------------
(***************************************************************************)
(* What follows the first k elements of a sequence.                        *)
(***************************************************************************)
Rest(s, k) == SubSeq(s, k + 1, Len(s))

\* It is a sequence again, of the other elements.
LEMMA RestIs ==
  ASSUME NEW S, NEW s \in Seq(S), NEW k \in Nat, k <= Len(s)
  PROVE  /\ Rest(s, k) \in Seq(S) /\ Len(Rest(s, k)) = Len(s) - k
         /\ \A i \in 1..(Len(s) - k) : Rest(s, k)[i] = s[k + i]
<1>1. PICK n \in Nat : n = Len(s)
  BY LenProperties
<1>2. \A i \in (k + 1)..n : s[i] \in S
  <2>1. \A i \in (k + 1)..n : i \in 1..n
    OBVIOUS
  <2> QED
    BY <1>1, <2>1, ElementOfSeq
<1>3. k + 1 \in Int /\ n \in Int /\ n - (k + 1) + 1 = n - k /\ k <= n
  BY <1>1
<1>4. /\ Rest(s, k) \in Seq(S)
      /\ Len(Rest(s, k)) = IF k + 1 <= n THEN n - (k + 1) + 1 ELSE 0
      /\ \A i \in 1..(n - (k + 1) + 1) : Rest(s, k)[i] = s[k + 1 + i - 1]
  BY <1>1, <1>2, <1>3, SubSeqProperties DEF Rest
<1>5. (IF k + 1 <= n THEN n - (k + 1) + 1 ELSE 0) = n - k
  BY <1>3
<1>6. \A i \in 1..(n - k) : k + 1 + i - 1 = k + i
  OBVIOUS
<1> QED
  BY <1>1, <1>3, <1>4, <1>5, <1>6

\* Nothing follows the whole sequence.
LEMMA RestEmpty ==
  ASSUME NEW S, NEW s \in Seq(S), NEW k \in Nat, k <= Len(s)
  PROVE  Rest(s, k) = <<>> <=> k = Len(s)
<1>1. Rest(s, k) \in Seq(S) /\ Len(Rest(s, k)) = Len(s) - k /\ Len(s) \in Nat
  BY RestIs, LenProperties
<1>2. Rest(s, k) = <<>> <=> Len(Rest(s, k)) = 0
  BY <1>1, EmptySeq
<1>3. PICK n \in Nat : n = Len(s)
  BY <1>1
<1> QED
  BY <1>1, <1>2, <1>3

\* What is appended follows, too.
LEMMA RestGrows ==
  ASSUME NEW S, NEW s \in Seq(S), NEW p \in Seq(S), NEW k \in Nat, k <= Len(s)
  PROVE  k <= Len(s \o p) /\ Rest(s \o p, k) = Rest(s, k) \o p
<1>1. PICK n \in Nat : n = Len(s)
  BY LenProperties
<1>2. PICK m \in Nat : m = Len(p)
  BY LenProperties
<1> DEFINE t == s \o p
           r == Rest(s, k)
           a == Rest(t, k)
           b == r \o p
<1>3. /\ t \in Seq(S) /\ Len(t) = n + m
      /\ \A i \in 1..(n + m) : t[i] = IF i <= n THEN s[i] ELSE p[i - n]
  BY <1>1, <1>2, ConcatProperties
<1>4. k <= n + m /\ n + m - k \in Nat /\ n - k + m = n + m - k
  BY <1>1
<1> HIDE DEF t
<1>5. /\ a \in Seq(S) /\ Len(a) = n + m - k
      /\ \A i \in 1..(n + m - k) : a[i] = t[k + i]
  <2>1. t \in Seq(S) /\ k <= Len(t)
    BY <1>3, <1>4
  <2>2. /\ a \in Seq(S) /\ Len(a) = Len(t) - k
        /\ \A i \in 1..(Len(t) - k) : a[i] = t[k + i]
    BY <2>1, RestIs
  <2> QED
    BY <1>3, <2>2
<1>6. /\ r \in Seq(S) /\ Len(r) = n - k
      /\ \A i \in 1..(n - k) : r[i] = s[k + i]
  BY <1>1, RestIs
<1> HIDE DEF r
<1>7. /\ b \in Seq(S) /\ Len(b) = n - k + m
      /\ \A i \in 1..(n - k + m) : b[i] = IF i <= n - k THEN r[i] ELSE p[i - (n - k)]
  <2>1. /\ b \in Seq(S) /\ Len(b) = Len(r) + Len(p)
        /\ \A i \in 1..(Len(r) + Len(p)) :
             b[i] = IF i <= Len(r) THEN r[i] ELSE p[i - Len(r)]
    BY <1>6, ConcatProperties
  <2> QED
    BY <1>2, <1>6, <2>1
<1> HIDE DEF a, b
<1>8. \A j \in 1..(n + m) : t[j] = IF j <= n THEN s[j] ELSE p[j - n]
  BY <1>3
<1>9. ASSUME NEW i \in 1..(n + m - k) PROVE a[i] = b[i]
  <2>1. k + i \in 1..(n + m) /\ (k + i <= n <=> i <= n - k) /\ i - (n - k) = k + i - n
    BY <1>1
  <2>2. a[i] = IF k + i <= n THEN s[k + i] ELSE p[k + i - n]
    <3>1. a[i] = t[k + i]
      BY <1>5
    <3>2. PICK j \in 1..(n + m) : j = k + i
      BY <2>1
    <3>3. t[j] = IF j <= n THEN s[j] ELSE p[j - n]
      BY <1>8
    <3> QED
      BY <3>1, <3>2, <3>3
  <2>3. b[i] = IF i <= n - k THEN r[i] ELSE p[i - (n - k)]
    BY <1>4, <1>7
  <2>4. i <= n - k => r[i] = s[k + i]
    <3>1. i <= n - k => i \in 1..(n - k)
      BY <1>1
    <3> QED
      BY <1>6, <3>1
  <2> QED
    BY <2>1, <2>2, <2>3, <2>4
<1>10. a = b
  BY <1>4, <1>5, <1>7, <1>9, SeqEqual
<1> QED
  BY <1>1, <1>3, <1>4, <1>10 DEF a, b, r, t

\* What follows what follows.
LEMMA RestOfRest ==
  ASSUME NEW S, NEW s \in Seq(S), NEW k \in Nat, NEW j \in Nat, k <= Len(s),
         j <= Len(Rest(s, k))
  PROVE  k + j <= Len(s) /\ Rest(Rest(s, k), j) = Rest(s, k + j)
<1>1. PICK n \in Nat : n = Len(s)
  BY LenProperties
<1> DEFINE r == Rest(s, k)
           a == Rest(r, j)
           b == Rest(s, k + j)
<1>2. r \in Seq(S) /\ Len(r) = n - k /\ \A i \in 1..(n - k) : r[i] = s[k + i]
  BY <1>1, RestIs
<1>3. k + j \in Nat /\ k + j <= n /\ n - k - j = n - (k + j) /\ j <= n - k
  BY <1>1, <1>2
<1> HIDE DEF r
<1>4. /\ a \in Seq(S) /\ Len(a) = n - k - j
      /\ \A i \in 1..(n - k - j) : a[i] = r[j + i]
  <2>1. r \in Seq(S) /\ j <= Len(r)
    BY <1>2, <1>3
  <2>2. /\ a \in Seq(S) /\ Len(a) = Len(r) - j
        /\ \A i \in 1..(Len(r) - j) : a[i] = r[j + i]
    BY <2>1, RestIs
  <2> QED
    BY <1>2, <2>2
<1>5. /\ b \in Seq(S) /\ Len(b) = n - (k + j)
      /\ \A i \in 1..(n - (k + j)) : b[i] = s[k + j + i]
  BY <1>1, <1>3, RestIs
<1> HIDE DEF a, b
<1>6. ASSUME NEW i \in 1..(n - k - j) PROVE a[i] = b[i]
  <2>1. j + i \in 1..(n - k) /\ k + (j + i) = k + j + i
    BY <1>3
  <2> QED
    BY <1>2, <1>3, <1>4, <1>5, <2>1
<1>7. a = b
  BY <1>3, <1>4, <1>5, <1>6, SeqEqual
<1> QED
  BY <1>1, <1>3, <1>7 DEF a, b, r

\* The last element of a sequence follows as the last.
LEMMA RestOfMarked ==
  ASSUME NEW S, NEW s \in Seq(S), NEW e \in S, NEW k \in Nat, k <= Len(s)
  PROVE  Rest(Append(s, e), k) = Append(Rest(s, k), e)
<1>1. Append(s, e) = s \o <<e>> /\ <<e>> \in Seq(S)
  BY AppendIsConcat
<1>2. Rest(s, k) \in Seq(S)
  BY RestIs
<1>3. Append(Rest(s, k), e) = Rest(s, k) \o <<e>>
  BY <1>2, AppendIsConcat
<1> QED
  BY <1>1, <1>3, RestGrows

\* Nothing follows nothing.
LEMMA RestOfNothing == Rest(<<>>, 0 + 0) = <<>>
<1>1. Rest(<<>>, 0 + 0) = SubSeq(<<>>, 1, 0)
  BY DEF Rest
<1> QED
  BY <1>1, SubSeqEmpty

-----------------------------------------------------------------------------
(***************************************************************************)
(* The lock: whoever wants a turn waits for it once, and its holder is the *)
(* one whose turn runs.                                                    *)
(***************************************************************************)
Labels == {"off", "receive", "vad", "chatgate", "voicegate", "stt", "lock", "next",
            "filler", "join"}

\* In the lock's queue.
Queued == {"lock"} \cup InTurn

\* The types of what is not of a turn.
Control ==
  /\ avatar \in AvatarStates
  /\ open \in [Sockets -> BOOLEAN]
  /\ pc \in [Sockets -> Labels]
  /\ lock \in Seq(Sockets)
  /\ recent \in BOOLEAN /\ mute \in BOOLEAN /\ alone \in BOOLEAN
  /\ orphans \in Nat
  /\ connects \in 0..MaxConnects /\ faults \in 0..MaxFaults

Waits(s) == \E i \in 1..Len(lock) : lock[i] = s

Locks ==
  /\ \A i, j \in 1..Len(lock) : lock[i] = lock[j] => i = j
  /\ \A s \in Sockets : pc[s] \in Queued <=> Waits(s)
  /\ \A s \in Sockets : pc[s] \in InTurn => Holder(s)

\* A step, seen from the lock: nobody moves,
Rests == UNCHANGED <<pc, lock>>

\* somebody moves, and stays in the queue or out of it,
Moves(s) ==
  \E label \in Labels :
    /\ pc' = [pc EXCEPT ![s] = label] /\ lock' = lock
    /\ label \in Queued <=> pc[s] \in Queued
    /\ label \in InTurn => Holder(s)

\* or enters it,
Enters(s) ==
  /\ pc[s] \notin Queued
  /\ pc' = [pc EXCEPT ![s] = "lock"] /\ lock' = Append(lock, s)

\* or leaves it.
Leaves(s) ==
  \E label \in Labels \ Queued :
    /\ pc[s] \in Queued /\ Holder(s)
    /\ pc' = [pc EXCEPT ![s] = label] /\ lock' = Tail(lock)

Locking == Rests \/ \E s \in Sockets : Moves(s) \/ Enters(s) \/ Leaves(s)

\* Every step is one of these.
LEMMA LockingStep ==
  ASSUME Locks, [Next]_vars
  PROVE  Locking
<1> USE DEF GoTo, Labels, Queued, InTurn, turnVars, sharedVars, ghostVars, boundVars
<1>0. \A s \in Sockets : pc[s] \in InTurn => Holder(s)
  BY DEF Locks
<1>e. ASSUME NEW s \in Sockets, NEW label \in {"off", "receive"}, EndTurn(s, label),
             pc[s] \in Queued, Holder(s)
      PROVE  Leaves(s)
  BY <1>e DEF EndTurn, Leaves
<1>r. ASSUME NEW s \in Sockets, Refuse(s), pc[s] \notin Queued PROVE Moves(s)
  BY <1>r DEF Refuse, Moves
<1>1. ASSUME NEW s \in Sockets, Connect(s) PROVE Moves(s)
  BY <1>1 DEF Connect, Moves
<1>2. ASSUME NEW s \in Sockets, Leave(s) PROVE Rests
  BY <1>2 DEF Leave, Rests
<1>3. ASSUME NEW s \in Sockets, Disconnect(s) PROVE Moves(s)
  BY <1>3 DEF Disconnect, Moves
<1>4. ASSUME NEW s \in Sockets, Chat(s) PROVE Moves(s)
  BY <1>4 DEF Chat, Frame, Moves
<1>5. ASSUME NEW s \in Sockets, Mic(s) PROVE Rests
  BY <1>5 DEF Mic, Rests
<1>6. ASSUME NEW s \in Sockets, Audio(s) PROVE Rests \/ Moves(s)
  BY <1>6 DEF Audio, Frame, Rests, Moves
<1>7. ASSUME NEW s \in Sockets, Vad(s) PROVE Moves(s)
  <2>1. CASE Refuse(s)
    BY <1>7, <1>r, <2>1 DEF Vad
  <2>2. CASE Proceed(s, "voicegate") /\ UNCHANGED lock
    BY <1>7, <2>2 DEF Vad, Proceed, Moves
  <2> QED
    BY <1>7, <2>1, <2>2 DEF Vad
<1>8. ASSUME NEW s \in Sockets, Gate(s) PROVE Moves(s) \/ Enters(s)
  <2>1. CASE pc[s] \in {"chatgate", "voicegate"} /\ Refuse(s)
    BY <1>r, <2>1
  <2>2. CASE pc[s] = "chatgate" /\ Proceed(s, "lock") /\ lock' = Append(lock, s)
    BY <2>2 DEF Proceed, Enters
  <2>3. CASE pc[s] = "voicegate" /\ Proceed(s, "stt") /\ UNCHANGED lock
    BY <2>3 DEF Proceed, Moves
  <2> QED
    BY <1>8, <2>1, <2>2, <2>3 DEF Gate
<1>9. ASSUME NEW s \in Sockets, Transcribe(s) PROVE Moves(s) \/ Enters(s)
  <2>1. CASE Refuse(s)
    BY <1>9, <1>r, <2>1 DEF Transcribe
  <2>2. CASE open[s] /\ Proceed(s, "lock") /\ lock' = Append(lock, s)
    BY <1>9, <2>2 DEF Transcribe, Proceed, Enters
  <2> QED
    BY <1>9, <2>1, <2>2 DEF Transcribe
<1>10. ASSUME NEW s \in Sockets, Begin(s) PROVE Moves(s) \/ Leaves(s)
  BY <1>10, <1>e DEF Begin, Abort, Moves
<1>11. ASSUME NEW s \in Sockets, pc[s] \in InTurn, SendRaises(s) PROVE Leaves(s)
  BY <1>0, <1>11, <1>e DEF SendRaises, Abort
<1>12. ASSUME NEW s \in Sockets, Delta(s) PROVE Rests \/ Leaves(s)
  BY <1>11, <1>12 DEF Delta, Show, Rests
<1>13. ASSUME NEW s \in Sockets, SlowDelta(s) PROVE Moves(s)
  BY <1>0, <1>13 DEF SlowDelta, Moves
<1>14. ASSUME NEW s \in Sockets, FillerReady(s) PROVE Moves(s) \/ Leaves(s)
  BY <1>0, <1>11, <1>14 DEF FillerReady, Show, Moves
<1>15. ASSUME NEW s \in Sockets, PipelineRaises(s) PROVE Leaves(s)
  BY <1>0, <1>15, <1>e DEF PipelineRaises, Abort
<1>16. ASSUME NEW s \in Sockets, EndOfReply(s) PROVE Moves(s) \/ Leaves(s)
  BY <1>0, <1>11, <1>16 DEF EndOfReply, Show, Moves
<1>17. ASSUME NEW s \in Sockets, Join(s) PROVE Leaves(s)
  BY <1>0, <1>11, <1>17, <1>e DEF Join, Finish, Abort
<1>18. ASSUME Worker PROVE Rests
  BY <1>18 DEF Worker, Take, TakeEnd, Skip, Speak, HandDone, Rests
<1>19. ASSUME Orphan \/ HoldoffOver PROVE Rests
  BY <1>19 DEF Orphan, HoldoffOver, Rests
<1>20. CASE UNCHANGED vars
  BY <1>20 DEF vars, Rests, Locking
<1> QED
  BY <1>1, <1>2, <1>3, <1>4, <1>5, <1>6, <1>7, <1>8, <1>9, <1>10, <1>12, <1>13, <1>14,
     <1>15, <1>16, <1>17, <1>18, <1>19, <1>20 DEF Next, Task, Due, Locking

\* Which keeps the queue in order.
LEMMA LocksStep ==
  ASSUME Control, Locks, Locking
  PROVE  Locks' /\ lock' \in Seq(Sockets) /\ pc' \in [Sockets -> Labels]
<1>0. PICK n \in Nat : n = Len(lock)
  BY DEF Control
<1> USE DEF Queued, InTurn, Holder
<1>1. CASE Rests
  BY <1>1 DEF Rests, Control, Locks, Waits
<1>2. ASSUME NEW s \in Sockets, Moves(s)
      PROVE  Locks' /\ lock' \in Seq(Sockets) /\ pc' \in [Sockets -> Labels]
  BY <1>2 DEF Moves, Control, Locks, Waits
<1>3. ASSUME NEW s \in Sockets, Enters(s)
      PROVE  Locks' /\ lock' \in Seq(Sockets) /\ pc' \in [Sockets -> Labels]
  <2>1. lock' \in Seq(Sockets) /\ pc' \in [Sockets -> Labels]
    BY <1>3 DEF Enters, Control, Labels
  <2>2. /\ Len(lock') = n + 1 /\ lock'[n + 1] = s
        /\ \A i \in 1..n : lock'[i] = lock[i]
    BY <1>0, <1>3, AppendProperties DEF Enters, Control
  <2>3. \A i \in 1..n : lock[i] # s
    BY <1>0, <1>3 DEF Enters, Locks, Waits
  <2>4. \A i \in 1..(n + 1) : i \in 1..n \/ i = n + 1
    OBVIOUS
  <2>5. \A i \in 1..n : i \in 1..(n + 1)
    OBVIOUS
  <2>6. n + 1 \in 1..(n + 1)
    OBVIOUS
  <2>7. \A i, j \in 1..Len(lock') : lock'[i] = lock'[j] => i = j
    BY <1>0, <2>2, <2>3, <2>4 DEF Locks
  <2>8. ASSUME NEW r \in Sockets PROVE pc'[r] \in Queued <=> Waits(r)'
    <3>1. Waits(r)' <=> Waits(r) \/ r = s
      BY <1>0, <2>2, <2>4, <2>5, <2>6 DEF Waits
    <3>2. pc'[r] \in Queued <=> pc[r] \in Queued \/ r = s
      BY <1>3 DEF Enters, Control
    <3> QED
      BY <3>1, <3>2 DEF Locks
  <2>9. ASSUME NEW r \in Sockets, pc'[r] \in InTurn PROVE Holder(r)'
    <3>1. pc[r] \in InTurn
      BY <1>3, <2>9 DEF Enters, Control
    <3>2. lock # <<>> /\ Head(lock) = r
      BY <3>1 DEF Locks
    <3>3. Head(lock') = r /\ lock' # <<>>
      BY <1>3, <3>2, HeadTailAppend, AppendProperties DEF Enters, Control
    <3> QED
      BY <3>3
  <2> QED
    BY <2>1, <2>7, <2>8, <2>9 DEF Locks
<1>4. ASSUME NEW s \in Sockets, Leaves(s)
      PROVE  Locks' /\ lock' \in Seq(Sockets) /\ pc' \in [Sockets -> Labels]
  <2>1. pc' \in [Sockets -> Labels] /\ pc'[s] \notin Queued
    BY <1>4 DEF Leaves, Control
  <2>2. lock # <<>> /\ lock[1] = s /\ pc[s] \in Queued
    BY <1>4 DEF Leaves, Control
  <2>3. /\ lock' \in Seq(Sockets) /\ Len(lock') = n - 1 /\ n >= 1
        /\ \A i \in 1..(n - 1) : lock'[i] = lock[i + 1]
    BY <1>0, <1>4, <2>2, HeadTailProperties DEF Leaves, Control
  <2>4. /\ \A i \in 1..(n - 1) : i + 1 \in 1..n /\ i + 1 # 1
        /\ \A i \in 1..n : i = 1 \/ (i - 1 \in 1..(n - 1) /\ (i - 1) + 1 = i)
        /\ 1 \in 1..n
    BY <2>3
  <2>5. \A i, j \in 1..(n - 1) : i + 1 = j + 1 => i = j
    OBVIOUS
  <2>6. \A i, j \in 1..Len(lock') : lock'[i] = lock'[j] => i = j
    BY <1>0, <2>3, <2>4, <2>5 DEF Locks
  <2>7. ASSUME NEW r \in Sockets PROVE pc'[r] \in Queued <=> Waits(r)'
    <3>1. CASE r = s
      <4>1. \A i \in 1..(n - 1) : lock'[i] # s
        BY <1>0, <2>2, <2>3, <2>4 DEF Locks
      <4> QED
        BY <2>1, <2>3, <3>1, <4>1 DEF Waits
    <3>2. CASE r # s
      <4>1. ASSUME Waits(r) PROVE Waits(r)'
        <5>1. PICK i \in 1..n : lock[i] = r
          BY <1>0, <4>1 DEF Waits
        <5>2. i - 1 \in 1..(n - 1) /\ (i - 1) + 1 = i
          BY <2>2, <2>4, <3>2, <5>1
        <5>3. lock'[i - 1] = r
          BY <2>3, <5>1, <5>2
        <5> QED
          BY <2>3, <5>2, <5>3 DEF Waits
      <4>3. ASSUME Waits(r)' PROVE Waits(r)
        BY <1>0, <2>3, <2>4, <4>3 DEF Waits
      <4>2. pc'[r] = pc[r]
        BY <1>4, <3>2 DEF Leaves, Control
      <4> QED
        BY <4>1, <4>2, <4>3 DEF Locks
    <3> QED
      BY <3>1, <3>2
  <2>8. ASSUME NEW r \in Sockets PROVE pc'[r] \notin InTurn
    <3>1. CASE r = s
      BY <2>1, <3>1
    <3>2. CASE r # s
      <4>1. pc'[r] = pc[r]
        BY <1>4, <3>2 DEF Leaves, Control
      <4>2. ~Holder(r)
        BY <1>4, <3>2 DEF Leaves
      <4> QED
        BY <4>1, <4>2 DEF Locks
    <3> QED
      BY <3>1, <3>2
  <2> QED
    BY <2>1, <2>3, <2>6, <2>7, <2>8 DEF Locks
<1> QED
  BY <1>1, <1>2, <1>3, <1>4 DEF Locking

\* So everybody is in the queue once, or not at all.
LEMMA LocksCount ==
  ASSUME Control, Locks, NEW s \in Sockets
  PROVE  Cardinality({i \in 1..Len(lock) : lock[i] = s}) =
           IF pc[s] \in {"lock"} \cup InTurn THEN 1 ELSE 0
<1> DEFINE at == {i \in 1..Len(lock) : lock[i] = s}
<1>1. CASE Waits(s)
  <2>1. PICK i \in 1..Len(lock) : lock[i] = s
    BY <1>1 DEF Waits
  <2>2. at = {i}
    BY <2>1 DEF Locks
  <2>3. Cardinality(at) = 1
    BY <2>2, FS_Singleton
  <2> QED
    BY <1>1, <2>3 DEF Locks, Queued
<1>2. CASE ~Waits(s)
  <2>1. at = {}
    BY <1>2 DEF Waits
  <2>2. Cardinality(at) = 0
    BY <2>1, FS_EmptySet
  <2> QED
    BY <1>2, <2>2 DEF Locks, Queued
<1> QED
  BY <1>1, <1>2

\* One turn runs at a time.
LEMMA OneInTurn ==
  ASSUME Locks, NEW s \in Sockets, NEW r \in Sockets, pc[s] \in InTurn, pc[r] \in InTurn
  PROVE  s = r
BY DEF Locks, Holder

-----------------------------------------------------------------------------
(***************************************************************************)
(* A step, seen from the turn: it goes on as it was, starts, says          *)
(* something, is slow, closes or stops; or its worker works.               *)
(***************************************************************************)
Running == \E s \in Sockets : pc[s] \in InTurn
Filling == \E s \in Sockets : pc[s] = "filler"
Ending == \E s \in Sockets : pc[s] = "join"

\* The types of what is of a turn.
Data ==
  /\ response \in Seq(Texts) /\ chunker \in Keeping
  /\ queue \in Seq(Texts) /\ shown \in Seq(Pieces)
  /\ wpc \in {"none", "wait", "synth", "done", "failed"}
  /\ hand \in Nat /\ handled \in Nat
  /\ sawEnd \in BOOLEAN /\ firstAudio \in BOOLEAN
  /\ fillerAudio \in BOOLEAN /\ firstChunk \in BOOLEAN
  /\ Filling => response # <<>>

workerVars == <<wpc, hand, sawEnd, firstAudio, firstChunk, handled>>

GoesOn ==
  /\ UNCHANGED turnVars
  /\ Running' <=> Running
  /\ Filling' <=> Filling
  /\ Ending' <=> Ending

Starts ==
  /\ ~Running /\ Running' /\ ~Filling' /\ ~Ending'
  /\ wpc' = "wait"
  /\ UNCHANGED <<response, chunker, queue, hand, sawEnd, firstAudio, fillerAudio,
                 firstChunk, shown, handled>>

\* What the last delta yielded completes is said; if it was slow, it was yielded before.
Says(pieces) ==
  /\ Running /\ Running' /\ ~Filling' /\ ~Ending /\ ~Ending'
  /\ \E before \in Seq(Texts), d \in Texts :
       /\ IF Filling THEN response = Append(before, d) /\ UNCHANGED response
          ELSE before = response /\ response' = Append(before, d)
       /\ Ink(pieces, chunker'.buf) = Chunks!Bare(chunker.buf) \o Chunks!Bare(d)
  /\ response' \in Seq(Texts) /\ chunker' \in Keeping /\ fillerAudio' \in BOOLEAN
  /\ shown' = shown \o pieces /\ queue' = queue \o pieces
  /\ UNCHANGED workerVars

Slows ==
  /\ Running /\ Running' /\ ~Ending /\ ~Ending' /\ ~Filling /\ Filling'
  /\ \E d \in Texts : response' = Append(response, d)
  /\ response' \in Seq(Texts) \ {<<>>}
  /\ UNCHANGED <<chunker, queue, shown, fillerAudio, workerVars>>

Closes(pieces) ==
  /\ Running /\ Running' /\ ~Filling /\ ~Filling' /\ ~Ending /\ Ending'
  /\ chunker' \in Keeping /\ chunker'.buf = <<>>
  /\ Ink(pieces, <<>>) = Chunks!Bare(chunker.buf)
  /\ shown' = shown \o pieces /\ queue' = queue \o pieces \o <<EndMark>>
  /\ UNCHANGED <<response, fillerAudio, workerVars>>

Stops == NoTurn' /\ ~Running' /\ ~Filling' /\ ~Ending'

Works == Worker /\ UNCHANGED pc

Talking ==
  \/ GoesOn \/ Starts \/ Slows \/ Stops \/ Works
  \/ \E pieces \in Seq(Pieces) : Says(pieces) \/ Closes(pieces)

\* Who is not in a turn, and does not begin one, changes no turn.
LEMMA OutsideTurn ==
  ASSUME Control, NEW s \in Sockets, NEW label \in Labels \ InTurn, pc[s] \notin InTurn,
         pc' = [pc EXCEPT ![s] = label], UNCHANGED turnVars
  PROVE  GoesOn
<1>1. \A r \in Sockets : pc'[r] = IF r = s THEN label ELSE pc[r]
  BY DEF Control
<1>2. label \notin InTurn /\ "filler" \in InTurn /\ "join" \in InTurn
  BY DEF InTurn
<1> QED
  BY <1>1, <1>2 DEF GoesOn, Running, Filling, Ending

\* Nor does a step in which nobody moves.
LEMMA NobodyMoves ==
  ASSUME UNCHANGED pc, UNCHANGED turnVars
  PROVE  GoesOn
BY DEF GoesOn, Running, Filling, Ending

\* When the holder of the lock leaves, no turn runs.
LEMMA TurnEnds ==
  ASSUME Control, Locks, NEW s \in Sockets, NEW label \in {"off", "receive"}, Holder(s),
         EndTurn(s, label)
  PROVE  Stops
<1>1. \A r \in Sockets : pc[r] \in InTurn => r = s
  BY DEF Locks, Holder
<1>2. \A r \in Sockets : pc'[r] = IF r = s THEN label ELSE pc[r]
  BY DEF EndTurn, GoTo, Control
<1>3. \A r \in Sockets : pc'[r] \notin InTurn
  BY <1>1, <1>2 DEF InTurn
<1>4. NoTurn'
  BY DEF EndTurn, NoTurn
<1> QED
  BY <1>3, <1>4 DEF Stops, Running, Filling, Ending, InTurn

\* The turn of s moves on.
LEMMA TurnMoves ==
  ASSUME Control, Locks, NEW s \in Sockets, pc[s] \in InTurn,
         NEW label \in InTurn, pc' = [pc EXCEPT ![s] = label]
  PROVE  /\ Running /\ Running' /\ (Filling' <=> label = "filler")
         /\ (Ending <=> pc[s] = "join") /\ (Ending' <=> label = "join")
<1>1. \A r \in Sockets : pc[r] \in InTurn => r = s
  BY DEF Locks, Holder
<1>2. \A r \in Sockets : pc'[r] = IF r = s THEN label ELSE pc[r]
  BY DEF Control
<1> QED
  BY <1>1, <1>2 DEF InTurn, Running, Filling, Ending

\* Nothing is said.
LEMMA NothingMore ==
  ASSUME NEW S, NEW s \in Seq(S)
  PROVE  s \o <<>> = s
BY ConcatEmptySeq

\* A sequence that is not empty is another and its last element.
LEMMA LastOne ==
  ASSUME NEW S, NEW s \in Seq(S), s # <<>>
  PROVE  \E before \in Seq(S), e \in S : s = Append(before, e) /\ s[Len(s)] = e
<1>1. PICK n \in Nat \ {0} : n = Len(s) /\ n \in 1..n
  <2>1. Len(s) \in Nat /\ Len(s) # 0
    BY EmptySeq, LenProperties
  <2> QED
    BY <2>1
<1> DEFINE r == [j \in 1..(n - 1) |-> s[j]]
<1>2. \A j \in 1..n : s[j] \in S
  BY <1>1, ElementOfSeq
<1>3. /\ r \in Seq(S)
      /\ [j \in 1..n |-> s[j]] = r \o <<s[n]>>
  BY <1>1, <1>2, FirstOnes
<1>4. [j \in 1..n |-> s[j]] = s
  BY <1>1, LenProperties
<1> HIDE DEF r
<1>5. s[n] \in S
  BY <1>1, <1>2
<1>6. Append(r, s[n]) = r \o <<s[n]>>
  BY <1>3, <1>5, AppendIsConcat
<1>7. s = Append(r, s[n]) /\ s[Len(s)] = s[n]
  BY <1>1, <1>3, <1>4, <1>6
<1> QED
  BY <1>3, <1>5, <1>7

\* What a sequence and one element more consists of.
LEMMA AppendedIs ==
  ASSUME NEW S, NEW s \in Seq(S), NEW d \in S
  PROVE  /\ Len(s) \in Nat /\ Len(Append(s, d)) = Len(s) + 1
         /\ \A i \in 1..Len(s) : Append(s, d)[i] = s[i]
BY AppendProperties, LenProperties

\* What is before the last element is one sequence only.
LEMMA SameBefore ==
  ASSUME NEW S, NEW s \in Seq(S), NEW t \in Seq(S), NEW d \in S, NEW e \in S,
         Append(s, d) = Append(t, e)
  PROVE  s = t
<1> DEFINE v == Append(s, d)
           w == Append(t, e)
<1>0. v = w
  OBVIOUS
<1>1. /\ Len(s) \in Nat /\ Len(v) = Len(s) + 1
      /\ \A i \in 1..Len(s) : v[i] = s[i]
  BY AppendedIs
<1>2. /\ Len(t) \in Nat /\ Len(w) = Len(t) + 1
      /\ \A i \in 1..Len(t) : w[i] = t[i]
  BY AppendedIs
<1> HIDE DEF v, w
<1>3. Len(s) = Len(t)
  BY <1>0, <1>1, <1>2
<1>4. \A i \in 1..Len(s) : s[i] = t[i]
  BY <1>0, <1>1, <1>2, <1>3
<1> QED
  BY <1>3, <1>4, SeqEqual

\* The piece left at the end, if any, has its ink.
LEMMA InkOfTail ==
  ASSUME NEW x \in Texts
  PROVE  Ink(IF x = <<>> THEN <<>> ELSE <<x>>, <<>>) = Chunks!Bare(x)
<1>1. <<>> \in Texts
  BY DEF Texts
<1>2. Ink(<<x>>, <<>>) = Chunks!Bare(x) \o Chunks!Bare(<<>>) /\ Ink(<<>>, <<>>) = Chunks!Bare(<<>>)
  BY <1>1, InkSingle
<1>3. Chunks!Bare(x) \o <<>> = Chunks!Bare(x)
  BY BareIs, TextsJoin
<1> QED
  BY <1>2, <1>3, BareNothing

\* Deltas are texts.
LEMMA DeltasAreTexts == Deltas \subseteq Texts
BY TurnAssumption DEF Texts

\* What a delta completes is said.
LEMMA DeltaTalks ==
  ASSUME Control, Locks, Data, NEW s \in Sockets, Delta(s)
  PROVE  Talking
<1>0. pc[s] = "next" /\ pc[s] \in InTurn /\ Holder(s)
  BY DEF Delta, Locks, InTurn
<1>1. PICK d \in Deltas :
        \E pushed \in {Chunks!Push(chunker, d)} :
       \/ /\ open[s] \/ pushed.out = <<>>
          /\ response' = Append(response, d)
          /\ chunker' = pushed.chunker
          /\ Show(pushed.out, <<>>)
          /\ UNCHANGED <<pc, recent, fillerAudio>>
       \/ pushed.out # <<>> /\ SendRaises(s)
  BY DEF Delta
<1> DEFINE pushed == Chunks!Push(chunker, d)
<1>2. pushed.out \in Seq(Pieces) /\ pushed.chunker \in Keeping
  BY PushIs, DeltasAreTexts DEF Data
<1>6. Ink(pushed.out, pushed.chunker.buf) = Chunks!Bare(chunker.buf) \o Chunks!Bare(d)
  <2>1. chunker \in Keeping /\ d \in Texts
    BY DeltasAreTexts DEF Data
  <2> QED
    BY <2>1, PushInk
<1>3. \/ /\ response' = Append(response, d)
         /\ chunker' = pushed.chunker
         /\ Show(pushed.out, <<>>)
         /\ UNCHANGED <<pc, recent, fillerAudio>>
      \/ SendRaises(s)
  BY <1>1
<1> HIDE DEF pushed
<1>4. CASE SendRaises(s)
  BY <1>0, <1>4, TurnEnds DEF SendRaises, Abort, Talking
<1>5. CASE /\ response' = Append(response, d)
           /\ chunker' = pushed.chunker
           /\ Show(pushed.out, <<>>)
           /\ UNCHANGED <<pc, recent, fillerAudio>>
  <2>1. Running /\ Running' /\ ~Filling /\ ~Filling' /\ ~Ending /\ ~Ending'
    <3>1. \A r \in Sockets : pc[r] \in InTurn => r = s
      BY <1>0 DEF Locks, Holder
    <3> QED
      BY <1>0, <1>5, <3>1 DEF Running, Filling, Ending, InTurn
  <2>2. queue' = queue \o pushed.out
    <3>1. queue \o pushed.out \in Seq(Texts)
      BY <1>2, PiecesAreTexts, ConcatProperties DEF Data
    <3> QED
      BY <1>5, <3>1, NothingMore DEF Show
  <2>3. response' \in Seq(Texts)
    BY <1>5, DeltasAreTexts, AppendProperties DEF Data
  <2>4. fillerAudio' \in BOOLEAN /\ shown' = shown \o pushed.out /\ UNCHANGED workerVars
    BY <1>5 DEF Data, Show, workerVars
  <2>6. \E before \in Seq(Texts), e \in Texts :
          /\ before = response /\ response' = Append(before, e)
          /\ Ink(pushed.out, chunker'.buf) = Chunks!Bare(chunker.buf) \o Chunks!Bare(e)
    <3>1. response \in Seq(Texts) /\ d \in Texts
      BY DeltasAreTexts DEF Data
    <3>2. Ink(pushed.out, chunker'.buf) = Chunks!Bare(chunker.buf) \o Chunks!Bare(d)
      BY <1>5, <1>6
    <3> QED
      BY <1>5, <3>1, <3>2
  <2>5. Says(pushed.out)
    BY <1>2, <1>5, <2>1, <2>2, <2>3, <2>4, <2>6 DEF Says
  <2> QED
    BY <1>2, <2>5 DEF Talking
<1> QED
  BY <1>3, <1>4, <1>5

\* After the filler, the delta is.
LEMMA FillerTalks ==
  ASSUME Control, Locks, Data, NEW s \in Sockets, FillerReady(s)
  PROVE  Talking
<1>0. pc[s] = "filler" /\ pc[s] \in InTurn /\ Holder(s)
  BY DEF FillerReady, Locks, InTurn
<1> DEFINE d == response[Len(response)]
           pushed == Chunks!Push(chunker, d)
<1>1. d \in Texts
  <2>1. response # <<>>
    BY <1>0 DEF Data, Filling
  <2>2. Len(response) \in 1..Len(response)
    BY <2>1, EmptySeq DEF Data
  <2> QED
    BY <2>2, ElementOfSeq DEF Data
<1>2. pushed.out \in Seq(Pieces) /\ pushed.chunker \in Keeping
  BY <1>1, PushIs DEF Data
<1>6. Ink(pushed.out, pushed.chunker.buf) = Chunks!Bare(chunker.buf) \o Chunks!Bare(d)
  <2>1. chunker \in Keeping
    BY DEF Data
  <2> HIDE DEF d
  <2> QED
    BY <1>1, <2>1, PushInk
<1>7. \E before \in Seq(Texts), e \in Texts : response = Append(before, e) /\ d = e
  <2>1. response # <<>> /\ response \in Seq(Texts)
    BY <1>0 DEF Data, Filling
  <2> QED
    BY <2>1, LastOne
<1>3. \/ /\ fillerAudio' = TRUE
         /\ chunker' = pushed.chunker
         /\ Show(pushed.out, <<>>)
         /\ GoTo(s, "next")
         /\ UNCHANGED response
      \/ SendRaises(s)
  BY DEF FillerReady
<1> HIDE DEF pushed
<1>4. CASE SendRaises(s)
  BY <1>0, <1>4, TurnEnds DEF SendRaises, Abort, Talking
<1>5. CASE /\ fillerAudio' = TRUE
           /\ chunker' = pushed.chunker
           /\ Show(pushed.out, <<>>)
           /\ GoTo(s, "next")
           /\ UNCHANGED response
  <2>1. Running /\ Running' /\ Filling /\ ~Filling' /\ ~Ending /\ ~Ending'
    <3>1. "next" \in InTurn
      BY DEF InTurn
    <3> QED
      BY <1>0, <1>5, <3>1, TurnMoves DEF GoTo, Filling
  <2>2. queue' = queue \o pushed.out
    <3>1. queue \o pushed.out \in Seq(Texts)
      BY <1>2, PiecesAreTexts, ConcatProperties DEF Data
    <3> QED
      BY <1>5, <3>1, NothingMore DEF Show
  <2>3. response' \in Seq(Texts) /\ fillerAudio' \in BOOLEAN
    BY <1>5 DEF Data
  <2>4. shown' = shown \o pushed.out /\ UNCHANGED workerVars
    BY <1>5 DEF Show, workerVars
  <2>6. \E before \in Seq(Texts), e \in Texts :
          /\ response = Append(before, e) /\ UNCHANGED response
          /\ Ink(pushed.out, chunker'.buf) = Chunks!Bare(chunker.buf) \o Chunks!Bare(e)
    <3>1. PICK before \in Seq(Texts), e \in Texts : response = Append(before, e) /\ d = e
      BY <1>7
    <3>2. Ink(pushed.out, chunker'.buf) = Chunks!Bare(chunker.buf) \o Chunks!Bare(d)
      BY <1>5, <1>6
    <3> QED
      BY <1>5, <3>1, <3>2
  <2>5. Says(pushed.out)
    BY <1>2, <1>5, <2>1, <2>2, <2>3, <2>4, <2>6 DEF Says
  <2> QED
    BY <1>2, <2>5 DEF Talking
<1> QED
  BY <1>3, <1>4, <1>5

\* At the end, what is left is.
LEMMA EndTalks ==
  ASSUME Control, Locks, Data, NEW s \in Sockets, EndOfReply(s)
  PROVE  Talking
<1>0. pc[s] = "next" /\ pc[s] \in InTurn /\ Holder(s)
  BY DEF EndOfReply, Locks, InTurn
<1> DEFINE left == Chunks!Flushed(chunker)
           tail == IF left = <<>> THEN <<>> ELSE <<left>>
<1>1. tail \in Seq(Pieces)
  <2>1. left \in Texts
    BY FlushedIs DEF Data
  <2>2. left # <<>> => left \in Pieces
    BY <2>1 DEF Pieces
  <2> HIDE DEF left
  <2> QED
    BY <2>2
<1>2. \/ /\ chunker' = [chunker EXCEPT !.buf = <<>>]
         /\ Show(tail, <<EndMark>>)
         /\ GoTo(s, "join")
         /\ UNCHANGED <<response, recent, fillerAudio>>
      \/ SendRaises(s)
  BY DEF EndOfReply
<1>5. Ink(tail, <<>>) = Chunks!Bare(chunker.buf)
  <2>1. chunker \in Keeping
    BY DEF Data
  <2>2. left \in Texts /\ Chunks!Bare(left) = Chunks!Bare(chunker.buf)
    BY <2>1, FlushedIs, FlushedInk
  <2>3. tail = IF left = <<>> THEN <<>> ELSE <<left>>
    OBVIOUS
  <2> HIDE DEF left, tail
  <2>4. Ink(IF left = <<>> THEN <<>> ELSE <<left>>, <<>>) = Chunks!Bare(left)
    BY <2>2, InkOfTail
  <2> QED
    BY <2>2, <2>3, <2>4
<1> HIDE DEF tail
<1>3. CASE SendRaises(s)
  BY <1>0, <1>3, TurnEnds DEF SendRaises, Abort, Talking
<1>4. CASE /\ chunker' = [chunker EXCEPT !.buf = <<>>]
           /\ Show(tail, <<EndMark>>)
           /\ GoTo(s, "join")
           /\ UNCHANGED <<response, recent, fillerAudio>>
  <2>1. Running /\ Running' /\ ~Filling /\ ~Filling' /\ ~Ending /\ Ending'
    <3>1. "join" \in InTurn
      BY DEF InTurn
    <3>2. ~Filling
      BY <1>0, OneInTurn DEF Filling, InTurn
    <3> QED
      BY <1>0, <1>4, <3>1, <3>2, TurnMoves DEF GoTo
  <2>2. chunker' \in Keeping /\ chunker'.buf = <<>>
    <3>1. <<>> \in Texts /\ chunker \in Keeping
      BY DEF Data, Texts
    <3> QED
      BY <1>4, <3>1 DEF Keeping
  <2>3. shown' = shown \o tail /\ queue' = queue \o tail \o <<EndMark>>
    BY <1>4 DEF Show
  <2>4. UNCHANGED <<response, fillerAudio, workerVars>>
    BY <1>4 DEF Show, workerVars
  <2>5. Closes(tail)
    BY <1>5, <2>1, <2>2, <2>3, <2>4 DEF Closes
  <2> QED
    BY <1>1, <2>5 DEF Talking
<1> QED
  BY <1>2, <1>3, <1>4

\* Every step is one of these.
LEMMA TalkingStep ==
  ASSUME Control, Locks, Data, [Next]_vars
  PROVE  Talking
<1> USE DEF GoTo, Labels, InTurn
<1>r. ASSUME NEW s \in Sockets, Refuse(s), pc[s] \notin InTurn PROVE GoesOn
  BY <1>r, OutsideTurn DEF Refuse
<1>p. ASSUME NEW s \in Sockets, NEW label \in Labels \ InTurn, Proceed(s, label),
             pc[s] \notin InTurn
      PROVE  GoesOn
  BY <1>p, OutsideTurn DEF Proceed
<1>1. ASSUME NEW s \in Sockets, Connect(s) PROVE GoesOn
  BY <1>1, OutsideTurn DEF Connect
<1>2. ASSUME NEW s \in Sockets, Leave(s) PROVE GoesOn
  BY <1>2, NobodyMoves DEF Leave
<1>3. ASSUME NEW s \in Sockets, Disconnect(s) PROVE GoesOn
  BY <1>3, OutsideTurn DEF Disconnect
<1>4. ASSUME NEW s \in Sockets, Chat(s) PROVE GoesOn
  BY <1>4, OutsideTurn DEF Chat, Frame
<1>5. ASSUME NEW s \in Sockets, Mic(s) PROVE GoesOn
  BY <1>5, NobodyMoves DEF Mic
<1>6. ASSUME NEW s \in Sockets, Audio(s) PROVE GoesOn
  BY <1>6, OutsideTurn, NobodyMoves DEF Audio, Frame
<1>7. ASSUME NEW s \in Sockets, Vad(s) PROVE GoesOn
  BY <1>7, <1>r, <1>p DEF Vad
<1>8. ASSUME NEW s \in Sockets, Gate(s) PROVE GoesOn
  BY <1>8, <1>r, <1>p DEF Gate
<1>9. ASSUME NEW s \in Sockets, Transcribe(s) PROVE GoesOn
  BY <1>9, <1>r, <1>p DEF Transcribe
<1>10. ASSUME NEW s \in Sockets, Begin(s) PROVE Starts \/ Stops
  <2>1. pc[s] = "lock" /\ Holder(s) /\ ~Running
    BY <1>10 DEF Begin, Locks, Holder, Running
  <2>2. CASE Abort(s)
    BY <2>1, <2>2, TurnEnds DEF Abort
  <2>3. CASE /\ wpc' = "wait" /\ GoTo(s, "next")
             /\ UNCHANGED <<response, chunker, queue, hand, sawEnd, firstAudio, fillerAudio,
                            firstChunk, shown, handled>>
    <3>1. \A r \in Sockets : pc'[r] = IF r = s THEN "next" ELSE pc[r]
      BY <2>3 DEF Control
    <3>2. \A r \in Sockets : pc[r] \notin InTurn
      BY <2>1 DEF Running
    <3>3. Running' /\ ~Filling' /\ ~Ending'
      BY <3>1, <3>2 DEF Running, Filling, Ending
    <3> QED
      BY <2>1, <2>3, <3>3 DEF Starts
  <2> QED
    BY <1>10, <2>2, <2>3 DEF Begin
<1>11. ASSUME NEW s \in Sockets, SlowDelta(s) PROVE Slows
  <2>1. Running /\ Running' /\ ~Ending /\ ~Ending' /\ Filling'
    BY <1>11, TurnMoves DEF SlowDelta
  <2>4. ~Filling
    BY <1>11, OneInTurn DEF SlowDelta, Filling
  <2>2. PICK d \in Deltas : response' = Append(response, d)
    BY <1>11 DEF SlowDelta
  <2>3. response' \in Seq(Texts) \ {<<>>}
    BY <2>2, DeltasAreTexts, AppendProperties DEF Data
  <2>5. \E e \in Texts : response' = Append(response, e)
    BY <2>2, DeltasAreTexts
  <2> QED
    BY <1>11, <2>1, <2>3, <2>4, <2>5 DEF SlowDelta, Slows, workerVars
<1>12. ASSUME NEW s \in Sockets, PipelineRaises(s) PROVE Stops
  BY <1>12, TurnEnds DEF PipelineRaises, Abort, Locks
<1>13. ASSUME NEW s \in Sockets, Join(s) PROVE Stops
  BY <1>13, TurnEnds DEF Join, Finish, SendRaises, Abort, Locks
<1>14. ASSUME Worker PROVE Works
  BY <1>14 DEF Worker, Take, TakeEnd, Skip, Speak, Works
<1>15. ASSUME Orphan \/ HoldoffOver PROVE GoesOn
  BY <1>15, NobodyMoves DEF Orphan, HoldoffOver
<1>16. CASE UNCHANGED vars
  BY <1>16, NobodyMoves DEF vars, turnVars, Talking
<1> QED
  BY <1>1, <1>2, <1>3, <1>4, <1>5, <1>6, <1>7, <1>8, <1>9, <1>10, <1>11, <1>12, <1>13,
     <1>14, <1>15, <1>16, DeltaTalks, FillerTalks, EndTalks DEF Next, Task, Due, Talking

-----------------------------------------------------------------------------
(***************************************************************************)
(* What is written is what was yielded: the pieces shown and the text the  *)
(* chunker holds have the ink of the deltas, the last one excepted while a *)
(* filler is fetched for it; and nothing is held once the reply has ended. *)
(***************************************************************************)
Written ==
  /\ ~Filling => Ink(shown, chunker.buf) = Chunks!Bare(Chunks!Flat(response))
  /\ Filling => \E before \in Seq(Texts), d \in Texts :
                  /\ response = Append(before, d)
                  /\ Ink(shown, chunker.buf) = Chunks!Bare(Chunks!Flat(before))
  /\ Ending => chunker.buf = <<>>

\* Nothing is the ink of nothing.
LEMMA NothingWritten == Ink(<<>>, <<>>) = Chunks!Bare(Chunks!Flat(<<>>))
<1>1. <<>> \in Texts
  BY DEF Texts
<1>2. Ink(<<>>, <<>>) = Chunks!Bare(<<>>)
  BY <1>1, InkSingle
<1> QED
  BY <1>2, FlatSmall

\* The ink of texts and one more is that of the texts, and of the one.
LEMMA OneMore ==
  ASSUME NEW s \in Seq(Texts), NEW d \in Texts
  PROVE  Chunks!Bare(Chunks!Flat(Append(s, d))) = Chunks!Bare(Chunks!Flat(s)) \o Chunks!Bare(d)
<1>1. <<d>> \in Seq(Texts)
  BY Single
<1>2. Append(s, d) = s \o <<d>>
  BY AppendIsConcat
<1>3. Chunks!Bare(Chunks!Flat(s \o <<d>>))
        = Chunks!Bare(Chunks!Flat(s)) \o Chunks!Bare(Chunks!Flat(<<d>>))
  BY <1>1, InkJoins
<1> QED
  BY <1>2, <1>3, FlatSmall

\* The ink of texts, of the text held and of a delta, joined in either order.
LEMMA InkAssociates ==
  ASSUME NEW s \in Seq(Texts), NEW x \in Texts, NEW d \in Texts
  PROVE  (Chunks!Bare(Chunks!Flat(s)) \o Chunks!Bare(x)) \o Chunks!Bare(d)
           = Chunks!Bare(Chunks!Flat(s)) \o (Chunks!Bare(x) \o Chunks!Bare(d))
<1> DEFINE a == Chunks!Bare(Chunks!Flat(s))
           b == Chunks!Bare(x)
           c == Chunks!Bare(d)
<1>1. a \in Texts /\ b \in Texts /\ c \in Texts
  BY InkJoins, BareIs
<1> HIDE DEF a, b, c
<1>2. \A u, v, w \in Texts : (u \o v) \o w = u \o (v \o w)
  BY TextsAssociate
<1>3. (a \o b) \o c = a \o (b \o c)
  BY <1>1, <1>2, SMTT(60)
<1> QED
  BY <1>3 DEF a, b, c

\* s and the text x behind it have the ink of r; p and y that of x and d.
HasInk(s, x, r) == Ink(s, x) = Chunks!Bare(Chunks!Flat(r))
MoreInk(p, y, x, d) == Ink(p, y) = Chunks!Bare(x) \o Chunks!Bare(d)

\* Pieces shown for a delta are written like that delta.
LEMMA InkGrows ==
  ASSUME NEW s \in Seq(Texts), NEW p \in Seq(Texts), NEW x \in Texts, NEW y \in Texts,
         NEW before \in Seq(Texts), NEW d \in Texts,
         HasInk(s, x, before), MoreInk(p, y, x, d)
  PROVE  HasInk(s \o p, y, Append(before, d))
<1> DEFINE a == Chunks!Bare(Chunks!Flat(s))
           b == Chunks!Bare(x)
           c == Chunks!Bare(d)
           e == Chunks!Bare(Chunks!Flat(before))
<1>1. (a \o b) \o c = a \o (b \o c)
  BY InkAssociates
<1>2. Ink(s \o p, y) = a \o Ink(p, y)
  BY InkFront, Zenon
<1>3. Ink(s, x) = a \o b
  BY DEF Ink
<1>4. Chunks!Bare(Chunks!Flat(Append(before, d))) = e \o c
  BY OneMore, Zenon
<1> HIDE DEF a, b, c, e
<1>5. Ink(p, y) = b \o c /\ Ink(s, x) = e
  BY DEF b, c, e, MoreInk, HasInk
<1>6. Ink(s \o p, y) = e \o c
  BY <1>1, <1>2, <1>3, <1>5, Zenon
<1> QED
  BY <1>4, <1>6, Zenon DEF HasInk

\* The pieces flushed have the ink of the text held.
LEMMA InkFlushed ==
  ASSUME NEW s \in Seq(Texts), NEW p \in Seq(Texts), NEW x \in Texts,
         Ink(p, <<>>) = Chunks!Bare(x)
  PROVE  Ink(s \o p, <<>>) = Ink(s, x)
<1>1. <<>> \in Texts
  BY DEF Texts
<1> QED
  BY <1>1, InkMoves

\* Every step keeps what is written.
LEMMA WrittenStep ==
  ASSUME Data, Written, Talking
  PROVE  Written'
<1>0. /\ shown \in Seq(Texts) /\ chunker.buf \in Texts /\ response \in Seq(Texts)
  BY PiecesAreTexts DEF Data, Keeping
<1>1. CASE GoesOn
  BY <1>1 DEF GoesOn, turnVars, Written
<1>2. CASE Starts
  <2>1. ~Filling /\ ~Filling' /\ ~Ending' /\ UNCHANGED <<response, chunker, shown>>
    BY <1>2 DEF Starts, Running, Filling, InTurn
  <2> QED
    BY <2>1 DEF Written
<1>3. CASE Slows
  <2>1. /\ ~Filling /\ ~Ending' /\ UNCHANGED <<chunker, shown>>
        /\ \E d \in Texts : response' = Append(response, d)
    BY <1>3 DEF Slows
  <2>2. Filling'
    BY <1>3 DEF Slows
  <2>3. \E before \in Seq(Texts), d \in Texts :
          /\ response' = Append(before, d)
          /\ Ink(shown, chunker.buf) = Chunks!Bare(Chunks!Flat(before))
    BY <1>0, <2>1 DEF Written
  <2> QED
    BY <2>1, <2>2, <2>3 DEF Written
<1>4. CASE Stops
  <2>1. response' = <<>> /\ shown' = <<>> /\ chunker'.buf = <<>>
    BY <1>4 DEF Stops, NoTurn, Chunks!EmptyChunker
  <2> QED
    BY <1>4, <2>1, NothingWritten DEF Stops, Written
<1>5. CASE Works
  <2>1. UNCHANGED <<response, chunker, shown, pc>>
    BY <1>5 DEF Works, Worker, Take, TakeEnd, Skip, Speak
  <2> QED
    BY <2>1 DEF Written, Filling, Ending
<1>6. ASSUME NEW pieces \in Seq(Pieces), Says(pieces) PROVE Written'
  <2>1. PICK before \in Seq(Texts), d \in Texts :
          /\ IF Filling THEN response = Append(before, d) /\ UNCHANGED response
             ELSE before = response /\ response' = Append(before, d)
          /\ Ink(pieces, chunker'.buf) = Chunks!Bare(chunker.buf) \o Chunks!Bare(d)
    BY <1>6 DEF Says
  <2>2. response' = Append(before, d)
    BY <2>1
  <2>3. Ink(shown, chunker.buf) = Chunks!Bare(Chunks!Flat(before))
    <3>1. CASE ~Filling
      BY <2>1, <3>1 DEF Written
    <3>2. CASE Filling
      <4>1. PICK r \in Seq(Texts), e \in Texts :
              /\ response = Append(r, e)
              /\ Ink(shown, chunker.buf) = Chunks!Bare(Chunks!Flat(r))
        BY <3>2 DEF Written
      <4>2. response = Append(before, d)
        BY <2>1, <3>2
      <4>3. r = before
        <5>1. Append(r, e) = Append(before, d)
          BY <4>1, <4>2
        <5>2. r \in Seq(Texts) /\ before \in Seq(Texts) /\ e \in Texts /\ d \in Texts
          BY <2>1, <4>1
        <5> QED
          BY <5>1, <5>2, SameBefore
      <4> QED
        BY <4>1, <4>3
    <3> QED
      BY <3>1, <3>2
  <2>4. pieces \in Seq(Texts) /\ chunker'.buf \in Texts /\ shown' = shown \o pieces
        /\ ~Filling' /\ ~Ending'
    BY <1>6, PiecesAreTexts DEF Says, Keeping
  <2> DEFINE x == chunker.buf
             y == chunker'.buf
  <2>5. Ink(shown \o pieces, y) = Chunks!Bare(Chunks!Flat(Append(before, d)))
    <3>1. x \in Texts /\ y \in Texts
      BY <1>0, <2>4
    <3>2. shown \in Seq(Texts) /\ pieces \in Seq(Texts)
      BY <1>0, <2>4
    <3>3. Ink(shown, x) = Chunks!Bare(Chunks!Flat(before))
      BY <2>3
    <3>4. Ink(pieces, y) = Chunks!Bare(x) \o Chunks!Bare(d)
      BY <2>1
    <3>5. before \in Seq(Texts) /\ d \in Texts
      BY <2>1
    <3> DEFINE q == shown
    <3> HIDE DEF x, y, q
    <3>6. q \in Seq(Texts) /\ Ink(q, x) = Chunks!Bare(Chunks!Flat(before))
      BY <3>2, <3>3 DEF q
    <3>7. HasInk(q, x, before) /\ MoreInk(pieces, y, x, d)
      BY <3>4, <3>6 DEF HasInk, MoreInk
    <3>8. HasInk(q \o pieces, y, Append(before, d))
      BY <3>1, <3>2, <3>5, <3>6, <3>7, InkGrows
    <3> QED
      BY <3>8 DEF q, HasInk
  <2> QED
    BY <2>2, <2>4, <2>5 DEF Written
<1>7. ASSUME NEW pieces \in Seq(Pieces), Closes(pieces) PROVE Written'
  <2>1. /\ pieces \in Seq(Texts) /\ shown' = shown \o pieces /\ chunker'.buf = <<>>
        /\ ~Filling /\ ~Filling' /\ UNCHANGED response
        /\ Ink(pieces, <<>>) = Chunks!Bare(chunker.buf)
    BY <1>7, PiecesAreTexts DEF Closes
  <2>2. Ink(shown \o pieces, <<>>) = Ink(shown, chunker.buf)
    BY <1>0, <2>1, InkFlushed
  <2> QED
    BY <2>1, <2>2 DEF Written
<1> QED
  BY <1>1, <1>2, <1>3, <1>4, <1>5, <1>6, <1>7 DEF Talking

-----------------------------------------------------------------------------
(***************************************************************************)
(* What the worker takes: at least one sentence, and no end mark.          *)
(***************************************************************************)
LEMMA MergedIs ==
  ASSUME queue \in Seq(Texts), queue # <<>>, Head(queue) # EndMark, NEW target
  PROVE  /\ Merged(target) \in 1..Len(queue)
         /\ \A i \in 1..Merged(target) : queue[i] # EndMark
<1>1. PICK n \in Nat \ {0} : n = Len(queue)
  BY EmptySeq
<1>2. queue[1] # EndMark
  BY <1>1
<1> DEFINE stop == {k \in 1..n : k = n \/ queue[k + 1] = EndMark \/ ~Short(k, target)}
           ok(k) == /\ \A i \in 1..k : queue[i] # EndMark /\ (i < k => Short(i, target))
                    /\ k = Len(queue) \/ queue[k + 1] = EndMark \/ ~Short(k, target)
<1>3. PICK m \in stop : \A k \in stop : m <= k
  <2>1. stop \in SUBSET Nat
    OBVIOUS
  <2>2. n \in stop
    BY <1>1
  <2> HIDE DEF stop
  <2> QED
    BY <2>1, <2>2, Least
<1>4. m \in 1..n /\ (m = n \/ queue[m + 1] = EndMark \/ ~Short(m, target))
  OBVIOUS
<1>5. \A i \in 1..n : i < m => Short(i, target) /\ queue[i + 1] # EndMark
  <2>1. \A i \in 1..n : i < m => i \notin stop
    BY <1>3, <1>4
  <2> QED
    BY <2>1
<1> HIDE DEF stop
<1>6. ASSUME NEW i \in 1..m PROVE queue[i] # EndMark /\ (i < m => Short(i, target))
  <2>1. i \in 1..n /\ (i < m => Short(i, target))
    BY <1>4, <1>5
  <2>2. CASE i = 1
    BY <1>2, <2>1, <2>2
  <2>3. CASE i # 1
    <3>1. i - 1 \in 1..n /\ i - 1 < m /\ (i - 1) + 1 = i
      BY <1>4, <2>1, <2>3
    <3>2. queue[(i - 1) + 1] # EndMark
      BY <1>5, <3>1
    <3> QED
      BY <2>1, <3>1, <3>2
  <2> QED
    BY <2>2, <2>3
<1>7. ok(m) /\ m \in 1..Len(queue)
  BY <1>1, <1>4, <1>6
<1>8. Merged(target) = CHOOSE k \in 1..Len(queue) : ok(k)
  BY DEF Merged
<1> HIDE DEF ok
<1>9. Merged(target) \in 1..Len(queue) /\ ok(Merged(target))
  BY <1>7, <1>8, Zenon
<1> QED
  BY <1>9 DEF ok

\* The end mark is in no piece.
LEMMA NoMarkInPieces ==
  ASSUME NEW p \in Seq(Pieces), NEW i \in 1..Len(p)
  PROVE  p[i] # EndMark /\ p[i] \in Texts
<1>1. p[i] \in Pieces
  BY ElementOfSeq
<1> QED
  BY <1>1 DEF Pieces, EndMark

-----------------------------------------------------------------------------
(***************************************************************************)
(* Between the turn and its worker.                                        *)
(***************************************************************************)
\* The end mark is in the queue.
Marked == Ending /\ ~sawEnd /\ wpc # "done"

ToSpeak == Rest(shown, handled + hand)

\* What is shown and not yet spoken is in the worker's hand and in its queue; the end
\* mark follows it, once the reply has ended and until the worker has seen it.
Speech ==
  /\ wpc = "none" => NoTurn
  /\ wpc # "none" <=> Running
  /\ handled + hand <= Len(shown)
  /\ wpc \in {"synth", "failed"} <=> hand # 0
  /\ sawEnd => wpc \in {"synth", "failed"}
  /\ sawEnd \/ wpc = "done" => Ending /\ handled + hand = Len(shown)
  /\ queue = IF Marked THEN Append(ToSpeak, EndMark) ELSE ToSpeak

\* Nothing to speak of what is shown, where everything is in hand or spoken.
LEMMA ToSpeakIs ==
  ASSUME Data, handled + hand <= Len(shown)
  PROVE  /\ ToSpeak \in Seq(Pieces) /\ ToSpeak \in Seq(Texts)
         /\ Len(ToSpeak) = Len(shown) - (handled + hand)
         /\ ToSpeak = <<>> <=> handled + hand = Len(shown)
<1>1. handled + hand \in Nat /\ shown \in Seq(Pieces)
  BY DEF Data
<1> QED
  BY <1>1, RestIs, RestEmpty, PiecesAreTexts DEF ToSpeak

\* A turn that starts has said nothing.
LEMMA SpeechStarts ==
  ASSUME Data, Speech, Starts
  PROVE  Speech'
<1>1. NoTurn
  BY DEF Speech, Starts
<1>2. shown' = <<>> /\ queue' = <<>> /\ hand' = 0 /\ handled' = 0 /\ sawEnd' = FALSE
  BY <1>1 DEF NoTurn, Starts
<1>3. Len(<<>>) = 0 /\ Rest(<<>>, 0 + 0) = <<>>
  BY RestOfNothing
<1>4. ToSpeak' = <<>> /\ ~Marked'
  BY <1>2, <1>3 DEF ToSpeak, Marked, Starts
<1> QED
  BY <1>2, <1>3, <1>4 DEF Speech, Starts

\* What is said is queued.
LEMMA SpeechSaid ==
  ASSUME Data, Speech, NEW pieces \in Seq(Pieces), Says(pieces)
  PROVE  Speech'
<1>1. ~sawEnd /\ wpc # "done" /\ wpc # "none" /\ ~Marked
  BY DEF Speech, Says, Marked
<1>2. handled + hand \in Nat /\ shown \in Seq(Pieces)
  BY DEF Data
<1>3. /\ handled + hand <= Len(shown \o pieces)
      /\ Rest(shown \o pieces, handled + hand) = ToSpeak \o pieces
  BY <1>2, RestGrows DEF Speech, ToSpeak
<1>4. handled' + hand' = handled + hand /\ shown' = shown \o pieces /\ queue' = queue \o pieces
      /\ UNCHANGED <<wpc, hand, sawEnd>> /\ Running' /\ ~Marked' /\ ~Ending'
  BY DEF Says, workerVars, Marked
<1>5. queue' = ToSpeak'
  BY <1>1, <1>3, <1>4 DEF Speech, ToSpeak
<1> QED
  BY <1>1, <1>3, <1>4, <1>5 DEF Speech

\* The end mark follows what is shown.
LEMMA SpeechCloses ==
  ASSUME Data, Speech, NEW pieces \in Seq(Pieces), Closes(pieces)
  PROVE  Speech'
<1>1. ~sawEnd /\ wpc # "done" /\ wpc # "none" /\ ~Marked
  BY DEF Speech, Closes, Marked
<1>2. handled + hand \in Nat /\ shown \in Seq(Pieces)
  BY DEF Data
<1>3. /\ handled + hand <= Len(shown \o pieces)
      /\ Rest(shown \o pieces, handled + hand) = ToSpeak \o pieces
  BY <1>2, RestGrows DEF Speech, ToSpeak
<1>4. /\ handled' + hand' = handled + hand /\ shown' = shown \o pieces
      /\ queue' = queue \o pieces \o <<EndMark>>
      /\ UNCHANGED <<wpc, hand, sawEnd>> /\ Running' /\ Ending'
  BY DEF Closes, workerVars
<1>5. ToSpeak' = ToSpeak \o pieces /\ Marked'
  BY <1>1, <1>3, <1>4 DEF ToSpeak, Marked
<1>6. queue' = Append(ToSpeak \o pieces, EndMark)
  <2>1. ToSpeak \o pieces \in Seq(Texts)
    <3>1. ToSpeak \in Seq(Texts) /\ pieces \in Seq(Texts)
      BY ToSpeakIs, PiecesAreTexts DEF Speech
    <3> QED
      BY <3>1, ConcatProperties
  <2>2. EndMark \in Texts
    BY DEF EndMark, Texts
  <2>3. Append(ToSpeak \o pieces, EndMark) = ToSpeak \o pieces \o <<EndMark>>
    BY <2>1, <2>2, AppendIsConcat
  <2> QED
    BY <1>1, <1>4, <2>3 DEF Speech
<1> QED
  BY <1>1, <1>3, <1>4, <1>5, <1>6 DEF Speech

\* What the worker takes from the queue it has in hand.
LEMMA SpeechTaken ==
  ASSUME Data, Speech, Take, UNCHANGED pc
  PROVE  Speech' /\ queue' \in Seq(Texts) /\ hand' \in Nat /\ sawEnd' \in BOOLEAN
<1>1. wpc = "wait" /\ queue # <<>> /\ Head(queue) # EndMark /\ wpc' = "synth"
  BY DEF Take
<1>2. hand = 0 /\ ~sawEnd /\ Running /\ Running'
  BY <1>1 DEF Speech, Running
<1> DEFINE n == Merged(Target)
           L == Len(ToSpeak)
<1>3. n \in 1..Len(queue) /\ \A i \in 1..n : queue[i] # EndMark
  BY <1>1, MergedIs DEF Data
<1>4. /\ hand' = n /\ sawEnd' = EndFollows(n)
      /\ queue' = SubSeq(queue, IF EndFollows(n) THEN n + 2 ELSE n + 1, Len(queue))
      /\ UNCHANGED <<shown, handled>>
  BY DEF Take
<1> HIDE DEF n
<1>5. PICK k \in Nat : k = handled /\ k + hand = k
  BY <1>2 DEF Data
<1>6. /\ ToSpeak = Rest(shown, k) /\ ToSpeak \in Seq(Pieces) /\ ToSpeak \in Seq(Texts)
      /\ shown \in Seq(Pieces) /\ k <= Len(shown) /\ L = Len(shown) - k /\ L \in Nat
  <2>1. handled + hand = k /\ handled + hand <= Len(shown) /\ shown \in Seq(Pieces)
    BY <1>5 DEF Speech, Data
  <2>2. Len(ToSpeak) \in Nat
    BY <2>1, ToSpeakIs, LenProperties
  <2> QED
    BY <2>1, <2>2, ToSpeakIs DEF ToSpeak
<1>7. EndMark \in Texts
  BY DEF EndMark, Texts
<1>8. CASE Marked
  <2>1. queue = Append(ToSpeak, EndMark)
    BY <1>8 DEF Speech
  <2>2. /\ Len(queue) = L + 1 /\ queue[L + 1] = EndMark
        /\ \A i \in 1..L : queue[i] = ToSpeak[i]
    BY <1>6, <1>7, <2>1, AppendProperties
  <2> HIDE DEF L
  <2>3. n \in Nat /\ n <= L /\ n # 0
    <3>1. n \in 1..(L + 1) /\ n \in 1..n
      BY <1>3, <2>2
    <3>2. n # L + 1
      BY <1>3, <2>2, <3>1
    <3> QED
      BY <1>6, <3>1, <3>2
  <2>4. k + n <= Len(shown) /\ Rest(ToSpeak, n) = Rest(shown, k + n)
    BY <1>6, <2>3, RestOfRest DEF L
  <2>5. ASSUME EndFollows(n) PROVE n = L
    <3>1. n + 1 \in 1..(L + 1) /\ queue[n + 1] = EndMark
      BY <1>6, <2>2, <2>3, <2>5 DEF EndFollows
    <3>2. n + 1 \notin 1..L
      <4>1. \A i \in 1..L : queue[i] # EndMark
        BY <1>6, <2>2, NoMarkInPieces DEF L
      <4> QED
        BY <3>1, <4>1
    <3> QED
      BY <1>6, <2>3, <3>2
  <2>6. CASE EndFollows(n)
    <3>1. sawEnd' /\ ~Marked'
      BY <1>4, <2>6 DEF Marked
    <3>2. k + n = Len(shown) /\ Rest(shown, k + n) = <<>>
      <4>1. k + n = Len(shown)
        BY <1>6, <2>3, <2>5, <2>6 DEF L
      <4> QED
        BY <1>6, <2>3, <4>1, RestEmpty
    <3>3. queue' = <<>>
      <4>1. queue' = SubSeq(queue, n + 2, n + 1)
        BY <1>4, <2>2, <2>5, <2>6
      <4>2. n + 2 \in Int /\ n + 1 \in Int /\ n + 1 < n + 2
        BY <2>3
      <4> QED
        BY <4>1, <4>2, SubSeqEmpty
    <3>4. ToSpeak' = <<>>
      BY <1>4, <1>5, <3>2 DEF ToSpeak
    <3>5. Ending' /\ handled' + hand' = Len(shown')
      BY <1>4, <1>5, <1>8, <3>2 DEF Marked, Ending
    <3>6. <<>> \in Seq(Texts) /\ Len(shown) <= Len(shown)
      BY <1>6
    <3> QED
      BY <1>1, <1>2, <1>4, <2>3, <3>1, <3>3, <3>4, <3>5, <3>6 DEF Speech
  <2>7. CASE ~EndFollows(n)
    <3>0. sawEnd' = FALSE
      BY <1>4, <2>7 DEF EndFollows
    <3>1. ~sawEnd' /\ sawEnd' \in BOOLEAN /\ Marked'
      BY <1>1, <1>8, <3>0 DEF Marked, Ending
    <3>2. queue' = Append(Rest(shown, k + n), EndMark)
      <4>1. queue' = Rest(queue, n)
        BY <1>4, <2>7 DEF Rest
      <4>2. Rest(Append(ToSpeak, EndMark), n) = Append(Rest(ToSpeak, n), EndMark)
        BY <1>6, <1>7, <2>3, RestOfMarked DEF L
      <4> QED
        BY <2>1, <2>4, <4>1, <4>2
    <3>3. ToSpeak' = Rest(shown, k + n) /\ handled' + hand' = k + n
      BY <1>4, <1>5 DEF ToSpeak
    <3>4. queue' \in Seq(Texts)
      <4>1. Rest(shown, k + n) \in Seq(Texts)
        <5>1. k + n \in Nat
          BY <2>3
        <5> QED
          BY <1>6, <2>4, <5>1, RestIs, PiecesAreTexts
      <4> QED
        BY <1>7, <3>2, <4>1, AppendProperties
    <3> QED
      BY <1>1, <1>2, <1>4, <2>3, <2>4, <3>1, <3>2, <3>3, <3>4 DEF Speech
  <2> QED
    BY <2>6, <2>7
<1>9. CASE ~Marked
  <2>1. queue = ToSpeak /\ ~Ending
    BY <1>1, <1>2, <1>9 DEF Speech, Marked
  <2>2. n \in Nat /\ n <= L /\ n # 0
    BY <1>3, <1>6, <2>1
  <2>3. k + n <= Len(shown) /\ Rest(ToSpeak, n) = Rest(shown, k + n)
    BY <1>6, <2>2, RestOfRest
  <2>4. ~EndFollows(n)
    <3>1. \A i \in 1..Len(queue) : queue[i] # EndMark
      BY <1>6, <2>1, NoMarkInPieces
    <3>2. n < Len(queue) => n + 1 \in 1..Len(queue)
      BY <1>6, <2>1, <2>2
    <3> QED
      BY <3>1, <3>2 DEF EndFollows
  <2>5. queue' = Rest(shown, k + n)
    BY <1>4, <2>1, <2>3, <2>4 DEF Rest
  <2>6. ToSpeak' = Rest(shown, k + n) /\ handled' + hand' = k + n
    BY <1>4, <1>5 DEF ToSpeak
  <2>7. ~sawEnd' /\ sawEnd' \in BOOLEAN /\ ~Marked'
    <3>1. sawEnd' = FALSE
      BY <1>4, <2>4 DEF EndFollows
    <3> QED
      BY <2>1, <3>1 DEF Marked, Ending
  <2>8. queue' \in Seq(Texts)
    <3>1. k + n \in Nat
      BY <2>2
    <3> QED
      BY <1>6, <2>3, <2>5, <3>1, RestIs, PiecesAreTexts
  <2> QED
    BY <1>1, <1>2, <1>4, <2>2, <2>3, <2>5, <2>6, <2>7, <2>8 DEF Speech
<1> QED
  BY <1>8, <1>9

\* When the end mark is first in the queue, everything was spoken.
LEMMA SpeechEnds ==
  ASSUME Data, Speech, TakeEnd, UNCHANGED pc
  PROVE  Speech' /\ queue' \in Seq(Texts)
<1>1. /\ wpc = "wait" /\ queue # <<>> /\ Head(queue) = EndMark /\ wpc' = "done"
      /\ queue' = Tail(queue) /\ UNCHANGED <<hand, sawEnd, handled, shown>>
  BY DEF TakeEnd
<1>2. hand = 0 /\ ~sawEnd /\ Running /\ Running'
  BY <1>1 DEF Speech, Running
<1>3. ToSpeak \in Seq(Pieces) /\ ToSpeak \in Seq(Texts) /\ EndMark \in Texts
  BY ToSpeakIs DEF Speech, EndMark, Texts
<1>4. ToSpeak # <<>> => Head(ToSpeak) # EndMark
  BY <1>3, HeadTailProperties DEF Pieces, EndMark
<1>5. Marked
  BY <1>1, <1>4 DEF Speech
<1>6. queue = Append(ToSpeak, EndMark)
  BY <1>5 DEF Speech
<1>7. ToSpeak = <<>>
  BY <1>1, <1>3, <1>4, <1>6, HeadTailAppend
<1>8. queue' = <<>>
  BY <1>1, <1>3, <1>6, <1>7, HeadTailAppend
<1>9. handled + hand = Len(shown)
  BY <1>7, ToSpeakIs DEF Speech
<1>10. /\ ToSpeak' = <<>> /\ handled' + hand' = Len(shown') /\ ~Marked' /\ Ending'
  BY <1>1, <1>5, <1>7, <1>9 DEF ToSpeak, Marked, Ending
<1>11. <<>> \in Seq(Texts) /\ handled' + hand' <= Len(shown')
  BY <1>1 DEF Speech
<1> QED
  BY <1>1, <1>2, <1>8, <1>10, <1>11 DEF Speech

\* What was in hand was handled.
LEMMA SpeechHandled ==
  ASSUME Data, Speech, wpc = "synth", HandDone, UNCHANGED <<pc, queue, shown>>
  PROVE  Speech' /\ handled' \in Nat
<1>1. /\ handled' = handled + hand /\ hand' = 0 /\ ~sawEnd'
      /\ wpc' = IF sawEnd THEN "done" ELSE "wait"
  BY DEF HandDone
<1>2. handled \in Nat /\ hand \in Nat /\ Running /\ Running'
  BY DEF Data, Speech, Running
<1>3. handled' + hand' = handled + hand /\ handled' \in Nat
  BY <1>1, <1>2
<1>4. ToSpeak' = ToSpeak /\ (Ending' <=> Ending)
  BY <1>3 DEF ToSpeak, Ending
<1>5. Marked' <=> Marked
  BY <1>1, <1>4 DEF Marked
<1>6. sawEnd => Ending /\ handled + hand = Len(shown)
  BY DEF Speech
<1>7. queue' = IF Marked' THEN Append(ToSpeak', EndMark) ELSE ToSpeak'
  BY <1>4, <1>5 DEF Speech
<1>8. handled' + hand' <= Len(shown')
  BY <1>3 DEF Speech
<1>9. wpc' = "done" => Ending' /\ handled' + hand' = Len(shown')
  BY <1>1, <1>3, <1>4, <1>6
<1>10. wpc' # "none" /\ wpc' \notin {"synth", "failed"}
  BY <1>1
<1> QED
  BY <1>1, <1>2, <1>3, <1>7, <1>8, <1>9, <1>10 DEF Speech

\* A send that fails leaves what is in hand there.
LEMMA SpeechFails ==
  ASSUME Data, Speech, wpc = "synth", wpc' = "failed",
         UNCHANGED <<pc, queue, shown, hand, handled, sawEnd>>
  PROVE  Speech'
<1>1. (Ending' <=> Ending) /\ (Running' <=> Running) /\ ToSpeak' = ToSpeak
  BY DEF Ending, Running, ToSpeak
<1>2. Marked' <=> Marked
  BY <1>1 DEF Marked
<1> QED
  BY <1>1, <1>2 DEF Speech

\* Every step keeps the turn and its worker in agreement.
LEMMA SpeechStep ==
  ASSUME Data, Speech, Talking
  PROVE  Data' /\ Speech'
<1>1. CASE GoesOn
  <2>1. ToSpeak' = ToSpeak /\ (Marked' <=> Marked) /\ (NoTurn' <=> NoTurn)
    BY <1>1 DEF GoesOn, turnVars, ToSpeak, Marked, NoTurn
  <2>2. Speech'
    BY <1>1, <2>1 DEF GoesOn, turnVars, Speech
  <2>3. Data'
    BY <1>1 DEF GoesOn, turnVars, Data
  <2> QED
    BY <2>2, <2>3
<1>2. CASE Starts
  <2>1. Data'
    BY <1>2 DEF Starts, Data
  <2> QED
    BY <1>2, <2>1, SpeechStarts
<1>3. CASE Slows
  <2>1. (Ending' <=> Ending) /\ UNCHANGED <<queue, shown, wpc, hand, sawEnd, handled>>
    BY <1>3 DEF Slows, workerVars
  <2>2. ToSpeak' = ToSpeak /\ (Marked' <=> Marked)
    BY <2>1 DEF ToSpeak, Marked
  <2>3. wpc # "none" /\ Running'
    BY <1>3 DEF Slows, Speech
  <2>4. Speech'
    BY <1>3, <2>1, <2>2, <2>3 DEF Speech
  <2>5. Data'
    BY <1>3 DEF Slows, workerVars, Data
  <2> QED
    BY <2>4, <2>5
<1>4. CASE Stops
  <2>1. /\ response' = <<>> /\ queue' = <<>> /\ shown' = <<>> /\ wpc' = "none"
        /\ hand' = 0 /\ handled' = 0 /\ sawEnd' = FALSE /\ firstAudio' = FALSE
        /\ fillerAudio' = FALSE /\ firstChunk' = FALSE /\ chunker' = Chunks!EmptyChunker
    BY <1>4 DEF Stops, NoTurn
  <2>2. <<>> \in Seq(Texts) /\ <<>> \in Seq(Pieces) /\ <<>> \in Texts /\ Len(<<>>) = 0
    BY DEF Texts
  <2>3. chunker' \in Keeping
    BY <2>1, <2>2 DEF Chunks!EmptyChunker, Keeping
  <2>4. Data'
    BY <1>4, <2>1, <2>2, <2>3 DEF Stops, Data
  <2>5. ToSpeak' = <<>> /\ ~Marked'
    <3>1. Rest(<<>>, 0 + 0) = <<>>
      BY RestOfNothing
    <3> QED
      BY <1>4, <2>1, <3>1 DEF Stops, ToSpeak, Marked
  <2>6. handled' + hand' <= Len(shown')
    BY <2>1, <2>2
  <2> QED
    BY <1>4, <2>1, <2>4, <2>5, <2>6 DEF Stops, Speech
<1>5. CASE Works
  <2>1. wpc # "none" => Running'
    BY <1>5 DEF Works, Speech, Running
  <2>2. CASE Take
    <3>1. Speech' /\ queue' \in Seq(Texts) /\ hand' \in Nat /\ sawEnd' \in BOOLEAN
      BY <1>5, <2>2, SpeechTaken DEF Works
    <3>2. Data'
      BY <1>5, <2>2, <3>1 DEF Works, Take, Data, Filling
    <3> QED
      BY <3>1, <3>2
  <2>3. CASE TakeEnd
    <3>1. Speech' /\ queue' \in Seq(Texts)
      BY <1>5, <2>3, SpeechEnds DEF Works
    <3>2. Data'
      BY <1>5, <2>3, <3>1 DEF Works, TakeEnd, Data, Filling
    <3> QED
      BY <3>1, <3>2
  <2>4. ASSUME wpc = "synth", HandDone,
               UNCHANGED <<queue, shown, response, chunker, fillerAudio>>,
               firstAudio' \in BOOLEAN, firstChunk' \in BOOLEAN
        PROVE  Data' /\ Speech'
    <3>1. Speech' /\ handled' \in Nat
      BY <1>5, <2>4, SpeechHandled DEF Works
    <3>2. Data'
      BY <1>5, <2>4, <3>1 DEF Works, HandDone, Data, Filling
    <3> QED
      BY <3>1, <3>2
  <2>5. CASE Skip
    BY <2>4, <2>5 DEF Skip, Data
  <2>6. CASE Speak
    <3>1. /\ wpc = "synth" /\ firstAudio' \in BOOLEAN /\ firstChunk' \in BOOLEAN
          /\ UNCHANGED <<queue, shown, response, chunker, fillerAudio>>
      BY <2>6 DEF Speak
    <3>2. CASE HandDone
      BY <2>4, <3>1, <3>2
    <3>3. CASE wpc' = "failed" /\ UNCHANGED <<hand, handled, sawEnd>>
      <4>1. Speech'
        BY <1>5, <3>1, <3>3, SpeechFails DEF Works
      <4>2. Data'
        BY <1>5, <3>1, <3>3 DEF Works, Data, Filling
      <4> QED
        BY <4>1, <4>2
    <3> QED
      BY <2>6, <3>2, <3>3 DEF Speak
  <2> QED
    BY <1>5, <2>2, <2>3, <2>5, <2>6 DEF Works, Worker
<1>6. ASSUME NEW pieces \in Seq(Pieces), Says(pieces) PROVE Data' /\ Speech'
  <2>1. shown' \in Seq(Pieces) /\ queue' \in Seq(Texts)
    BY <1>6, PiecesAreTexts, ConcatProperties DEF Says, Data
  <2>2. Data'
    BY <1>6, <2>1 DEF Says, workerVars, Data
  <2> QED
    BY <1>6, <2>2, SpeechSaid
<1>7. ASSUME NEW pieces \in Seq(Pieces), Closes(pieces) PROVE Data' /\ Speech'
  <2>1. shown' \in Seq(Pieces) /\ queue \o pieces \in Seq(Texts)
    BY <1>7, PiecesAreTexts, ConcatProperties DEF Closes, Data
  <2>2. <<EndMark>> \in Seq(Texts)
    BY DEF EndMark, Texts
  <2>3. queue' \in Seq(Texts)
    BY <1>7, <2>1, <2>2, ConcatProperties DEF Closes
  <2>4. Data'
    BY <1>7, <2>1, <2>3 DEF Closes, workerVars, Data
  <2> QED
    BY <1>7, <2>4, SpeechCloses
<1> QED
  BY <1>1, <1>2, <1>3, <1>4, <1>5, <1>6, <1>7 DEF Talking

-----------------------------------------------------------------------------
(***************************************************************************)
(* What is not of a turn keeps its types.                                  *)
(***************************************************************************)
LEMMA AfterIs ==
  ASSUME NEW state \in AvatarStates, NEW target \in AvatarStates
  PROVE  After(state, target) \in AvatarStates
BY DEF After, AvatarStates, Allowed

\* Every action sets them to values they may have.
LEMMA ControlStep ==
  ASSUME Control, Locks, [Next]_vars
  PROVE  Control' /\ Locks'
<1>0. Locks' /\ lock' \in Seq(Sockets) /\ pc' \in [Sockets -> Labels]
  BY LockingStep, LocksStep
<1>1. avatar' \in AvatarStates
  <2>0. avatar \in AvatarStates
    BY DEF Control
  <2>1. \A target \in AvatarStates : Transition(target) => avatar' \in AvatarStates
    BY <2>0, AfterIs DEF Transition
  <2>2. {"idle", "listening", "thinking", "speaking"} \subseteq AvatarStates
    BY DEF AvatarStates
  <2> HIDE DEF Transition, AvatarStates
  <2> USE <2>0, <2>1, <2>2
  <2>3. \A s \in Sockets : Connect(s) \/ Leave(s) \/ Disconnect(s) \/ Chat(s)
                             => avatar' \in AvatarStates
    BY DEF Connect, Leave, Disconnect, Chat, sharedVars
  <2>4. \A s \in Sockets : Mic(s) \/ Audio(s) => avatar' \in AvatarStates
    BY DEF Mic, Audio
  <2>5. \A s \in Sockets : Vad(s) \/ Gate(s) \/ Transcribe(s) => avatar' \in AvatarStates
    BY DEF Vad, Gate, Transcribe, Refuse, Proceed
  <2>6. \A s \in Sockets : Begin(s) => avatar' \in AvatarStates
    BY DEF Begin
  <2>7. \A s \in Sockets : Delta(s) \/ SlowDelta(s) \/ FillerReady(s) \/ EndOfReply(s)
                             => avatar' \in AvatarStates
    BY DEF Delta, SlowDelta, FillerReady, EndOfReply, Show, SendRaises, sharedVars
  <2>8. \A s \in Sockets : Join(s) \/ PipelineRaises(s) => avatar' \in AvatarStates
    BY DEF Join, Finish, PipelineRaises, SendRaises
  <2>9. Worker => avatar' \in AvatarStates
    BY DEF Worker, Take, TakeEnd, Skip, Speak, sharedVars
  <2>10. Orphan \/ HoldoffOver => avatar' \in AvatarStates
    BY AfterIs DEF Orphan, HoldoffOver
  <2>11. UNCHANGED vars => avatar' \in AvatarStates
    BY DEF vars
  <2> QED
    BY <2>3, <2>4, <2>5, <2>6, <2>7, <2>8, <2>9, <2>10, <2>11 DEF Next, Task, Due
<1>2. open' \in [Sockets -> BOOLEAN]
  <2>0. open \in [Sockets -> BOOLEAN]
    BY DEF Control
  <2>1. ASSUME NEW s \in Sockets,
               Connect(s) \/ Leave(s) \/ Disconnect(s) \/ Chat(s) \/ Mic(s) \/ Audio(s)
                 \/ Task(s) \/ PipelineRaises(s)
        PROVE  \/ open' = open
               \/ open' = [open EXCEPT ![s] = TRUE] \/ open' = [open EXCEPT ![s] = FALSE]
    BY <2>1 DEF Connect, Leave, Disconnect, Chat, Mic, Audio, Task, Due, Vad, Gate, Transcribe,
                Refuse, Proceed, Begin, Delta, SlowDelta, FillerReady, EndOfReply, Show, Join,
                Finish, PipelineRaises, SendRaises, Abort
  <2>2. ASSUME Worker \/ Orphan \/ HoldoffOver \/ UNCHANGED vars PROVE open' = open
    BY <2>2 DEF Worker, Take, TakeEnd, Skip, Speak, Orphan, HoldoffOver, vars
  <2> QED
    BY <2>0, <2>1, <2>2 DEF Next
<1>3. recent' \in BOOLEAN /\ alone' \in BOOLEAN /\ mute' \in BOOLEAN
  <2>0. recent \in BOOLEAN /\ alone \in BOOLEAN /\ mute \in BOOLEAN
    BY DEF Control
  <2>1. ASSUME NEW s \in Sockets,
               Connect(s) \/ Leave(s) \/ Disconnect(s) \/ Chat(s) \/ Mic(s) \/ Audio(s)
                 \/ Vad(s) \/ Gate(s) \/ Transcribe(s) \/ Begin(s)
        PROVE  recent' = recent /\ mute' = mute /\ alone' \in BOOLEAN
    BY <2>0, <2>1 DEF Connect, Leave, Disconnect, Chat, Mic, Audio, Vad, Gate, Transcribe,
                Refuse, Proceed, Begin, Abort, sharedVars, ghostVars
  <2>2. ASSUME NEW s \in Sockets,
               Delta(s) \/ SlowDelta(s) \/ FillerReady(s) \/ EndOfReply(s) \/ Join(s)
                 \/ PipelineRaises(s)
        PROVE  recent' \in BOOLEAN /\ mute' = mute /\ alone' = alone
    BY <2>0, <2>2 DEF Delta, SlowDelta, FillerReady, EndOfReply, Show, Join, Finish,
                PipelineRaises, SendRaises, Abort, sharedVars, ghostVars
  <2>3. ASSUME Take \/ TakeEnd \/ Skip \/ Orphan \/ HoldoffOver \/ UNCHANGED vars
        PROVE  recent' \in BOOLEAN /\ mute' = mute /\ alone' = alone
    BY <2>0, <2>3 DEF Take, TakeEnd, Skip, Orphan, HoldoffOver, vars, sharedVars, ghostVars
  <2>4. ASSUME Speak PROVE recent' \in BOOLEAN /\ mute' \in BOOLEAN /\ alone' = alone
    BY <2>0, <2>4 DEF Speak
  <2> QED
    BY <2>0, <2>1, <2>2, <2>3, <2>4 DEF Next, Task, Due, Worker
<1>4. orphans' \in Nat
  <2>0. orphans \in Nat
    BY DEF Control
  <2>1. ASSUME NEW s \in Sockets,
               Connect(s) \/ Leave(s) \/ Disconnect(s) \/ Chat(s) \/ Mic(s) \/ Audio(s)
                 \/ Task(s) \/ PipelineRaises(s)
        PROVE  orphans' = orphans \/ orphans' = orphans + 1
    BY <2>1 DEF Connect, Leave, Disconnect, Chat, Mic, Audio, Task, Due, Vad, Gate, Transcribe,
                Refuse, Proceed, Begin, Delta, SlowDelta, FillerReady, EndOfReply, Show, Join,
                Finish, PipelineRaises, SendRaises, Abort
  <2>2. ASSUME Worker \/ HoldoffOver \/ UNCHANGED vars PROVE orphans' = orphans
    BY <2>2 DEF Worker, Take, TakeEnd, Skip, Speak, HoldoffOver, vars
  <2>3. ASSUME Orphan PROVE orphans' \in Nat
    BY <2>0, <2>3 DEF Orphan
  <2> QED
    BY <2>0, <2>1, <2>2, <2>3 DEF Next
<1>5. connects' \in 0..MaxConnects /\ faults' \in 0..MaxFaults
  <2>0. connects \in 0..MaxConnects /\ faults \in 0..MaxFaults
    BY DEF Control
  <2>1. MaxConnects \in Nat /\ MaxFaults \in Nat
    BY TurnAssumption
  <2>2. ASSUME NEW s \in Sockets, Connect(s)
        PROVE  connects < MaxConnects /\ connects' = connects + 1 /\ faults' = faults
    BY <2>2 DEF Connect
  <2>3. ASSUME NEW s \in Sockets, Leave(s) \/ PipelineRaises(s)
        PROVE  connects' = connects /\ faults < MaxFaults /\ faults' = faults + 1
    BY <2>3 DEF Leave, PipelineRaises, Abort
  <2>4. ASSUME NEW s \in Sockets, Disconnect(s) \/ Chat(s) \/ Mic(s) \/ Audio(s) \/ Task(s)
        PROVE  connects' = connects /\ faults' = faults
    BY <2>4 DEF Disconnect, Chat, Mic, Audio, Task, Due, Vad, Gate, Transcribe,
                Refuse, Proceed, Begin, Delta, SlowDelta, FillerReady, EndOfReply, Show, Join,
                Finish, SendRaises, Abort, boundVars
  <2>5. ASSUME Worker \/ Orphan \/ HoldoffOver \/ UNCHANGED vars
        PROVE  connects' = connects /\ faults' = faults
    BY <2>5 DEF Worker, Take, TakeEnd, Skip, Speak, Orphan, HoldoffOver, vars, boundVars
  <2>6. (connects < MaxConnects => connects + 1 \in 0..MaxConnects)
        /\ (faults < MaxFaults => faults + 1 \in 0..MaxFaults)
    BY <2>0, <2>1
  <2> QED
    BY <2>0, <2>2, <2>3, <2>4, <2>5, <2>6 DEF Next
<1> QED
  BY <1>0, <1>1, <1>2, <1>3, <1>4, <1>5 DEF Control

-----------------------------------------------------------------------------
(***************************************************************************)
(* A client that has the avatar for itself.                                *)
(***************************************************************************)
\* Nobody else is there, and the avatar does as the turn says.
Mine(s) ==
  /\ \A r \in Sockets \ {s} : pc[r] = "off"
  /\ avatar \in {"thinking", "speaking"}
  /\ firstAudio => avatar = "speaking"

InState ==
  /\ mute = FALSE
  /\ \A s \in Sockets : alone /\ pc[s] \in InTurn => Mine(s)

\* Who acts outside a turn is not alone with one, so only the turn and its worker,
\* or one that a dead turn left behind, can change what such a client sees.
LEMMA InStateStep ==
  ASSUME Control, Locks, Data, Speech, InState, [Next]_vars
  PROVE  InState'
<1> USE DEF GoTo, InTurn
<1>0. /\ \A s \in Sockets : pc[s] \in InTurn => Holder(s)
      /\ pc \in [Sockets -> Labels] /\ alone \in BOOLEAN /\ mute = FALSE
      /\ \A s \in Sockets : alone /\ pc[s] \in InTurn => Mine(s)
  BY DEF Locks, Control, InState
\* Who acts outside a turn is not alone with one.
<1>o. ASSUME NEW s \in Sockets, pc[s] # "off", pc[s] \notin InTurn,
             NEW label \in Labels \ InTurn,
             pc' = pc \/ pc' = [pc EXCEPT ![s] = label],
             alone' = alone, mute' = mute
      PROVE  InState'
  <2> SUFFICES ASSUME NEW r \in Sockets, alone', pc'[r] \in InTurn PROVE FALSE
    BY <1>0, <1>o DEF InState
  <2>1. pc[r] \in InTurn /\ r # s
    BY <1>0, <1>o
  <2> QED
    BY <1>0, <1>o, <2>1 DEF Mine
\* Nothing that matters changes.
<1>q. ASSUME UNCHANGED <<pc, avatar, firstAudio, alone, mute>> PROVE InState'
  BY <1>q DEF InState, Mine
\* The turn moves on.
<1>m. ASSUME NEW s \in Sockets, pc[s] \in InTurn, NEW label \in InTurn,
             pc' = [pc EXCEPT ![s] = label], UNCHANGED <<avatar, firstAudio, alone, mute>>
      PROVE  InState'
  <2> SUFFICES ASSUME NEW r \in Sockets, alone', pc'[r] \in InTurn PROVE Mine(r)'
    BY <1>0, <1>m DEF InState
  <2>1. \A q \in Sockets : pc'[q] = IF q = s THEN label ELSE pc[q]
    BY <1>0, <1>m
  <2>2. pc[r] \in InTurn /\ r = s
    BY <1>0, <1>m, <2>1, OneInTurn
  <2>3. Mine(r)
    BY <1>0, <1>m, <2>2
  <2> QED
    BY <1>m, <2>1, <2>2, <2>3 DEF Mine
\* The turn is over.
<1>e. ASSUME NEW s \in Sockets, Holder(s), NEW label \in {"off", "receive"}, EndTurn(s, label),
             mute' = mute
      PROVE  InState'
  <2>1. ~Running'
    BY <1>e, TurnEnds DEF Stops
  <2> QED
    BY <1>0, <1>e, <2>1 DEF InState, Running
<1>a. ASSUME NEW s \in Sockets, Holder(s), Abort(s) PROVE InState'
  BY <1>a, <1>e DEF Abort, ghostVars
<1>1. ASSUME NEW s \in Sockets, Connect(s) PROVE InState'
  <2> SUFFICES ASSUME NEW r \in Sockets, alone', pc'[r] \in InTurn PROVE FALSE
    BY <1>0, <1>1 DEF InState, Connect
  <2>1. pc[r] \in InTurn /\ r # s
    BY <1>0, <1>1 DEF Connect
  <2>2. r \in Others(s)
    BY <2>1 DEF Others
  <2> QED
    BY <1>1, <2>2 DEF Connect
<1>2. ASSUME NEW s \in Sockets, Leave(s) PROVE InState'
  BY <1>2, <1>q DEF Leave, sharedVars, turnVars, ghostVars
<1>3. ASSUME NEW s \in Sockets, Disconnect(s) \/ Chat(s) \/ Mic(s) \/ Audio(s) PROVE InState'
  <2>1. /\ pc[s] = "receive" /\ alone' = alone /\ mute' = mute
        /\ \E label \in {"off", "chatgate", "vad"} :
             pc' = pc \/ pc' = [pc EXCEPT ![s] = label]
    BY <1>3 DEF Disconnect, Chat, Mic, Audio, Frame, ghostVars
  <2> QED
    BY <1>o, <2>1 DEF Labels
<1>4. ASSUME NEW s \in Sockets, Vad(s) \/ Gate(s) \/ Transcribe(s) PROVE InState'
  <2>1. /\ pc[s] \in {"vad", "chatgate", "voicegate", "stt"} /\ alone' = alone /\ mute' = mute
        /\ \E label \in {"off", "receive", "voicegate", "stt", "lock"} :
             pc' = [pc EXCEPT ![s] = label]
    BY <1>4 DEF Vad, Gate, Transcribe, Refuse, Proceed, ghostVars
  <2> QED
    BY <1>o, <2>1 DEF Labels
<1>5. ASSUME NEW s \in Sockets, Begin(s) PROVE InState'
  <2>1. CASE Abort(s)
    BY <1>5, <1>a, <2>1 DEF Begin
  <2>2. CASE /\ wpc' = "wait" /\ alone' = (Others(s) = {}) /\ pc' = [pc EXCEPT ![s] = "next"]
             /\ UNCHANGED <<firstAudio, mute>>
    <3>1. \A r \in Sockets : pc[r] \notin InTurn
      BY <1>0, <1>5 DEF Begin, Holder
    <3>2. firstAudio = FALSE
      BY <3>1 DEF Speech, Running, NoTurn
    <3>3. avatar' = "thinking"
      BY <1>5 DEF Begin, Transition, After, Allowed, Control, AvatarStates
    <3>4. ASSUME NEW r \in Sockets, pc'[r] \in InTurn PROVE r = s
      BY <1>0, <2>2, <3>1, <3>4
    <3>5. ASSUME alone', NEW r \in Sockets \ {s} PROVE pc'[r] = "off"
      BY <1>0, <2>2, <3>5 DEF Others
    <3> QED
      BY <1>0, <2>2, <3>2, <3>3, <3>4, <3>5 DEF InState, Mine
  <2> QED
    BY <1>5, <2>1, <2>2 DEF Begin
<1>6. ASSUME NEW s \in Sockets, pc[s] \in InTurn, SendRaises(s) PROVE InState'
  BY <1>0, <1>6, <1>a DEF SendRaises
<1>7. ASSUME NEW s \in Sockets, Delta(s) PROVE InState'
  BY <1>7, <1>6, <1>q DEF Delta, Show, ghostVars
<1>8. ASSUME NEW s \in Sockets, SlowDelta(s) PROVE InState'
  BY <1>8, <1>m DEF SlowDelta, sharedVars, ghostVars
<1>9. ASSUME NEW s \in Sockets, FillerReady(s) PROVE InState'
  BY <1>9, <1>6, <1>m DEF FillerReady, Show, ghostVars
<1>10. ASSUME NEW s \in Sockets, EndOfReply(s) PROVE InState'
  BY <1>10, <1>6, <1>m DEF EndOfReply, Show, ghostVars
<1>11. ASSUME NEW s \in Sockets, PipelineRaises(s) PROVE InState'
  BY <1>0, <1>11, <1>a DEF PipelineRaises
<1>12. ASSUME NEW s \in Sockets, Join(s) PROVE InState'
  <2>1. Holder(s)
    BY <1>0, <1>12 DEF Join
  <2> QED
    BY <1>12, <1>a, <1>e, <2>1 DEF Join, Finish, SendRaises
<1>13. ASSUME Take \/ TakeEnd \/ Skip PROVE InState'
  BY <1>13, <1>q DEF Take, TakeEnd, Skip, sharedVars, ghostVars
<1>14. ASSUME Speak PROVE InState'
  <2>1. wpc = "synth" /\ UNCHANGED <<pc, alone>> /\ mute' \in {mute, mute \/ (alone /\ avatar' # "speaking")}
    BY <1>14 DEF Speak
  <2>2. PICK s \in Sockets : pc[s] \in InTurn
    BY <2>1 DEF Speech, Running
  <2>3. ASSUME alone PROVE avatar' = "speaking"
    <3>1. Mine(s)
      BY <1>0, <2>2, <2>3
    <3> QED
      BY <1>14, <3>1 DEF Mine, Speak, Transition, After, Allowed
  <2>4. mute' = FALSE
    BY <1>0, <2>1, <2>3
  <2>5. ASSUME NEW r \in Sockets, alone', pc'[r] \in InTurn PROVE Mine(r)'
    <3>1. Mine(r) /\ alone
      BY <1>0, <2>1, <2>5
    <3> QED
      BY <2>1, <2>3, <3>1 DEF Mine
  <2> QED
    BY <2>4, <2>5 DEF InState
<1>15. ASSUME Orphan PROVE InState'
  <2>1. UNCHANGED <<pc, alone, mute, firstAudio>> /\ avatar' \in {avatar, After(avatar, "speaking")}
    BY <1>15 DEF Orphan, turnVars, ghostVars
  <2>2. avatar \in {"thinking", "speaking"} => After(avatar, "speaking") = "speaking"
    BY DEF After, Allowed
  <2> QED
    BY <2>1, <2>2 DEF InState, Mine
<1>16. ASSUME HoldoffOver \/ UNCHANGED vars PROVE InState'
  BY <1>16, <1>q DEF HoldoffOver, vars, turnVars, ghostVars
<1> QED
  BY <1>1, <1>2, <1>3, <1>4, <1>5, <1>7, <1>8, <1>9, <1>10, <1>11, <1>12, <1>13, <1>14, <1>15,
     <1>16 DEF Next, Task, Due, Worker

-----------------------------------------------------------------------------
(***************************************************************************)
(* Turns completed are paid for by frames.                                 *)
(***************************************************************************)
\* Who is working on a frame.
Busy == {s \in Sockets : pc[s] \notin {"off", "receive"}}

Counted ==
  /\ finals \in Nat /\ frames \in 0..MaxFrames
  /\ finals + Cardinality(Busy) <= frames

\* A step, seen from here: a turn may end without its final text,
Fewer == finals' = finals /\ frames' \in frames..MaxFrames /\ Busy' \subseteq Busy

\* a frame is taken up,
Takes(s) ==
  finals' = finals /\ frames < MaxFrames /\ frames' = frames + 1 /\ Busy' = Busy \cup {s}

\* or answered, at the end of a turn.
Answers(s) ==
  /\ finals' = finals + 1 /\ frames' = frames /\ s \in Busy /\ Busy' = Busy \ {s}
  /\ pc[s] = "join" /\ wpc = "done"

\* Which keeps the account.
LEMMA CountedStep ==
  ASSUME Counted, Fewer \/ \E s \in Sockets : Takes(s) \/ Answers(s)
  PROVE  Counted'
<1>0. /\ IsFiniteSet(Busy) /\ Cardinality(Busy) \in Nat
      /\ finals \in Nat /\ frames \in Nat /\ MaxFrames \in Nat
  BY TurnAssumption, FS_Subset, FS_CardinalityType DEF Busy, Counted
<1>1. CASE Fewer
  <2>1. IsFiniteSet(Busy') /\ Cardinality(Busy') \in Nat /\ Cardinality(Busy') <= Cardinality(Busy)
    BY <1>0, <1>1, FS_Subset, FS_CardinalityType DEF Fewer
  <2>2. frames' \in 0..MaxFrames /\ frames <= frames' /\ finals' = finals
    BY <1>0, <1>1 DEF Fewer
  <2> QED
    BY <1>0, <2>1, <2>2 DEF Counted
<1>2. ASSUME NEW s \in Sockets, Takes(s) PROVE Counted'
  <2>1. Cardinality(Busy \cup {s}) \in Nat /\ Cardinality(Busy \cup {s}) <= Cardinality(Busy) + 1
    BY <1>0, FS_AddElement
  <2> QED
    BY <1>0, <1>2, <2>1 DEF Takes, Counted
<1>3. ASSUME NEW s \in Sockets, Answers(s) PROVE Counted'
  <2>1. Cardinality(Busy \ {s}) = Cardinality(Busy) - 1
    BY <1>0, <1>3, FS_RemoveElement DEF Answers
  <2> QED
    BY <1>0, <1>3, <2>1 DEF Answers, Counted
<1> QED
  BY <1>1, <1>2, <1>3

\* Every step is one of these.
LEMMA CountingStep ==
  ASSUME Control, Locks, Counted, [Next]_vars
  PROVE  Fewer \/ \E s \in Sockets : Takes(s) \/ Answers(s)
<1> USE DEF GoTo
<1>0. /\ pc \in [Sockets -> Labels] /\ frames \in Nat /\ MaxFrames \in Nat
      /\ frames \in frames..MaxFrames
      /\ frames < MaxFrames => frames + 1 \in frames..MaxFrames
  BY TurnAssumption DEF Control, Counted
\* Nobody becomes busy.
<1>f. ASSUME NEW s \in Sockets, NEW label \in Labels,
             pc' = pc \/ pc' = [pc EXCEPT ![s] = label],
             label \in {"off", "receive"} \/ s \in Busy, finals' = finals,
             frames' = frames \/ (frames < MaxFrames /\ frames' = frames + 1)
      PROVE  Fewer
  <2>1. Busy' \subseteq Busy
    BY <1>0, <1>f DEF Busy
  <2> QED
    BY <1>0, <1>f, <2>1 DEF Fewer
<1>s. ASSUME UNCHANGED <<pc, finals>>,
             frames' = frames \/ (frames < MaxFrames /\ frames' = frames + 1)
      PROVE  Fewer
  BY <1>0, <1>s DEF Fewer, Busy
<1>a. ASSUME NEW s \in Sockets, Abort(s) PROVE Fewer
  <2>1. pc' = [pc EXCEPT ![s] = "off"] /\ finals' = finals /\ frames' = frames
    BY <1>a DEF Abort, EndTurn, ghostVars
  <2> QED
    BY <1>f, <2>1 DEF Labels
<1>1. ASSUME NEW s \in Sockets, Connect(s) PROVE Fewer
  BY <1>1, <1>f DEF Connect, Labels
<1>2. ASSUME NEW s \in Sockets, Leave(s) PROVE Fewer
  BY <1>2, <1>s DEF Leave, ghostVars
<1>3. ASSUME NEW s \in Sockets, Disconnect(s) PROVE Fewer
  BY <1>3, <1>f DEF Disconnect, ghostVars, Labels
<1>t. ASSUME NEW s \in Sockets, NEW label \in {"chatgate", "vad"}, Frame(s),
             pc' = [pc EXCEPT ![s] = label], finals' = finals
      PROVE  Takes(s)
  <2>1. Busy' = Busy \cup {s}
    BY <1>0, <1>t DEF Busy
  <2> QED
    BY <1>t, <2>1 DEF Takes, Frame
<1>4. ASSUME NEW s \in Sockets, Chat(s) PROVE Takes(s)
  BY <1>4, <1>t DEF Chat, ghostVars
<1>5. ASSUME NEW s \in Sockets, Mic(s) PROVE Fewer
  BY <1>5, <1>s DEF Mic, Frame, ghostVars
<1>6. ASSUME NEW s \in Sockets, Audio(s) PROVE Fewer \/ Takes(s)
  BY <1>6, <1>s, <1>t DEF Audio, Frame, ghostVars
<1>7. ASSUME NEW s \in Sockets, Vad(s) \/ Gate(s) \/ Transcribe(s) PROVE Fewer
  <2>1. /\ pc[s] \in {"vad", "chatgate", "voicegate", "stt"} /\ finals' = finals
        /\ frames' = frames
        /\ \E label \in {"off", "receive", "voicegate", "stt", "lock"} :
             pc' = [pc EXCEPT ![s] = label]
    BY <1>7 DEF Vad, Gate, Transcribe, Refuse, Proceed, ghostVars, boundVars
  <2>2. s \in Busy
    BY <2>1 DEF Busy
  <2> QED
    BY <1>f, <2>1, <2>2 DEF Labels
<1>8. ASSUME NEW s \in Sockets, Begin(s) PROVE Fewer
  <2>1. CASE Abort(s)
    BY <1>a, <2>1
  <2>2. CASE pc' = [pc EXCEPT ![s] = "next"] /\ finals' = finals /\ frames' = frames
    <3>1. s \in Busy
      BY <1>8 DEF Begin, Busy
    <3> QED
      BY <1>f, <2>2, <3>1 DEF Labels
  <2> QED
    BY <1>8, <2>1, <2>2 DEF Begin, boundVars
<1>9. ASSUME NEW s \in Sockets, SendRaises(s) PROVE Fewer
  BY <1>9, <1>a DEF SendRaises
<1>10. ASSUME NEW s \in Sockets, Delta(s) PROVE Fewer
  BY <1>10, <1>9, <1>s DEF Delta, Show, ghostVars, boundVars
<1>11. ASSUME NEW s \in Sockets, SlowDelta(s) \/ FillerReady(s) \/ EndOfReply(s) PROVE Fewer
  <2>1. CASE SendRaises(s)
    BY <1>9, <2>1
  <2>2. CASE /\ \E label \in InTurn : pc' = [pc EXCEPT ![s] = label]
             /\ finals' = finals /\ frames' = frames
    <3>1. s \in Busy
      BY <1>11 DEF SlowDelta, FillerReady, EndOfReply, Busy
    <3> QED
      BY <1>f, <2>2, <3>1 DEF Labels, InTurn
  <2> QED
    BY <1>11, <2>1, <2>2
       DEF SlowDelta, FillerReady, EndOfReply, Show, InTurn, ghostVars, boundVars
<1>12. ASSUME NEW s \in Sockets, PipelineRaises(s) PROVE Fewer
  BY <1>12, <1>a DEF PipelineRaises
<1>13. ASSUME NEW s \in Sockets, Join(s) PROVE Fewer \/ Answers(s)
  <2>1. CASE Abort(s)
    BY <1>a, <2>1
  <2>2. CASE wpc = "done" /\ EndTurn(s, "receive") /\ finals' = finals + 1 /\ frames' = frames
    <3>1. s \in Busy /\ pc[s] = "join"
      BY <1>13 DEF Join, Busy
    <3>2. Busy' = Busy \ {s}
      BY <1>0, <2>2 DEF EndTurn, Busy
    <3> QED
      BY <2>2, <3>1, <3>2 DEF Answers
  <2> QED
    BY <1>13, <2>1, <2>2 DEF Join, Finish, SendRaises, boundVars
<1>14. ASSUME Worker PROVE Fewer
  BY <1>14, <1>s DEF Worker, Take, TakeEnd, Skip, Speak, ghostVars, boundVars
<1>15. ASSUME Orphan \/ HoldoffOver \/ UNCHANGED vars PROVE Fewer
  BY <1>15, <1>s DEF Orphan, HoldoffOver, vars, ghostVars, boundVars
<1> QED
  BY <1>1, <1>2, <1>3, <1>4, <1>5, <1>6, <1>7, <1>8, <1>10, <1>11, <1>12, <1>13, <1>14, <1>15
     DEF Next, Task, Due

-----------------------------------------------------------------------------
(***************************************************************************)
(* The theorems.                                                           *)
(***************************************************************************)
\* The inductive invariant.
IInv == Control /\ Locks /\ Data /\ Speech /\ Written /\ InState /\ Counted

\* It holds at the start, and every step keeps it.
LEMMA IInvInit == Init => IInv
<1> SUFFICES ASSUME Init PROVE IInv
  OBVIOUS
<1>1. /\ ~Running /\ ~Filling /\ ~Ending
      /\ \A s \in Sockets : pc[s] = "off"
  BY DEF Init, Running, Filling, Ending, InTurn
<1>2. <<>> \in Seq(Texts) /\ <<>> \in Seq(Pieces) /\ <<>> \in Texts /\ Len(<<>>) = 0
  BY DEF Texts
<1>3. Control
  <2>1. avatar \in AvatarStates /\ pc \in [Sockets -> Labels] /\ open \in [Sockets -> BOOLEAN]
    BY DEF Init, Labels, AvatarStates
  <2>2. lock \in Seq(Sockets)
    BY DEF Init
  <2>3. /\ recent \in BOOLEAN /\ mute \in BOOLEAN /\ alone \in BOOLEAN
    BY DEF Init
  <2>4. orphans \in Nat /\ connects \in 0..MaxConnects /\ faults \in 0..MaxFaults
    BY TurnAssumption DEF Init
  <2> QED
    BY <2>1, <2>2, <2>3, <2>4 DEF Control
<1>4. Locks
  BY <1>1, <1>2 DEF Init, Locks, Waits, Queued, InTurn
<1>5. NoTurn /\ queue = <<>> /\ shown = <<>> /\ hand = 0 /\ handled = 0 /\ sawEnd = FALSE
      /\ wpc = "none"
  BY DEF Init, NoTurn
<1>6. Data
  <2>1. chunker \in Keeping
    BY <1>2, <1>5 DEF NoTurn, Chunks!EmptyChunker, Keeping
  <2>2. /\ response \in Seq(Texts) /\ queue \in Seq(Texts) /\ shown \in Seq(Pieces)
        /\ wpc \in {"none", "wait", "synth", "done", "failed"}
    BY <1>2, <1>5 DEF NoTurn
  <2>3. /\ hand \in Nat /\ handled \in Nat
        /\ sawEnd \in BOOLEAN /\ firstAudio \in BOOLEAN
        /\ fillerAudio \in BOOLEAN /\ firstChunk \in BOOLEAN
    <3>1. firstAudio = FALSE /\ fillerAudio = FALSE /\ firstChunk = FALSE
      BY <1>5, Zenon DEF NoTurn
    <3>2. hand \in Nat /\ handled \in Nat
      BY <1>5
    <3> QED
      BY <1>5, <3>1, <3>2, Zenon
  <2> QED
    BY <1>1, <2>1, <2>2, <2>3 DEF Data
<1>7. Speech
  <2>1. ToSpeak = <<>> /\ ~Marked
    BY <1>1, <1>5, RestOfNothing DEF ToSpeak, Marked
  <2> QED
    BY <1>1, <1>2, <1>5, <2>1 DEF Speech
<1>10. Written
  <2>1. response = <<>> /\ chunker.buf = <<>>
    BY <1>5 DEF NoTurn, Chunks!EmptyChunker
  <2> QED
    BY <1>1, <1>5, <2>1, NothingWritten DEF Written
<1>8. InState
  BY <1>1 DEF Init, InState, InTurn
<1>9. Counted
  <2>1. Busy = {}
    BY <1>1 DEF Busy
  <2>2. Cardinality(Busy) = 0
    BY <2>1, FS_EmptySet
  <2> QED
    BY <2>2, TurnAssumption DEF Init, Counted
<1> QED
  BY <1>3, <1>4, <1>6, <1>7, <1>8, <1>9, <1>10 DEF IInv

LEMMA IInvStep == IInv /\ [Next]_vars => IInv'
<1> SUFFICES ASSUME IInv, [Next]_vars PROVE IInv'
  OBVIOUS
<1>0. Control /\ Locks /\ Data /\ Speech /\ Written /\ InState /\ Counted
  BY DEF IInv
<1>1. Control' /\ Locks'
  BY <1>0, ControlStep
<1>2. Data' /\ Speech'
  BY <1>0, TalkingStep, SpeechStep
<1>5. Written'
  BY <1>0, TalkingStep, WrittenStep
<1>3. InState'
  BY <1>0, InStateStep
<1>4. Counted'
  BY <1>0, CountingStep, CountedStep
<1> QED
  BY <1>1, <1>2, <1>3, <1>4, <1>5 DEF IInv

\* What follows in each state.
LEMMA IInvKeepsUp == IInv => SpeechFollowsText
<1> SUFFICES ASSUME IInv PROVE SpeechFollowsText
  OBVIOUS
<1>1. ToSpeak = SubSeq(shown, handled + hand + 1, Len(shown))
  BY DEF ToSpeak, Rest
<1>2. queue = ToSpeak \/ queue = Append(ToSpeak, EndMark)
  BY DEF IInv, Speech
<1> QED
  BY <1>1, <1>2 DEF SpeechFollowsText

LEMMA IInvSpeaksAlone == IInv => OneTurnSpeaks
<1> SUFFICES ASSUME IInv PROVE OneTurnSpeaks
  OBVIOUS
<1>0. Control /\ Locks /\ Data /\ Speech /\ InState /\ Counted
  BY DEF IInv
<1>1. \A s \in Sockets :
        /\ pc[s] \in InTurn => Holder(s)
        /\ Cardinality({i \in 1..Len(lock) : lock[i] = s}) =
             IF pc[s] \in {"lock"} \cup InTurn THEN 1 ELSE 0
  BY <1>0, LocksCount DEF Locks
<1>2. finals \in 0..MaxFrames /\ frames \in 0..MaxFrames
  <2>1. IsFiniteSet(Busy)
    BY TurnAssumption, FS_Subset DEF Busy
  <2>2. Cardinality(Busy) \in Nat
    BY <2>1, FS_CardinalityType
  <2> QED
    BY <1>0, <2>2, TurnAssumption DEF Counted
<1>3. handled + hand <= Len(shown)
  BY <1>0 DEF Speech
<1>4. TypeOK
  BY <1>0, <1>1, <1>2, <1>3 DEF TypeOK, Control, Data, Labels
<1>5. SpeaksInState
  BY <1>0 DEF InState, SpeaksInState
<1> QED
  BY <1>4, <1>5 DEF OneTurnSpeaks

\* TextComplete is the first conjunct of Written.
LEMMA IInvComplete == IInv => TextComplete
BY DEF IInv, Written, Ink, TextComplete, Filling

\* The final text is sent at the end of a turn, its worker done.
LEMMA IInvCloses ==
  IInv /\ [Next]_vars =>
    (finals' # finals =>
       /\ handled = Len(shown)
       /\ Chunks!Bare(Chunks!Flat(shown)) = Chunks!Bare(Chunks!Flat(response)))
<1> SUFFICES ASSUME IInv, [Next]_vars, finals' # finals
             PROVE  /\ handled = Len(shown)
                    /\ Chunks!Bare(Chunks!Flat(shown)) = Chunks!Bare(Chunks!Flat(response))
  OBVIOUS
<1>0. Control /\ Locks /\ Data /\ Speech /\ Written /\ Counted
  BY DEF IInv
<1>1. PICK s \in Sockets : Answers(s)
  BY <1>0, CountingStep DEF Fewer, Takes
<1>2. pc[s] = "join" /\ wpc = "done" /\ Ending
  BY <1>1 DEF Answers, Ending
<1>3. ~Filling
  BY <1>0, <1>2, OneInTurn DEF Filling, InTurn
<1>4. handled = Len(shown)
  BY <1>0, <1>2 DEF Speech, Data
<1>5. chunker.buf = <<>> /\ Ink(shown, <<>>) = Chunks!Bare(Chunks!Flat(response))
  BY <1>0, <1>2, <1>3 DEF Written
<1>6. Ink(shown, <<>>) = Chunks!Bare(Chunks!Flat(shown))
  <2>1. Chunks!Bare(Chunks!Flat(shown)) \in Texts
    BY <1>0, PiecesAreTexts, InkJoins DEF Data
  <2>2. Chunks!Bare(Chunks!Flat(shown)) \o <<>> = Chunks!Bare(Chunks!Flat(shown))
    BY <2>1, TextsJoin
  <2> QED
    BY <2>2, BareNothing DEF Ink
<1> QED
  BY <1>4, <1>5, <1>6

\* What was shown and is still to be spoken is exactly what tts_worker has in hand and
\* what waits for it in tts_queue, in the order it was shown: its merging loses, repeats
\* and overtakes no sentence, whatever the lengths and limits.
THEOREM SpeechKeepsUp == Spec => []SpeechFollowsText
<1>1. Spec => []IInv
  BY IInvInit, IInvStep, PTL DEF Spec
<1> QED
  BY <1>1, IInvKeepsUp, PTL

\* Who wants a turn is in _turn_lock's queue once, and at its head while the turn runs;
\* and a client that has the avatar for itself hears no sentence while the avatar is
\* shown doing something else than speaking, for any number of clients.
THEOREM TurnsSpeakAlone == Spec => []OneTurnSpeaks
<1>1. Spec => []IInv
  BY IInvInit, IInvStep, PTL DEF Spec
<1> QED
  BY <1>1, IInvSpeaksAlone, PTL
\* The chat_partial frames carry the reply: but for white space, what SentenceChunker has
\* cut and what it still holds is what the pipeline has yielded, in its order, whatever
\* the texts and the limits of the pieces.
THEOREM TextIsComplete == Spec => []TextComplete
<1>1. Spec => []IInv
  BY IInvInit, IInvStep, PTL DEF Spec
<1> QED
  BY <1>1, IInvComplete, PTL

\* The final chat frame closes a turn: when it is sent, the worker has spoken or given up
\* every piece, and the pieces are the whole reply.
THEOREM FinalClosesTurn == Spec => FinalIsLast
<1>1. Spec => []IInv
  BY IInvInit, IInvStep, PTL DEF Spec
<1>2. IInv /\ [Next]_vars =>
        [finals' # finals =>
           /\ handled = Len(shown)
           /\ Chunks!Bare(Chunks!Flat(shown)) = Chunks!Bare(Chunks!Flat(response))]_vars
  BY IInvCloses
<1> QED
  BY <1>1, <1>2, PTL DEF Spec, FinalIsLast

-----------------------------------------------------------------------------
(***************************************************************************)
(* StreamingTurn: the events that a client is sent.                        *)
(***************************************************************************)
\* How long an event plays.
Lasts(e) == IF e.type = "audio_chunk" THEN e.dur ELSE 0

\* g adds up how long the events of s play; the function of how long they play.
Adding(s, g) == g = [i \in 0 .. Len(s) |-> IF i = 0 THEN 0 ELSE g[i - 1] + Lasts(s[i])]
PlayedOf(s) == CHOOSE g : Adding(s, g)

Partials == [type : {"chat_partial"}, seq : Nat, of : Nat]
Audios == [type : {"audio_chunk"}, seq : Nat, is_last : BOOLEAN, from : Nat, to : Nat, dur : Nat]
Visemes == [type : {"viseme_chunk"}, seq : Nat, time_offset_ms : Nat]
Event == Partials \cup Audios \cup Visemes \cup {Interrupt}

\* An event plays a number of milliseconds.
LEMMA LastsIs ==
  ASSUME NEW e \in Event
  PROVE  Lasts(e) \in Nat
BY DEF Event, Lasts, Partials, Audios, Visemes, Interrupt

\* The durations add up, event by event.
LEMMA PlayedIs ==
  ASSUME NEW s \in Seq(Event)
  PROVE  /\ PlayedOf(s) \in [0 .. Len(s) -> Nat]
         /\ PlayedOf(s)[0] = 0
         /\ \A i \in 1 .. Len(s) : PlayedOf(s)[i] = PlayedOf(s)[i - 1] + Lasts(s[i])
<1>1. Len(s) \in Nat
  OBVIOUS
<1>2. \A i \in 1 .. Len(s) : Lasts(s[i]) \in Nat
  BY LastsIs
<1> DEFINE step == [i \in 1 .. Len(s) |-> [x \in Nat |-> x + Lasts(s[i])]]
<1>3. step \in [1 .. Len(s) -> [Nat -> Nat]]
  BY <1>2
<1>4. PICK g \in [0 .. Len(s) -> Nat] : g[0] = 0 /\ \A i \in 1 .. Len(s) : g[i] = step[i][g[i - 1]]
  <2> DEFINE n == Len(s)
           A == Nat
           a == 0
  <2>1. n \in Nat /\ a \in A /\ step \in [1 .. n -> [A -> A]]
    BY <1>1, <1>3
  <2> HIDE DEF step, n, A, a
  <2>2. \E g \in [0 .. n -> A] : g[0] = a /\ \A i \in 1 .. n : g[i] = step[i][g[i - 1]]
    BY <2>1, Recursion
  <2> QED
    BY <2>2 DEF n, A, a
<1>5. \A i \in 1 .. Len(s) : g[i - 1] \in Nat /\ i # 0
  BY <1>1
<1>6. \A i \in 1 .. Len(s) : g[i] = g[i - 1] + Lasts(s[i])
  BY <1>4, <1>5
<1> HIDE DEF step
<1>7. g = [i \in 0 .. Len(s) |-> g[i]]
  OBVIOUS
<1>8. \A i \in 0 .. Len(s) : i = 0 \/ i \in 1 .. Len(s)
  BY <1>1
<1>9. \A i \in 0 .. Len(s) : g[i] = IF i = 0 THEN 0 ELSE g[i - 1] + Lasts(s[i])
  BY <1>4, <1>5, <1>6, <1>8
<1>10. Adding(s, g)
  BY <1>7, <1>9, Zenon DEF Adding
<1>11. Adding(s, PlayedOf(s))
  BY <1>10, Zenon DEF PlayedOf
<1> DEFINE h == PlayedOf(s)
<1> HIDE DEF h
<1>12. h = [i \in 0 .. Len(s) |-> IF i = 0 THEN 0 ELSE h[i - 1] + Lasts(s[i])]
  BY <1>11 DEF Adding, h
<1>13. h[0] = 0 /\ \A i \in 1 .. Len(s) : h[i] = h[i - 1] + Lasts(s[i])
  BY <1>1, <1>12
<1> DEFINE T == {i \in 0 .. Len(s) : h[i] \in Nat}
<1>14. \A i \in 0 .. Len(s) : i \in T
  <2>1. 0 \in T
    BY <1>1, <1>13
  <2>2. ASSUME NEW i \in 1 .. Len(s), i - 1 \in T PROVE i \in T
    <3>1. h[i - 1] \in Nat /\ i \in 0 .. Len(s)
      BY <2>2
    <3> QED
      BY <1>2, <1>13, <3>1
  <2> HIDE DEF T
  <2> QED
    BY <1>1, <2>1, <2>2, Upwards
<1>15. h \in [0 .. Len(s) -> Nat]
  <2>1. DOMAIN h = 0 .. Len(s) /\ h = [i \in 0 .. Len(s) |-> h[i]]
    BY <1>12
  <2> QED
    BY <1>14, <2>1
<1> QED
  BY <1>13, <1>15 DEF h

\* Another event leaves what was added up.
LEMMA PlayedAppends ==
  ASSUME NEW s \in Seq(Event), NEW e \in Event
  PROVE  /\ \A i \in 0 .. Len(s) : PlayedOf(Append(s, e))[i] = PlayedOf(s)[i]
         /\ PlayedOf(Append(s, e))[Len(s) + 1] = PlayedOf(s)[Len(s)] + Lasts(e)
<1> DEFINE t == Append(s, e)
           g == PlayedOf(s)
           h == PlayedOf(t)
<1>1. t \in Seq(Event) /\ Len(t) = Len(s) + 1 /\ t[Len(s) + 1] = e
      /\ Len(s) \in Nat /\ \A i \in 1 .. Len(s) : t[i] = s[i]
  OBVIOUS
<1> HIDE DEF t
<1>2. h[0] = 0 /\ \A i \in 1 .. Len(s) + 1 : h[i] = h[i - 1] + Lasts(t[i])
  BY <1>1, PlayedIs
<1>3. g[0] = 0 /\ \A i \in 1 .. Len(s) : g[i] = g[i - 1] + Lasts(s[i])
  BY PlayedIs
<1> HIDE DEF g, h
<1> DEFINE T == {i \in 0 .. Len(s) : h[i] = g[i]}
<1>4. \A i \in 0 .. Len(s) : i \in T
  <2>1. 0 \in T
    BY <1>1, <1>2, <1>3
  <2>2. ASSUME NEW i \in 1 .. Len(s), i - 1 \in T PROVE i \in T
    <3>1. h[i - 1] = g[i - 1] /\ i \in 0 .. Len(s) /\ i \in 1 .. Len(s) + 1
      BY <1>1, <2>2
    <3>2. h[i] = g[i]
      BY <1>1, <1>2, <1>3, <3>1
    <3> QED
      BY <3>1, <3>2
  <2> HIDE DEF T
  <2> QED
    BY <1>1, <2>1, <2>2, Upwards
<1>5. Len(s) \in 0 .. Len(s) /\ Len(s) + 1 \in 1 .. Len(s) + 1 /\ (Len(s) + 1) - 1 = Len(s)
  BY <1>1
<1>6. h[Len(s) + 1] = g[Len(s)] + Lasts(e)
  BY <1>1, <1>2, <1>4, <1>5
<1> QED
  BY <1>4, <1>6 DEF g, h, t

-----------------------------------------------------------------------------
(***************************************************************************)
(* StreamingTurn: the invariant.                                           *)
(***************************************************************************)
\* The arguments and locals of _synthesize_and_send.
Chunk == [from : Nat, to : Nat, seq : Nat, last : BOOLEAN, dur : Nat]

\* Types.
StreamData ==
  /\ cancelled \in BOOLEAN
  /\ full_text \in Seq(Kinds) /\ Len(full_text) <= MaxFragments
  /\ offset \in Nat /\ chunk \in Chunk
  /\ sent \in Seq(Event)
  /\ unsaid \subseteq 1 .. Len(full_text)

\* What run awaits says where the buffer is, and what the chunk and the number are.
StreamPlace ==
  /\ awaits \in {"next", "partial", "synth", "audio", "viseme"} \cup Ended
  /\ start \in 1 .. Len(full_text) + 1
  /\ seq \in 0 .. Len(full_text) + 1
  /\ awaits \in {"next", "partial"} => seq = Len(full_text)
  /\ awaits = "partial" => start <= Len(full_text)
  /\ awaits \in {"next", "partial", "done"} => chunk = NoChunk
  /\ awaits \in {"synth", "audio", "viseme"} =>
       /\ 1 <= chunk.from /\ chunk.to = Len(full_text) /\ start = chunk.to + 1 /\ chunk.seq = seq
       /\ chunk.seq = chunk.to + (IF chunk.last THEN 1 ELSE 0)
  /\ chunk = NoChunk \/ (1 <= chunk.from /\ chunk.from <= chunk.to /\ chunk.to < start)

\* Every fragment was sent but the one that is being sent.
PartialsCount ==
  /\ IsFiniteSet(Events("chat_partial"))
  /\ awaits = "partial" => Cardinality(Events("chat_partial")) = Len(full_text) - 1
  /\ awaits \notin {"partial", "raised"} => Cardinality(Events("chat_partial")) = Len(full_text)
  /\ \A i \in Events("chat_partial") :
       sent[i].seq = Cardinality({j \in Events("chat_partial") : j <= i})

\* The audio is that of ranges of the text, in its order; the next one follows.
AudioOrder ==
  /\ \A i, j \in Events("audio_chunk") : i < j => sent[i].to < sent[j].from
  /\ \A i \in Events("audio_chunk") :
       /\ 1 <= sent[i].from /\ sent[i].from <= sent[i].to /\ sent[i].to < start
       /\ sent[i].to <= Cardinality(Events("chat_partial"))
       /\ sent[i].seq = sent[i].to + IF sent[i].is_last THEN 1 ELSE 0
       /\ awaits \in {"synth", "audio"} => sent[i].to < chunk.from

\* The first k fragments were spoken, or given up, or are blank.
Covered(k) == \A i \in 1 .. k : i \in Spoken \cup unsaid \/ full_text[i] = "blank"

\* What is behind the buffer, or behind the sentence at work, is covered.
TextCovered ==
  /\ awaits \in {"next", "partial", "viseme"} \/ (awaits = "done" /\ ~ cancelled) => Covered(start - 1)
  /\ awaits \in {"synth", "audio"} => Covered(chunk.from - 1)

\* Visemes follow their audio at once, under its number.
VisemesFollow ==
  /\ \A i \in Events("viseme_chunk") :
       i - 1 \in Events("audio_chunk") /\ sent[i - 1].seq = sent[i].seq
  /\ awaits = "viseme" =>
       /\ Len(sent) \in Events("audio_chunk")
       /\ sent[Len(sent)].seq = chunk.seq /\ sent[Len(sent)].dur = chunk.dur

\* The offset is how long the audio lasts whose visemes were sent.
OffsetsSum ==
  /\ OffsetsAddUp
  /\ awaits = "viseme" => offset = Played[Len(sent) - 1]
  /\ awaits \notin {"viseme", "raised"} => offset = Played[Len(sent)]

\* The inductive invariant.
StreamInv ==
  /\ StreamData /\ StreamPlace /\ PartialsCount /\ AudioOrder
  /\ TextCovered /\ VisemesFollow /\ OffsetsSum

-----------------------------------------------------------------------------
(***************************************************************************)
(* StreamingTurn: every step keeps the invariant.                          *)
(***************************************************************************)
\* The places of the events of a type;
PlacesOf(s, type) == {i \in 1 .. Len(s) : s[i].type = type}

\* another event adds its own.
LEMMA PlacesAppend ==
  ASSUME NEW s \in Seq(Event), NEW e \in Event, NEW type
  PROVE  /\ Append(s, e) \in Seq(Event) /\ Len(Append(s, e)) = Len(s) + 1
         /\ \A i \in 1 .. Len(s) : Append(s, e)[i] = s[i]
         /\ Append(s, e)[Len(s) + 1] = e
         /\ e.type = type => PlacesOf(Append(s, e), type) = PlacesOf(s, type) \cup {Len(s) + 1}
         /\ e.type # type => PlacesOf(Append(s, e), type) = PlacesOf(s, type)
<1> DEFINE t == Append(s, e)
<1>1. t \in Seq(Event) /\ Len(t) = Len(s) + 1 /\ t[Len(s) + 1] = e
      /\ Len(s) \in Nat /\ \A i \in 1 .. Len(s) : t[i] = s[i]
  OBVIOUS
<1> HIDE DEF t
<1>2. \A i : i \in 1 .. Len(t) <=> i \in 1 .. Len(s) \/ i = Len(s) + 1
  BY <1>1
<1>3. ~ (Len(s) + 1 \in 1 .. Len(s))
  BY <1>1
<1>4. \A i : i \in PlacesOf(t, type) <=>
                i \in PlacesOf(s, type) \/ (i = Len(s) + 1 /\ e.type = type)
  BY <1>1, <1>2, <1>3 DEF PlacesOf
<1>5. e.type = type => PlacesOf(t, type) = PlacesOf(s, type) \cup {Len(s) + 1}
  BY <1>4
<1>6. e.type # type => PlacesOf(t, type) = PlacesOf(s, type)
  BY <1>4
<1> QED
  BY <1>1, <1>5, <1>6 DEF t

\* The events of a type, and how long they play, by the sequence.
LEMMA EventsAre ==
  ASSUME NEW type
  PROVE  /\ Events(type) = PlacesOf(sent, type) /\ Events(type)' = PlacesOf(sent', type)
         /\ Played = PlayedOf(sent) /\ Played' = PlayedOf(sent')
<1>1. Events(type) = PlacesOf(sent, type) /\ Events(type)' = PlacesOf(sent', type)
  BY DEF Events, PlacesOf
<1>2. Played = PlayedOf(sent)
  BY DEF Played, PlayedOf, Adding, Lasts
<1>3. Played' = PlayedOf(sent')
  BY DEF Played, PlayedOf, Adding, Lasts
<1> QED
  BY <1>1, <1>2, <1>3

\* What was sent grows by an event,
LEMMA SentGrows ==
  ASSUME sent \in Seq(Event), NEW e \in Event, sent' = Append(sent, e)
  PROVE  /\ sent' \in Seq(Event) /\ Len(sent') = Len(sent) + 1 /\ Len(sent) \in Nat
         /\ \A i \in 1 .. Len(sent) : sent'[i] = sent[i]
         /\ sent'[Len(sent) + 1] = e
         /\ Events(e.type)' = Events(e.type) \cup {Len(sent) + 1}
         /\ \A type : type # e.type => Events(type)' = Events(type)
         /\ \A i \in 0 .. Len(sent) : Played'[i] = Played[i]
         /\ Played'[Len(sent) + 1] = Played[Len(sent)] + Lasts(e)
<1>1. Len(sent) \in Nat
  OBVIOUS
<1>2. sent' \in Seq(Event) /\ Len(sent') = Len(sent) + 1
      /\ (\A i \in 1 .. Len(sent) : sent'[i] = sent[i]) /\ sent'[Len(sent) + 1] = e
  BY PlacesAppend
<1>3. Events(e.type)' = Events(e.type) \cup {Len(sent) + 1}
  BY PlacesAppend, EventsAre
<1>4. ASSUME NEW type, type # e.type PROVE Events(type)' = Events(type)
  BY <1>4, PlacesAppend, EventsAre
<1>5. \A i \in 0 .. Len(sent) : Played'[i] = Played[i]
  BY PlayedAppends, EventsAre, Zenon
<1>6. Played'[Len(sent) + 1] = Played[Len(sent)] + Lasts(e)
  BY PlayedAppends, EventsAre, Zenon
<1> QED
  BY <1>1, <1>2, <1>3, <1>4, <1>5, <1>6

\* or nothing is sent.
LEMMA SentStays ==
  ASSUME UNCHANGED sent
  PROVE  (\A type : Events(type)' = Events(type)) /\ Played' = Played
BY EventsAre

\* What is sent is an event.
LEMMA EventsSent ==
  ASSUME StreamData, StreamPlace
  PROVE  /\ awaits = "partial" => Partial \in Event
         /\ [type |-> "audio_chunk", seq |-> chunk.seq, is_last |-> chunk.last,
             from |-> chunk.from, to |-> chunk.to, dur |-> chunk.dur] \in Event
         /\ [type |-> "viseme_chunk", seq |-> chunk.seq, time_offset_ms |-> offset] \in Event
         /\ Interrupt \in Event
<1>1. awaits = "partial" => Partial \in Event
  BY DEF StreamData, StreamPlace, Event, Partials, Partial
<1>2. [type |-> "audio_chunk", seq |-> chunk.seq, is_last |-> chunk.last,
       from |-> chunk.from, to |-> chunk.to, dur |-> chunk.dur] \in Event
  BY DEF StreamData, Event, Audios, Chunk
<1>3. [type |-> "viseme_chunk", seq |-> chunk.seq, time_offset_ms |-> offset] \in Event
  BY DEF StreamData, Event, Visemes, Chunk
<1> QED
  BY <1>1, <1>2, <1>3 DEF Event

\* How long what was sent plays.
LEMMA PlayedTypes ==
  ASSUME StreamData
  PROVE  Played \in [0 .. Len(sent) -> Nat] /\ Played[0] = 0
         /\ \A i \in 1 .. Len(sent) : Played[i] = Played[i - 1] + Lasts(sent[i])
BY PlayedIs, EventsAre, Zenon DEF StreamData

\* What a chunk is; the one that is none is a chunk that starts nowhere.
LEMMA NoChunkIs ==
  NoChunk \in Chunk /\ NoChunk.from = 0
BY DEF NoChunk, Chunk

\* A range of fragments to be spoken.
LEMMA ChunkIs ==
  ASSUME NEW a \in Nat, NEW b \in Nat, NEW c \in Nat, NEW l \in BOOLEAN
  PROVE  [from |-> a, to |-> b, seq |-> c, last |-> l, dur |-> 0] \in Chunk
BY DEF Chunk

\* A range within another.
LEMMA RangeIn ==
  ASSUME NEW a \in Nat, NEW b \in Nat, 1 <= a
  PROVE  a .. b \subseteq 1 .. b
OBVIOUS

\* The invariant holds at first.
LEMMA StreamInvInit ==
  ASSUME StreamInit
  PROVE  StreamInv
<1>1. \A type : Events(type) = {}
  BY DEF StreamInit, Events
<1>2. StreamData /\ StreamPlace
  <2>1. full_text \in Seq(Kinds) /\ Len(full_text) = 0 /\ sent \in Seq(Event)
    BY DEF StreamInit
  <2>2. StreamData
    <3>1. offset \in Nat /\ cancelled \in BOOLEAN
      BY DEF StreamInit
    <3>3. 0 <= MaxFragments
      BY StreamAssumption
    <3>2. chunk \in Chunk /\ unsaid = {}
      BY NoChunkIs DEF StreamInit
    <3> QED
      BY <2>1, <3>1, <3>2, <3>3 DEF StreamData
  <2>3. StreamPlace
    BY <2>1, StreamAssumption DEF StreamInit, StreamPlace
  <2> QED
    BY <2>2, <2>3
<1>3. PartialsCount /\ AudioOrder
  BY <1>1, FS_EmptySet DEF StreamInit, PartialsCount, AudioOrder
<1>4. TextCovered
  BY DEF StreamInit, TextCovered, Covered
<1>5. VisemesFollow
  BY <1>1 DEF StreamInit, VisemesFollow
<1>6. OffsetsSum
  BY <1>1, <1>2, PlayedTypes DEF StreamInit, OffsetsSum, OffsetsAddUp
<1> QED
  BY <1>2, <1>3, <1>4, <1>5, <1>6 DEF StreamInv

\* The data and the place of the loop, action by action.
LEMMA PlaceStep ==
  ASSUME StreamData, StreamPlace, [StreamNext]_streamVars
  PROVE  StreamData' /\ StreamPlace'
<1> DEFINE n == Len(full_text)
<1>1. n \in Nat /\ seq \in Nat /\ start \in Nat /\ offset \in Nat /\ chunk \in Chunk
  BY DEF StreamData, StreamPlace
<1>2. CASE Fragment
  <2>1. PICK k \in Kinds : full_text' = Append(full_text, k)
    BY <1>2 DEF Fragment
  <2>2. full_text' \in Seq(Kinds) /\ Len(full_text') = n + 1
    BY <2>1 DEF StreamData
  <2>3. StreamData'
    <3>1. n < MaxFragments /\ unsaid \subseteq 1 .. n /\ unsaid' = unsaid
      BY <1>2 DEF StreamData, Fragment
    <3>2. Len(full_text') <= MaxFragments
      BY <1>1, <2>2, <3>1, StreamAssumption
    <3>3. unsaid' \subseteq 1 .. Len(full_text')
      BY <1>1, <2>2, <3>1
    <3> QED
      BY <1>2, <2>2, <3>2, <3>3 DEF StreamData, Fragment
  <2>4. StreamPlace'
    BY <1>1, <1>2, <2>2 DEF StreamPlace, Fragment, Ended
  <2> QED
    BY <2>3, <2>4
<1>3. CASE Interrupted
  <2>1. sent' \in Seq(Event)
    BY <1>3, EventsSent, SentGrows DEF StreamData, Interrupted, Sent
  <2>2. StreamData'
    BY <1>3, <2>1 DEF StreamData, Interrupted, textVars
  <2>3. StreamPlace'
    BY <1>1, <1>3 DEF StreamPlace, Interrupted, textVars, Ended
  <2> QED
    BY <2>2, <2>3
<1>4. CASE SendPartial
  <2>1. sent' \in Seq(Event)
    BY <1>4, EventsSent, SentGrows DEF StreamData, SendPartial, Sent
  <2>2. /\ chunk' \in Chunk /\ unsaid' \subseteq 1 .. n
        /\ UNCHANGED <<cancelled, seq, full_text, offset>>
    <3>1. UNCHANGED <<cancelled, seq, full_text, offset>>
      BY <1>4 DEF SendPartial
    <3>2. chunk' = chunk \/ chunk' = [from |-> start, to |-> n, seq |-> seq, last |-> FALSE, dur |-> 0]
      BY <1>4 DEF SendPartial, Say
    <3>3. unsaid' = unsaid \/ unsaid' = unsaid \cup (start .. n)
      BY <1>4 DEF SendPartial, Say
    <3>4. chunk' \in Chunk
      BY <1>1, <3>2, ChunkIs
    <3>5. 1 <= start /\ unsaid \subseteq 1 .. n
      BY DEF StreamData, StreamPlace
    <3>6. unsaid' \subseteq 1 .. n
      BY <1>1, <3>3, <3>5, RangeIn
    <3> QED
      BY <3>1, <3>4, <3>6
  <2>3. StreamData'
    BY <2>1, <2>2 DEF StreamData
  <2>4. CASE Boundary /\ ~ cancelled
    BY <1>1, <1>4, <2>2, <2>3, <2>4 DEF StreamPlace, SendPartial, Say, Ended, Chunk, NoChunk
  <2>5. CASE Boundary /\ cancelled
    BY <1>1, <1>4, <2>2, <2>3, <2>5 DEF StreamPlace, SendPartial, Say, Ended
  <2>6. CASE ~ Boundary
    BY <1>1, <1>4, <2>2, <2>3, <2>6 DEF StreamPlace, SendPartial, Ended
  <2> QED
    BY <2>3, <2>4, <2>5, <2>6
<1>5. CASE StreamEnds
  <2>1. /\ chunk' \in Chunk /\ unsaid' \subseteq 1 .. n
        /\ UNCHANGED <<cancelled, full_text, offset, sent>>
    <3>1. UNCHANGED <<cancelled, full_text, offset, sent>>
      BY <1>5 DEF StreamEnds
    <3>2. chunk' = chunk \/ chunk' = [from |-> start, to |-> n, seq |-> seq + 1, last |-> TRUE, dur |-> 0]
      BY <1>5 DEF StreamEnds, Say
    <3>3. unsaid' = unsaid \/ unsaid' = unsaid \cup (start .. n)
      BY <1>5 DEF StreamEnds, Say
    <3>4. chunk' \in Chunk
      <4>1. seq + 1 \in Nat
        BY <1>1
      <4> QED
        BY <1>1, <3>2, <4>1, ChunkIs
    <3>5. 1 <= start /\ unsaid \subseteq 1 .. n
      BY DEF StreamData, StreamPlace
    <3>6. unsaid' \subseteq 1 .. n
      BY <1>1, <3>3, <3>5, RangeIn
    <3> QED
      BY <3>1, <3>4, <3>6
  <2>2. StreamData'
    BY <2>1 DEF StreamData
  <2>3. CASE Stripped # {} /\ ~ cancelled
    <3>1. start <= n
      BY <1>1, <2>3 DEF Stripped
    <3> QED
      BY <1>1, <1>5, <2>1, <2>2, <2>3, <3>1 DEF StreamPlace, StreamEnds, Say, Ended, Chunk, NoChunk
  <2>4. CASE ~ (Stripped # {} /\ ~ cancelled)
    <3>1. awaits' = "done" /\ UNCHANGED <<seq, chunk>> /\ start' = n + 1
      BY <1>5, <2>4 DEF StreamEnds
    <3>2. awaits = "next"
      BY <1>5 DEF StreamEnds
    <3> QED
      BY <1>1, <2>1, <2>2, <3>1, <3>2 DEF StreamPlace, Ended
  <2> QED
    BY <2>3, <2>4
<1>6. CASE Synthesized
  <2>1. PICK d \in Durations : chunk' = [chunk EXCEPT !.dur = d]
    BY <1>6 DEF Synthesized
  <2>2. chunk' \in Chunk /\ chunk'.from = chunk.from /\ chunk'.to = chunk.to
        /\ chunk'.seq = chunk.seq /\ chunk'.last = chunk.last
    BY <1>1, <2>1, StreamAssumption DEF Chunk
  <2>3. chunk # NoChunk
    BY <1>6, NoChunkIs DEF StreamPlace, Synthesized
  <2>4. StreamData'
    BY <1>6, <2>2 DEF StreamData, Synthesized, textVars
  <2>5. StreamPlace'
    BY <1>1, <1>6, <2>2, <2>3 DEF StreamPlace, Synthesized, textVars, Ended
  <2> QED
    BY <2>4, <2>5
<1>7. CASE SynthesisFails
  <2>1. unsaid' \subseteq 1 .. n /\ chunk' \in Chunk
    <3>1. unsaid \subseteq 1 .. n /\ chunk.to = n
      BY <1>7 DEF StreamData, StreamPlace, SynthesisFails
    <3>2. chunk.from \in Nat /\ (chunk.from .. chunk.to) \subseteq 1 .. n
      BY <1>1, <1>7, <3>1, RangeIn DEF StreamPlace, SynthesisFails, Chunk
    <3> QED
      BY <1>7, <3>1, <3>2, NoChunkIs DEF SynthesisFails
  <2>2. StreamData'
    BY <1>7, <2>1 DEF StreamData, SynthesisFails, textVars
  <2>3. StreamPlace'
    BY <1>1, <1>7 DEF StreamPlace, SynthesisFails, Resume, textVars, Ended, Chunk
  <2> QED
    BY <2>2, <2>3
<1>8. CASE SendAudio
  <2>1. sent' \in Seq(Event)
    BY <1>8, EventsSent, SentGrows DEF StreamData, SendAudio, Sent
  <2>2. StreamData'
    BY <1>8, <2>1 DEF StreamData, SendAudio, textVars
  <2>3. StreamPlace'
    BY <1>1, <1>8 DEF StreamPlace, SendAudio, textVars, Ended
  <2> QED
    BY <2>2, <2>3
<1>9. CASE SendViseme
  <2>1. sent' \in Seq(Event)
    BY <1>9, EventsSent, SentGrows DEF StreamData, SendViseme, Sent
  <2>2. chunk' \in Chunk /\ offset' \in Nat
    BY <1>1, <1>9, NoChunkIs DEF SendViseme, Chunk
  <2>3. StreamData'
    BY <1>9, <2>1, <2>2 DEF StreamData, SendViseme, textVars
  <2>4. StreamPlace'
    BY <1>1, <1>9 DEF StreamPlace, SendViseme, Resume, textVars, Ended, Chunk
  <2> QED
    BY <2>3, <2>4
<1>10. CASE Cancel
  BY <1>1, <1>10 DEF StreamData, StreamPlace, Cancel, textVars
<1>11. CASE TaskCancelled
  <2>1. sent' \in Seq(Event)
    BY <1>11, EventsSent, SentGrows DEF StreamData, TaskCancelled, Sent
  <2>2. StreamData'
    BY <1>11, <2>1 DEF StreamData, TaskCancelled, textVars
  <2>3. StreamPlace'
    BY <1>1, <1>11 DEF StreamPlace, TaskCancelled, textVars, Ended
  <2> QED
    BY <2>2, <2>3
<1>12. CASE ClientLeft
  BY <1>1, <1>12 DEF StreamData, StreamPlace, ClientLeft, textVars, Ended
<1>13. CASE UNCHANGED streamVars
  BY <1>13 DEF StreamData, StreamPlace, streamVars
<1> QED
  BY <1>2, <1>3, <1>4, <1>5, <1>6, <1>7, <1>8, <1>9, <1>10, <1>11, <1>12, <1>13 DEF StreamNext

\* What a step sends: nothing, or one event at an await of its own.
Said == [type |-> "audio_chunk", seq |-> chunk.seq, is_last |-> chunk.last,
         from |-> chunk.from, to |-> chunk.to, dur |-> chunk.dur]
Shown == [type |-> "viseme_chunk", seq |-> chunk.seq, time_offset_ms |-> offset]

Silent == Fragment \/ StreamEnds \/ Synthesized \/ SynthesisFails \/ Cancel \/ ClientLeft
          \/ UNCHANGED streamVars
Stopped == Interrupted \/ TaskCancelled

\* Silent steps send nothing.
LEMMA SilentIs ==
  ASSUME Silent
  PROVE  UNCHANGED sent
BY DEF Silent, Fragment, StreamEnds, Synthesized, SynthesisFails, Cancel, ClientLeft, streamVars

\* A turn that is stopped says so, and no more.
LEMMA StoppedIs ==
  ASSUME Stopped
  PROVE  /\ sent' = Append(sent, Interrupt)
         /\ UNCHANGED <<cancelled, seq, full_text, start, offset, chunk, unsaid>>
         /\ awaits' = "raised" \/ (awaits = "next" /\ cancelled /\ awaits' = "done")
BY DEF Stopped, Interrupted, TaskCancelled, Sent, textVars

\* Every step is silent, stops the turn, or sends one event.
LEMMA StreamCases ==
  ASSUME [StreamNext]_streamVars
  PROVE  Silent \/ Stopped \/ SendPartial \/ SendAudio \/ SendViseme
BY DEF StreamNext, Silent, Stopped

\* The places of a type, with one more, which is after them.
LEMMA CountGrows ==
  ASSUME NEW s \in Seq(Event), NEW type, IsFiniteSet(PlacesOf(s, type))
  PROVE  /\ IsFiniteSet(PlacesOf(s, type) \cup {Len(s) + 1})
         /\ Cardinality(PlacesOf(s, type) \cup {Len(s) + 1}) = Cardinality(PlacesOf(s, type)) + 1
         /\ Cardinality(PlacesOf(s, type)) \in Nat
<1>1. Len(s) + 1 \notin PlacesOf(s, type)
  BY DEF PlacesOf
<1> QED
  BY <1>1, FS_AddElement, FS_CardinalityType

\* Every fragment that is sent has the number that it has among the fragments.
LEMMA PartialsStep ==
  ASSUME StreamData, StreamPlace, PartialsCount, [StreamNext]_streamVars
  PROVE  PartialsCount'
<1> DEFINE E == Events("chat_partial")
           UpTo(i) == {j \in E : j <= i}
           n == Len(full_text)
<1>1. sent \in Seq(Event) /\ n \in Nat /\ E \subseteq 1 .. Len(sent) /\ Len(sent) \in Nat
  BY DEF StreamData, Events
<1>2. E = PlacesOf(sent, "chat_partial")
  BY EventsAre
<1>3. CASE Silent
  <2>1. UNCHANGED sent /\ E' = E
    BY <1>3, SilentIs, SentStays
  <2>2. /\ IsFiniteSet(E')
        /\ \A i \in E' : sent'[i].seq = Cardinality({j \in E' : j <= i})
    BY <2>1 DEF PartialsCount
  <2>3. CASE Fragment
    <3>1. Len(full_text') = n + 1 /\ awaits = "next" /\ awaits' = "partial"
      BY <1>1, <2>3 DEF Fragment, StreamData
    <3>2. Cardinality(E) = n
      BY <3>1 DEF PartialsCount
    <3>3. Cardinality(E') = Len(full_text') - 1
      BY <1>1, <2>1, <3>1, <3>2
    <3> QED
      BY <2>2, <3>1, <3>3 DEF PartialsCount
  <2>4. CASE ~ Fragment
    <3>1. UNCHANGED full_text
      BY <1>3, <2>4 DEF Silent, StreamEnds, Synthesized, SynthesisFails, Cancel, ClientLeft, streamVars, textVars
    <3>2. (awaits' = "partial" => awaits = "partial")
          /\ (awaits' \notin {"partial", "raised"} => awaits \notin {"partial", "raised"})
      BY <1>3, <2>4
      DEF Silent, StreamEnds, Say, Synthesized, SynthesisFails, Resume, Cancel, ClientLeft, streamVars
    <3> QED
      BY <2>1, <2>2, <3>1, <3>2 DEF PartialsCount
  <2> QED
    BY <2>3, <2>4
<1>4. CASE SendPartial
  <2>1. awaits = "partial" /\ sent' = Append(sent, Partial) /\ full_text' = full_text
        /\ awaits' \in {"next", "synth"}
    BY <1>4 DEF SendPartial, Sent, Say
  <2>2. Partial.type = "chat_partial" /\ Partial.seq = n
    BY <2>1 DEF StreamPlace, Partial
  <2>3. E' = E \cup {Len(sent) + 1} /\ sent'[Len(sent) + 1] = Partial
        /\ \A i \in 1 .. Len(sent) : sent'[i] = sent[i]
    BY <1>1, <2>1, <2>2, EventsSent, SentGrows
  <2>4. IsFiniteSet(E') /\ Cardinality(E') = Cardinality(E) + 1 /\ Cardinality(E) = n - 1
    BY <1>1, <1>2, <2>1, <2>3, CountGrows DEF PartialsCount
  <2>5. Cardinality(E') = n
    BY <1>1, <2>4
  <2>6. ASSUME NEW i \in E' PROVE sent'[i].seq = Cardinality({j \in E' : j <= i})
    <3>1. CASE i \in E
      <4>1. {j \in E' : j <= i} = {j \in E : j <= i}
        BY <1>1, <2>3, <3>1
      <4> QED
        BY <1>1, <2>3, <3>1, <4>1 DEF PartialsCount
    <3>2. CASE i = Len(sent) + 1
      <4>1. {j \in E' : j <= i} = E'
        BY <1>1, <2>3, <3>2
      <4> QED
        BY <2>2, <2>3, <2>5, <3>2, <4>1
    <3> QED
      BY <2>3, <2>6, <3>1, <3>2
  <2> QED
    BY <2>1, <2>4, <2>5, <2>6 DEF PartialsCount
<1>5. ASSUME NEW e \in Event, e.type # "chat_partial", sent' = Append(sent, e), UNCHANGED full_text,
             awaits' # "partial", awaits' = "raised" \/ awaits \notin {"partial", "raised"}
      PROVE  PartialsCount'
  <2>1. E' = E /\ \A i \in E : sent'[i] = sent[i]
    BY <1>1, <1>5, SentGrows
  <2> QED
    BY <1>5, <2>1 DEF PartialsCount
<1>6. CASE Stopped
  <2>1. Interrupt \in Event /\ Interrupt.type # "chat_partial"
    BY EventsSent DEF Interrupt
  <2> QED
    BY <1>5, <1>6, <2>1, StoppedIs
<1>7. CASE SendAudio
  <2>1. Said \in Event /\ Said.type # "chat_partial"
    BY EventsSent DEF Said
  <2>2. sent' = Append(sent, Said) /\ UNCHANGED full_text /\ awaits = "audio" /\ awaits' = "viseme"
    BY <1>7 DEF SendAudio, Sent, Said, textVars
  <2> QED
    BY <1>5, <2>1, <2>2
<1>8. CASE SendViseme
  <2>1. Shown \in Event /\ Shown.type # "chat_partial"
    BY EventsSent DEF Shown
  <2>2. sent' = Append(sent, Shown) /\ UNCHANGED full_text /\ awaits = "viseme" /\ awaits' \in {"done", "next"}
    BY <1>8 DEF SendViseme, Sent, Shown, Resume, textVars
  <2> QED
    BY <1>5, <2>1, <2>2
<1> QED
  BY <1>3, <1>4, <1>6, <1>7, <1>8, StreamCases

\* An audio is typed.
LEMMA AudioIs ==
  ASSUME sent \in Seq(Event), NEW i \in Events("audio_chunk")
  PROVE  sent[i] \in Audios /\ i \in 1 .. Len(sent)
         /\ sent[i].from \in Nat /\ sent[i].to \in Nat /\ sent[i].seq \in Nat /\ sent[i].dur \in Nat
<1>1. i \in 1 .. Len(sent) /\ sent[i].type = "audio_chunk"
  BY DEF Events
<1>2. sent[i] \in Event
  BY <1>1
<1>3. sent[i] \in Audios
  BY <1>1, <1>2 DEF Event, Partials, Visemes, Interrupt
<1> QED
  BY <1>1, <1>3 DEF Audios

\* Where the buffer starts is never moved back, and a chunk is what the buffer held.
LEMMA StartMoves ==
  ASSUME StreamData, StreamPlace, [StreamNext]_streamVars
  PROVE  /\ start \in Nat /\ start' \in Nat /\ start <= start'
         /\ awaits' \in {"synth", "audio"} =>
              chunk'.from = start \/ (awaits \in {"synth", "audio"} /\ chunk'.from = chunk.from)
<1>1. start \in 1 .. Len(full_text) + 1 /\ Len(full_text) \in Nat /\ chunk \in Chunk
  BY DEF StreamPlace, StreamData
<1>2. start' = start \/ start' = Len(full_text) + 1
  BY DEF StreamNext, Fragment, Interrupted, SendPartial, Say, StreamEnds, Synthesized,
         SynthesisFails, SendAudio, SendViseme, Cancel, TaskCancelled, ClientLeft, textVars, streamVars
<1>3. start \in Nat /\ start' \in Nat /\ start <= start'
  BY <1>1, <1>2
<1>4. ASSUME awaits' \in {"synth", "audio"}
      PROVE  chunk'.from = start \/ (awaits \in {"synth", "audio"} /\ chunk'.from = chunk.from)
  <2>1. CASE Synthesized
    BY <1>1, <2>1 DEF Synthesized, Chunk
  <2>2. CASE SendPartial
    BY <1>4, <2>2 DEF SendPartial, Say
  <2>3. CASE StreamEnds
    BY <1>4, <2>3 DEF StreamEnds, Say
  <2>4. CASE SendAudio
    BY <1>4, <2>4 DEF SendAudio
  <2>5. CASE Fragment \/ Interrupted \/ SynthesisFails \/ SendViseme \/ TaskCancelled \/ ClientLeft
    BY <1>4, <2>5 DEF Fragment, Interrupted, SynthesisFails, SendViseme, Resume, TaskCancelled, ClientLeft
  <2>6. CASE Cancel \/ UNCHANGED streamVars
    BY <1>4, <2>6 DEF Cancel, streamVars
  <2> QED
    BY <2>1, <2>2, <2>3, <2>4, <2>5, <2>6 DEF StreamNext
<1> QED
  BY <1>3, <1>4

\* An audio follows the audio before it.
LEMMA AudioStep ==
  ASSUME StreamData, StreamPlace, PartialsCount, AudioOrder, PartialsCount',
         [StreamNext]_streamVars
  PROVE  AudioOrder'
<1> DEFINE A == Events("audio_chunk")
           P == Cardinality(Events("chat_partial"))
           L == Len(sent)
<1>1. sent \in Seq(Event) /\ L \in Nat /\ A \subseteq 1 .. L /\ P \in Nat /\ chunk \in Chunk
  BY FS_CardinalityType DEF StreamData, Events, PartialsCount
<1>2. ASSUME A' = A, \A i \in A : sent'[i] = sent[i], P' \in Nat, P <= P'
      PROVE  AudioOrder'
  <2>1. ASSUME NEW i \in A
        PROVE  /\ 1 <= sent[i].from /\ sent[i].from <= sent[i].to /\ sent[i].to < start'
               /\ sent[i].to <= P'
               /\ sent[i].seq = sent[i].to + IF sent[i].is_last THEN 1 ELSE 0
               /\ awaits' \in {"synth", "audio"} => sent[i].to < chunk'.from
    <3>1. /\ 1 <= sent[i].from /\ sent[i].from <= sent[i].to /\ sent[i].to < start
          /\ sent[i].to <= P
          /\ sent[i].seq = sent[i].to + IF sent[i].is_last THEN 1 ELSE 0
          /\ awaits \in {"synth", "audio"} => sent[i].to < chunk.from
      BY DEF AudioOrder
    <3>2. sent[i].to \in Nat
      BY <1>1, AudioIs
    <3>3. sent[i].to < start' /\ (awaits' \in {"synth", "audio"} => sent[i].to < chunk'.from)
      BY <3>1, <3>2, StartMoves
    <3>4. sent[i].to <= P'
      BY <1>1, <1>2, <3>1, <3>2
    <3> QED
      BY <3>1, <3>3, <3>4
  <2>2. \A i, j \in A : i < j => sent[i].to < sent[j].from
    BY DEF AudioOrder
  <2> QED
    BY <1>2, <2>1, <2>2 DEF AudioOrder
<1>3. CASE Silent
  <2>1. UNCHANGED sent /\ A' = A /\ P' = P
    BY <1>3, SilentIs, SentStays
  <2> QED
    BY <1>1, <1>2, <2>1
<1>4. CASE SendPartial
  <2>1. awaits = "partial" /\ sent' = Append(sent, Partial) /\ full_text' = full_text
        /\ Partial.type = "chat_partial"
    BY <1>4 DEF SendPartial, Sent, Partial
  <2>2. /\ \A i \in 1 .. L : sent'[i] = sent[i]
        /\ A' = A
        /\ Events("chat_partial")' = Events("chat_partial") \cup {L + 1}
    BY <1>1, <2>1, EventsSent, SentGrows
  <2>3. P' = P + 1
    BY <1>1, <2>2, CountGrows, EventsAre DEF PartialsCount
  <2> QED
    BY <1>1, <1>2, <2>2, <2>3
<1>5. ASSUME NEW e \in Event, e.type \notin {"chat_partial", "audio_chunk"}, sent' = Append(sent, e)
      PROVE  AudioOrder'
  <2>1. (\A i \in 1 .. L : sent'[i] = sent[i]) /\ A' = A
        /\ Events("chat_partial")' = Events("chat_partial")
    BY <1>1, <1>5, SentGrows
  <2> QED
    BY <1>1, <1>2, <2>1
<1>6. CASE Stopped
  <2>1. Interrupt \in Event /\ Interrupt.type \notin {"chat_partial", "audio_chunk"}
    BY EventsSent DEF Interrupt
  <2> QED
    BY <1>5, <1>6, <2>1, StoppedIs
<1>7. CASE SendViseme
  <2>1. Shown \in Event /\ Shown.type \notin {"chat_partial", "audio_chunk"}
    BY EventsSent DEF Shown
  <2>2. sent' = Append(sent, Shown)
    BY <1>7 DEF SendViseme, Sent, Shown
  <2> QED
    BY <1>5, <2>1, <2>2
<1>8. CASE SendAudio
  <2>1. Said \in Event /\ Said.type = "audio_chunk" /\ sent' = Append(sent, Said)
        /\ awaits = "audio" /\ awaits' = "viseme" /\ start' = start
    BY <1>8, EventsSent DEF SendAudio, Sent, Said, textVars
  <2>2. /\ Said.from = chunk.from /\ Said.to = chunk.to /\ Said.seq = chunk.seq /\ Said.is_last = chunk.last
        /\ chunk.from \in Nat /\ chunk.to \in Nat
    BY <1>1 DEF Said, Chunk
  <2>3. /\ \A i \in 1 .. L : sent'[i] = sent[i]
        /\ sent'[L + 1] = Said
        /\ A' = A \cup {L + 1}
        /\ Events("chat_partial")' = Events("chat_partial")
    BY <1>1, <2>1, SentGrows
  <2>4. 1 <= chunk.from /\ chunk.from <= chunk.to /\ chunk.to < start /\ chunk.to <= P
        /\ chunk.seq = chunk.to + (IF chunk.last THEN 1 ELSE 0)
    BY <1>1, <2>1, <2>2, NoChunkIs DEF StreamPlace, PartialsCount
  <2>5. ASSUME NEW i \in A'
        PROVE  /\ 1 <= sent'[i].from /\ sent'[i].from <= sent'[i].to /\ sent'[i].to < start'
               /\ sent'[i].to <= P'
               /\ sent'[i].seq = sent'[i].to + IF sent'[i].is_last THEN 1 ELSE 0
    <3>1. CASE i \in A
      BY <1>1, <2>1, <2>3, <3>1 DEF AudioOrder
    <3>2. CASE i = L + 1
      BY <2>1, <2>2, <2>3, <2>4, <3>2
    <3> QED
      BY <2>3, <3>1, <3>2
  <2>6. ASSUME NEW i \in A', NEW j \in A', i < j
        PROVE  sent'[i].to < sent'[j].from
    <3>1. i \in A /\ (j \in A \/ j = L + 1)
      BY <1>1, <2>3, <2>6
    <3>2. sent'[i] = sent[i] /\ sent[i].to < chunk.from
      BY <1>1, <2>1, <2>3, <3>1 DEF AudioOrder
    <3>3. CASE j \in A
      BY <1>1, <2>3, <2>6, <3>1, <3>3 DEF AudioOrder
    <3>4. CASE j = L + 1
      BY <2>2, <2>3, <3>2, <3>4
    <3> QED
      BY <3>1, <3>3, <3>4
  <2> QED
    BY <2>1, <2>5, <2>6 DEF AudioOrder
<1> QED
  BY <1>3, <1>4, <1>6, <1>7, <1>8, StreamCases

\* What was sent is not changed by a step.
LEMMA SentKept ==
  ASSUME StreamData, StreamPlace, [StreamNext]_streamVars
  PROVE  /\ Len(sent') \in Nat /\ Len(sent) <= Len(sent')
         /\ \A i \in 1 .. Len(sent) : sent'[i] = sent[i]
         /\ \A type : Events(type) \subseteq Events(type)'
<1>1. Len(sent) \in Nat /\ sent \in Seq(Event)
  BY DEF StreamData
<1>2. CASE UNCHANGED sent
  BY <1>1, <1>2, SentStays
<1>3. ASSUME NEW e \in Event, sent' = Append(sent, e)
      PROVE  /\ Len(sent') \in Nat /\ Len(sent) <= Len(sent')
             /\ \A i \in 1 .. Len(sent) : sent'[i] = sent[i]
             /\ \A type : Events(type) \subseteq Events(type)'
  <2>1. /\ Len(sent') = Len(sent) + 1
        /\ \A i \in 1 .. Len(sent) : sent'[i] = sent[i]
        /\ Events(e.type)' = Events(e.type) \cup {Len(sent) + 1}
        /\ \A type : type # e.type => Events(type)' = Events(type)
    BY <1>1, <1>3, SentGrows
  <2>2. Len(sent') \in Nat /\ Len(sent) <= Len(sent')
    BY <1>1, <2>1
  <2>3. ASSUME NEW type PROVE Events(type) \subseteq Events(type)'
    BY <2>1
  <2> QED
    BY <2>1, <2>2, <2>3
<1>4. \E e \in Event : sent' = Append(sent, e) \/ UNCHANGED sent
  <2>1. CASE Silent
    BY <2>1, SilentIs, EventsSent
  <2>2. CASE Stopped
    BY <2>2, StoppedIs, EventsSent
  <2>3. CASE SendPartial
    BY <2>3, EventsSent DEF SendPartial, Sent
  <2>4. CASE SendAudio
    BY <2>4, EventsSent DEF SendAudio, Sent
  <2>5. CASE SendViseme
    BY <2>5, EventsSent DEF SendViseme, Sent
  <2> QED
    BY <2>1, <2>2, <2>3, <2>4, <2>5, StreamCases
<1> QED
  BY <1>2, <1>3, <1>4

\* What was spoken stays spoken, and an audio that is sent speaks its range.
LEMMA SpokenGrows ==
  ASSUME StreamData, StreamPlace, [StreamNext]_streamVars
  PROVE  /\ Spoken \subseteq Spoken'
         /\ SendAudio => chunk.from .. chunk.to \subseteq Spoken'
<1> DEFINE A == Events("audio_chunk")
<1>1. A \subseteq 1 .. Len(sent) /\ A \subseteq A' /\ \A i \in A : sent'[i] = sent[i]
  BY SentKept DEF Events
<1>2. \A x : x \in Spoken <=> \E i \in A : x \in sent[i].from .. sent[i].to
  BY DEF Spoken
<1>3. \A x : x \in Spoken' <=> \E i \in A' : x \in sent'[i].from .. sent'[i].to
  BY DEF Spoken
<1>4. Spoken \subseteq Spoken'
  BY <1>1, <1>2, <1>3
<1>5. ASSUME SendAudio PROVE chunk.from .. chunk.to \subseteq Spoken'
  <2>1. sent' = Append(sent, Said) /\ Said \in Event /\ Said.type = "audio_chunk" /\ sent \in Seq(Event)
    BY <1>5, EventsSent DEF SendAudio, Sent, Said, StreamData
  <2>2. Len(sent) + 1 \in A' /\ sent'[Len(sent) + 1] = Said
    BY <2>1, SentGrows
  <2>3. Said.from = chunk.from /\ Said.to = chunk.to
    BY DEF Said
  <2> QED
    BY <1>3, <2>2, <2>3
<1> QED
  BY <1>4, <1>5

\* What is covered stays covered, and more is with what a step speaks or gives up.
LEMMA CoverStep ==
  ASSUME StreamData, StreamPlace, [StreamNext]_streamVars,
         NEW k \in Nat, NEW m \in Nat, Covered(k), m <= Len(full_text),
         \A i \in 1 .. m : i \in 1 .. k \/ i \in Spoken' \cup unsaid' \/ full_text[i] = "blank"
  PROVE  \A i \in 1 .. m : i \in Spoken' \cup unsaid' \/ full_text'[i] = "blank"
<1>1. Spoken \subseteq Spoken'
  BY SpokenGrows
<1>2. unsaid \subseteq unsaid'
  BY DEF StreamNext, Fragment, Interrupted, SendPartial, Say, StreamEnds, Synthesized,
         SynthesisFails, SendAudio, SendViseme, Cancel, TaskCancelled, ClientLeft, textVars, streamVars
<1>3. \A i \in 1 .. Len(full_text) : full_text'[i] = full_text[i]
  <2>1. CASE Fragment
    BY <2>1 DEF Fragment, StreamData
  <2>2. CASE ~ Fragment
    BY <2>2 DEF StreamNext, Interrupted, SendPartial, StreamEnds, Synthesized, SynthesisFails,
                SendAudio, SendViseme, Cancel, TaskCancelled, ClientLeft, textVars, streamVars
  <2> QED
    BY <2>1, <2>2
<1>4. TAKE i \in 1 .. m
<1>5. i \in 1 .. Len(full_text)
  BY DEF StreamData
<1>6. full_text'[i] = full_text[i]
  BY <1>3, <1>5
<1>7. i \in 1 .. k \/ i \in Spoken' \cup unsaid' \/ full_text[i] = "blank"
  OBVIOUS
<1>8. i \in 1 .. k => i \in Spoken \cup unsaid \/ full_text[i] = "blank"
  BY DEF Covered
<1> QED
  BY <1>1, <1>2, <1>6, <1>7, <1>8

\* What is behind the buffer, and behind the chunk, stays covered.
LEMMA CoveredStep ==
  ASSUME StreamData, StreamPlace, TextCovered, [StreamNext]_streamVars
  PROVE  TextCovered'
<1> DEFINE n == Len(full_text)
           Cover(m) == \A i \in 1 .. m : i \in Spoken' \cup unsaid' \/ full_text'[i] = "blank"
<1>1. n \in Nat /\ start \in 1 .. n + 1 /\ chunk \in Chunk
  BY DEF StreamData, StreamPlace
<1>2. ASSUME NEW k \in Nat, NEW m \in Nat, Covered(k), m <= n,
             \A i \in 1 .. m : i \in 1 .. k \/ i \in Spoken' \cup unsaid' \/ full_text[i] = "blank"
      PROVE  Cover(m)
  BY <1>2, CoverStep
<1>3. ASSUME NEW k \in Nat, Covered(k), k <= n PROVE Cover(k)
  BY <1>2, <1>3
<1>4. ASSUME awaits' \in {"next", "partial", "viseme"} \/ (awaits' = "done" /\ ~ cancelled') => Cover(start' - 1),
             awaits' \in {"synth", "audio"} => Cover(chunk'.from - 1)
      PROVE  TextCovered'
  BY <1>4 DEF TextCovered, Covered
<1>5. start - 1 \in Nat /\ start - 1 <= n /\ n <= n
  BY <1>1
<1>6. chunk.from \in Nat /\ chunk.to \in Nat
  BY <1>1 DEF Chunk
<1>7. awaits \in {"synth", "audio"} =>
        /\ chunk.from - 1 \in Nat /\ chunk.from - 1 <= n
        /\ chunk.from <= chunk.to /\ chunk.to = n /\ start = n + 1
  BY <1>1, <1>6, NoChunkIs DEF StreamPlace
<1>8. awaits \in {"next", "partial", "viseme"} => Covered(start - 1)
  BY DEF TextCovered
<1>9. awaits \in {"synth", "audio"} => Covered(chunk.from - 1)
  BY DEF TextCovered
<1> HIDE DEF n, Cover
<1>10. CASE Fragment
  BY <1>3, <1>4, <1>5, <1>8, <1>10 DEF Fragment
<1>11. CASE Stopped
  <2>1. awaits' = "raised" \/ (cancelled' = cancelled /\ cancelled /\ awaits' = "done")
    BY <1>11, StoppedIs
  <2> QED
    BY <1>4, <2>1
<1>12. CASE SendPartial
  <2>1. Cover(start - 1) /\ awaits = "partial"
    BY <1>3, <1>5, <1>8, <1>12 DEF SendPartial
  <2>2. CASE ~ Boundary
    BY <1>4, <1>12, <2>1, <2>2 DEF SendPartial
  <2>3. CASE Boundary /\ ~ cancelled
    <3>1. awaits' = "synth" /\ chunk'.from = start
      BY <1>12, <2>3 DEF SendPartial, Say
    <3> QED
      BY <1>4, <2>1, <3>1
  <2>4. CASE Boundary /\ cancelled
    <3>1. awaits' = "next" /\ unsaid' = unsaid \cup (start .. n) /\ start' = n + 1
      BY <1>12, <2>4 DEF SendPartial, Say, n
    <3>2. \A i \in 1 .. n : i \in 1 .. (start - 1) \/ i \in start .. n
      BY <1>1
    <3>3. Cover(n)
      BY <1>1, <1>2, <1>5, <1>8, <2>1, <3>1, <3>2
    <3>4. start' - 1 = n
      BY <1>1, <3>1
    <3> QED
      BY <1>4, <3>1, <3>3, <3>4
  <2> QED
    BY <2>2, <2>3, <2>4
<1>13. CASE StreamEnds
  <2>1. Cover(start - 1) /\ awaits = "next" /\ cancelled' = cancelled
    BY <1>3, <1>5, <1>8, <1>13 DEF StreamEnds
  <2>2. CASE Stripped # {} /\ ~ cancelled
    <3>1. awaits' = "synth" /\ chunk'.from = start
      BY <1>13, <2>2 DEF StreamEnds, Say
    <3> QED
      BY <1>4, <2>1, <3>1
  <2>3. CASE ~ (Stripped # {} /\ ~ cancelled)
    <3>1. awaits' = "done" /\ start' = n + 1
      BY <1>13, <2>3 DEF StreamEnds, n
    <3>2. ASSUME ~ cancelled PROVE Cover(n)
      <4>1. \A i \in start .. n : full_text[i] = "blank"
        BY <2>3, <3>2 DEF Stripped, n
      <4>2. \A i \in 1 .. n : i \in 1 .. (start - 1) \/ i \in start .. n
        BY <1>1
      <4> QED
        BY <1>1, <1>2, <1>5, <1>8, <2>1, <4>1, <4>2
    <3>3. start' - 1 = n
      BY <1>1, <3>1
    <3> QED
      BY <1>4, <2>1, <3>1, <3>2, <3>3
  <2> QED
    BY <2>2, <2>3
<1>14. CASE Synthesized
  <2>1. awaits = "synth" /\ awaits' = "audio" /\ chunk'.from = chunk.from
    BY <1>1, <1>14 DEF Synthesized, Chunk
  <2>2. Cover(chunk.from - 1)
    BY <1>3, <1>7, <1>9, <2>1
  <2> QED
    BY <1>4, <2>1, <2>2
<1>15. ASSUME awaits \in {"synth", "audio"}, chunk.from .. chunk.to \subseteq Spoken' \cup unsaid',
              start' = start, awaits' \notin {"synth", "audio"}
       PROVE  TextCovered'
  <2>1. \A i \in 1 .. n : i \in 1 .. (chunk.from - 1) \/ i \in chunk.from .. chunk.to
    BY <1>1, <1>6, <1>7, <1>15
  <2>2. Cover(n)
    BY <1>1, <1>2, <1>5, <1>7, <1>9, <1>15, <2>1
  <2>3. start' - 1 = n
    BY <1>1, <1>7, <1>15
  <2> QED
    BY <1>4, <1>15, <2>2, <2>3
<1>16. CASE SynthesisFails
  BY <1>15, <1>16 DEF SynthesisFails, Resume, textVars
<1>17. CASE SendAudio
  BY <1>15, <1>17, SpokenGrows DEF SendAudio, textVars
<1>18. CASE SendViseme
  <2>1. awaits = "viseme" /\ awaits' \in {"next", "done"} /\ start' = start
    BY <1>18 DEF SendViseme, Resume, textVars
  <2> QED
    BY <1>3, <1>4, <1>5, <1>8, <2>1
<1>19. CASE ClientLeft
  BY <1>4, <1>19 DEF ClientLeft
<1>20. CASE Cancel \/ UNCHANGED streamVars
  <2>1. UNCHANGED <<awaits, start, chunk, full_text, sent, unsaid>>
        /\ (awaits = "done" => cancelled' = cancelled)
    BY <1>20 DEF Cancel, Ended, textVars, streamVars
  <2>2. Spoken' = Spoken
    BY <2>1 DEF Spoken, Events
  <2> QED
    BY <2>1, <2>2 DEF TextCovered, Covered
<1> QED
  BY <1>10, <1>11, <1>12, <1>13, <1>14, <1>16, <1>17, <1>18, <1>19, <1>20 DEF StreamNext, Stopped

\* Visemes follow their audio, at the offset at which it starts.
LEMMA VisemeStep ==
  ASSUME StreamData, StreamPlace, VisemesFollow, OffsetsSum, [StreamNext]_streamVars
  PROVE  VisemesFollow' /\ OffsetsSum'
<1> DEFINE A == Events("audio_chunk")
           V == Events("viseme_chunk")
           L == Len(sent)
<1>1. /\ sent \in Seq(Event) /\ L \in Nat /\ A \subseteq 1 .. L /\ V \subseteq 1 .. L
      /\ offset \in Nat /\ chunk \in Chunk
  BY DEF StreamData, Events
<1>2. Played \in [0 .. L -> Nat] /\ Played[0] = 0
      /\ \A i \in 1 .. L : Played[i] = Played[i - 1] + Lasts(sent[i])
  BY PlayedTypes
<1>3. \A i \in V : i - 1 \in A /\ sent[i - 1].seq = sent[i].seq /\ sent[i].time_offset_ms = Played[i - 2]
  BY DEF VisemesFollow, OffsetsSum, OffsetsAddUp
<1>4. \A i \in V : i - 2 \in 0 .. L /\ i - 1 \in 1 .. L
  BY <1>1, <1>3
<1>5. CASE Silent
  <2>1. UNCHANGED sent /\ A' = A /\ V' = V /\ Played' = Played
    BY <1>5, SilentIs, SentStays
  <2>2. OffsetsAddUp'
    BY <1>3, <2>1 DEF OffsetsAddUp
  <2>3. \/ awaits = "viseme" /\ awaits' = "viseme" /\ UNCHANGED <<offset, chunk>>
        \/ awaits' = "raised"
        \/ awaits \notin {"viseme", "raised"} /\ awaits' # "viseme" /\ offset' = offset
    BY <1>5 DEF Silent, Fragment, StreamEnds, Say, Synthesized, SynthesisFails, Resume, Cancel,
                ClientLeft, streamVars, StreamPlace, Ended
  <2>4. VisemesFollow'
    BY <2>1, <2>3 DEF VisemesFollow
  <2>5. OffsetsSum'
    BY <2>1, <2>2, <2>3 DEF OffsetsSum
  <2> QED
    BY <2>4, <2>5
<1>6. ASSUME NEW e \in Event, e.type # "viseme_chunk", sent' = Append(sent, e)
      PROVE  /\ \A i \in V' : i - 1 \in A' /\ sent'[i - 1].seq = sent'[i].seq
             /\ OffsetsAddUp'
  <2>1. /\ \A i \in 1 .. L : sent'[i] = sent[i]
        /\ V' = V /\ A \subseteq A'
        /\ \A i \in 0 .. L : Played'[i] = Played[i]
    BY <1>1, <1>6, SentGrows, SentKept
  <2>2. ASSUME NEW i \in V
        PROVE  i - 1 \in A' /\ sent'[i - 1].seq = sent'[i].seq /\ sent'[i].time_offset_ms = Played'[i - 2]
    BY <1>1, <1>3, <1>4, <2>1
  <2> QED
    BY <2>1, <2>2 DEF OffsetsAddUp
<1>7. ASSUME NEW e \in Event, Lasts(e) = 0, e.type # "viseme_chunk", sent' = Append(sent, e),
             awaits \notin {"viseme", "raised"}, awaits' # "viseme", offset' = offset
      PROVE  VisemesFollow' /\ OffsetsSum'
  <2>1. Len(sent') = L + 1 /\ Played'[L + 1] = Played[L] + 0
    BY <1>1, <1>7, SentGrows
  <2>2. Played[L] \in Nat /\ offset = Played[L]
    BY <1>1, <1>2, <1>7 DEF OffsetsSum
  <2>3. Played'[Len(sent')] = offset'
    BY <1>7, <2>1, <2>2
  <2> QED
    BY <1>6, <1>7, <2>3 DEF VisemesFollow, OffsetsSum
<1>8. CASE Stopped
  <2>1. Interrupt \in Event /\ Interrupt.type = "turn_interrupt" /\ Lasts(Interrupt) = 0
    BY EventsSent DEF Interrupt, Lasts
  <2>2. sent' = Append(sent, Interrupt) /\ offset' = offset
        /\ (awaits' = "raised" \/ (awaits = "next" /\ awaits' = "done"))
    BY <1>8, StoppedIs
  <2>3. CASE awaits' = "raised"
    BY <1>6, <2>1, <2>2, <2>3 DEF VisemesFollow, OffsetsSum
  <2>4. CASE awaits = "next" /\ awaits' = "done"
    BY <1>7, <2>1, <2>2, <2>4
  <2> QED
    BY <2>2, <2>3, <2>4
<1>9. CASE SendPartial
  <2>1. awaits = "partial" /\ sent' = Append(sent, Partial) /\ offset' = offset
        /\ awaits' \in {"next", "synth"}
    BY <1>9 DEF SendPartial, Sent, Say
  <2>2. Partial \in Event /\ Partial.type = "chat_partial" /\ Lasts(Partial) = 0
    BY <2>1, EventsSent DEF Partial, Lasts
  <2> QED
    BY <1>7, <2>1, <2>2
<1>10. CASE SendAudio
  <2>1. Said \in Event /\ Said.type = "audio_chunk" /\ sent' = Append(sent, Said)
        /\ awaits = "audio" /\ awaits' = "viseme" /\ offset' = offset /\ chunk' = chunk
    BY <1>10, EventsSent DEF SendAudio, Sent, Said
  <2>2. Said.seq = chunk.seq /\ Said.dur = chunk.dur
    BY DEF Said
  <2>3. /\ Len(sent') = L + 1 /\ sent'[L + 1] = Said /\ L + 1 \in A'
        /\ Played'[L] = Played[L]
    BY <1>1, <2>1, SentGrows
  <2>4. offset = Played[L] /\ Len(sent') - 1 = L
    BY <1>1, <2>1, <2>3 DEF OffsetsSum
  <2>5. OffsetsSum'
    BY <1>6, <2>1, <2>3, <2>4 DEF OffsetsSum
  <2>6. VisemesFollow'
    BY <1>6, <2>1, <2>2, <2>3 DEF VisemesFollow
  <2> QED
    BY <2>5, <2>6
<1>11. CASE SendViseme
  <2>1. Shown \in Event /\ Shown.type = "viseme_chunk" /\ sent' = Append(sent, Shown)
        /\ awaits = "viseme" /\ awaits' \in {"done", "next"} /\ offset' = offset + chunk.dur
    BY <1>11, EventsSent DEF SendViseme, Sent, Shown, Resume
  <2>2. Shown.seq = chunk.seq /\ Shown.time_offset_ms = offset /\ Lasts(Shown) = 0
    BY DEF Shown, Lasts
  <2>3. /\ \A i \in 1 .. L : sent'[i] = sent[i]
        /\ Len(sent') = L + 1 /\ sent'[L + 1] = Shown
        /\ V' = V \cup {L + 1} /\ A' = A
        /\ \A i \in 0 .. L : Played'[i] = Played[i]
        /\ Played'[L + 1] = Played[L] + 0
    BY <1>1, <2>1, <2>2, SentGrows
  <2>4. L \in A /\ sent[L].seq = chunk.seq /\ sent[L].dur = chunk.dur /\ offset = Played[L - 1]
    BY <2>1 DEF VisemesFollow, OffsetsSum
  <2>5. L \in 1 .. L /\ L \in 0 .. L /\ L - 1 \in 0 .. L /\ sent[L].type = "audio_chunk"
    BY <1>1, <2>4 DEF Events
  <2>6. Played[L] = offset + chunk.dur /\ Played[L] \in Nat
    BY <1>2, <2>4, <2>5 DEF Lasts
  <2>7. Played'[Len(sent')] = offset'
    BY <2>1, <2>3, <2>6
  <2>8. ASSUME NEW i \in V'
        PROVE  i - 1 \in A' /\ sent'[i - 1].seq = sent'[i].seq /\ sent'[i].time_offset_ms = Played'[i - 2]
    <3>1. CASE i \in V
      BY <1>1, <1>3, <1>4, <2>3, <3>1
    <3>2. CASE i = L + 1
      <4>1. i - 1 = L /\ i - 2 = L - 1
        BY <1>1, <3>2
      <4> QED
        BY <2>2, <2>3, <2>4, <2>5, <3>2, <4>1
    <3> QED
      BY <2>3, <2>8, <3>1, <3>2
  <2>9. VisemesFollow'
    BY <2>1, <2>8 DEF VisemesFollow
  <2>10. OffsetsSum'
    BY <2>1, <2>7, <2>8 DEF OffsetsSum, OffsetsAddUp
  <2> QED
    BY <2>9, <2>10
<1> QED
  BY <1>5, <1>8, <1>9, <1>10, <1>11, StreamCases

\* The invariant is inductive,
LEMMA StreamInvStep ==
  ASSUME StreamInv, [StreamNext]_streamVars
  PROVE  StreamInv'
BY PlaceStep, PartialsStep, AudioStep, CoveredStep, VisemeStep DEF StreamInv

\* and holds in every state.
LEMMA StreamInvHolds == StreamSpec => []StreamInv
<1>1. StreamInit => StreamInv
  BY StreamInvInit
<1>2. StreamInv /\ [StreamNext]_streamVars => StreamInv'
  BY StreamInvStep
<1> QED
  BY <1>1, <1>2, PTL DEF StreamSpec

\* What the client is sent belongs together: the fragments are numbered without gaps,
\* an audio has the number of the fragment that completed its sentence, and its visemes
\* follow at once under that number and at the time at which the audio starts.
THEOREM ChunksBelongTogether == StreamSpec => []ChunksPair
<1>1. ASSUME StreamInv PROVE ChunksPair
  <2>1. Len(full_text) \in Nat /\ seq \in 0 .. Len(full_text) + 1 /\ chunk \in Chunk
        /\ Len(full_text) <= MaxFragments
    BY <1>1 DEF StreamInv, StreamData, StreamPlace
  <2>2. StreamTypes
    <3>1. seq \in 0 .. MaxFragments + 1
      BY <2>1, StreamAssumption
    <3>2. awaits # "raised" => (chunk # NoChunk) = (awaits \in {"synth", "audio", "viseme"})
      BY <1>1, NoChunkIs DEF StreamInv, StreamPlace, Ended
    <3>3. chunk.from <= chunk.to /\ (chunk # NoChunk => chunk.to < start)
      BY <1>1, <2>1 DEF StreamInv, StreamPlace, NoChunk
    <3> QED
      BY <1>1, <3>1, <3>2, <3>3 DEF StreamInv, StreamData, StreamPlace, StreamTypes
  <2>3. NumbersPair
    BY <1>1 DEF StreamInv, PartialsCount, AudioOrder, VisemesFollow, NumbersPair
  <2>4. OffsetsAddUp
    BY <1>1 DEF StreamInv, OffsetsSum
  <2> QED
    BY <2>2, <2>3, <2>4 DEF ChunksPair
<1> QED
  BY <1>1, StreamInvHolds, PTL

\* The audio speaks the text in order and once, no fragment before it was sent; and what
\* is behind the buffer was spoken, or is blank, or its synthesis failed or was given up.
THEOREM SpeechIsTheText == StreamSpec => []SpeechCoversText
<1>1. ASSUME StreamInv PROVE SpeechCoversText
  <2>1. \A i, j \in Events("audio_chunk") : i < j => sent[i].to < sent[j].from
    BY <1>1 DEF StreamInv, AudioOrder
  <2>2. Spoken \subseteq 1 .. Cardinality(Events("chat_partial"))
    <3>1. Cardinality(Events("chat_partial")) \in Nat
      BY <1>1, FS_CardinalityType DEF StreamInv, PartialsCount
    <3>2. ASSUME NEW i \in Events("audio_chunk"), NEW x \in sent[i].from .. sent[i].to
          PROVE  x \in 1 .. Cardinality(Events("chat_partial"))
      <4>1. 1 <= sent[i].from /\ sent[i].to <= Cardinality(Events("chat_partial"))
        BY <1>1 DEF StreamInv, AudioOrder
      <4>2. sent[i].from \in Nat /\ sent[i].to \in Nat
        BY <1>1, AudioIs DEF StreamInv, StreamData
      <4> QED
        BY <3>1, <4>1, <4>2
    <3> QED
      BY <3>2 DEF Spoken
  <2>3. awaits = "next" \/ (awaits = "done" /\ ~ cancelled) =>
          \A i \in 1 .. start - 1 : i \in Spoken \cup unsaid \/ full_text[i] = "blank"
    BY <1>1 DEF StreamInv, TextCovered, Covered
  <2> QED
    BY <2>1, <2>2, <2>3 DEF SpeechCoversText
<1> QED
  BY <1>1, StreamInvHolds, PTL

\* No step starts a synthesis for a turn whose token is cancelled.
THEOREM NoSynthesisAfterCancel == StreamSpec => NothingStartsAfterCancel
<1>1. ASSUME [StreamNext]_streamVars, cancelled, awaits # "synth"
      PROVE  awaits' # "synth"
  BY <1>1 DEF StreamNext, Fragment, Interrupted, SendPartial, Say, StreamEnds, Synthesized,
         SynthesisFails, Resume, SendAudio, SendViseme, Cancel, TaskCancelled, ClientLeft, streamVars
<1> QED
  BY <1>1, PTL DEF StreamSpec, NothingStartsAfterCancel
=============================================================================
