--------------------------- MODULE TtsServiceProofs ---------------------------
(***************************************************************************)
(* Theorems about TtsService, for any number of callers, warm-ups, texts,  *)
(* calls and faults: one worker process at a time, and every caller gets   *)
(* the speech of its own text.                                             *)
(***************************************************************************)
EXTENDS TtsService, FiniteSetTheorems, SequenceTheorems, TLAPS

USE TtsAssumption

-----------------------------------------------------------------------------
(***************************************************************************)
(* The inductive invariant.                                                *)
(***************************************************************************)

Asked == Texts \cup {Hello}
Lines == [kind : {"ok", "error", "noise", "brace"}, of : Asked]
Process == [alive : BOOLEAN, stdin : Seq(Asked), stdout : Seq(Lines)]
Places == {"enter", "ensure", "write", "read", "idle", "fallback", "put", "return",
           "unborn", "warm", "locking", "gone"}
Inside == {"ensure", "write", "read"}

Typed ==
  /\ workers \in Seq(Process)
  /\ pc \in [Threads -> Places]
  /\ text \in [Threads -> Asked]
  /\ audio \in [Callers -> Speech \cup {Nothing}]
  /\ store \in [Callers -> BOOLEAN]
  /\ cache \in [Texts -> Speech \cup {Nothing, Corrupt}]

\* Only the worker of _proc may be alive.
OnlyProc == \A w \in 1 .. Len(workers) : workers[w].alive => w = proc

Reading == lock # NoOne /\ pc[lock] = "read"

\* The pipes of a worker that was asked for x: x is still to be read, or its
\* response is the last line; whatever else is there is noise.
Answering(p, x) ==
  /\ p.stdin = << >> \/ p.stdin = <<x>>
  /\ \A i \in 1 .. Len(p.stdout) :
       \/ p.stdout[i].kind \in {"noise", "brace"}
       \/ p.stdin = << >> /\ i = Len(p.stdout) /\ p.stdout[i].of = x

\* Pipes are in use while the holder of the lock reads, and empty otherwise.
Pipes ==
  /\ proc # 0 /\ proc \notin confused /\ Reading => Answering(workers[proc], text[lock])
  /\ Alive(proc) /\ proc \notin confused /\ ~ Reading =>
       workers[proc].stdin = << >> /\ workers[proc].stdout = << >>

\* The next call to enter will find no worker, and no fault has to happen first.
Owed == ~ Alive(proc) /\ (lock = NoOne \/ pc[lock] # "ensure")

\* There is a thread left for every warm-up that _auto_restart may still begin.
Unborn == {w \in Warmers : pc[w] = "unborn"}
Spare == Cardinality(Unborn) >= MaxFaults - faults + (IF Owed THEN 1 ELSE 0)

IInv == TypeOK /\ Typed /\ OnlyProc /\ Pipes /\ SpeaksItsText /\ Spare

-----------------------------------------------------------------------------
(***************************************************************************)
(* Effects that several steps share.                                       *)
(***************************************************************************)

\* What a worker's record is after its pipes changed, or it died.
LEMMA StdinEdit ==
  ASSUME NEW q \in Process, NEW in \in Seq(Asked)
  PROVE  /\ [q EXCEPT !.stdin = in] \in Process
         /\ [q EXCEPT !.stdin = in].alive = q.alive
         /\ [q EXCEPT !.stdin = in].stdout = q.stdout
         /\ [q EXCEPT !.stdin = in].stdin = in
BY Zenon DEF Process

LEMMA StdoutEdit ==
  ASSUME NEW q \in Process, NEW out \in Seq(Lines)
  PROVE  /\ [q EXCEPT !.stdout = out] \in Process
         /\ [q EXCEPT !.stdout = out].alive = q.alive
         /\ [q EXCEPT !.stdout = out].stdin = q.stdin
         /\ [q EXCEPT !.stdout = out].stdout = out
BY Zenon DEF Process

LEMMA DeathEdit ==
  ASSUME NEW q \in Process, NEW in \in Seq(Asked)
  PROVE  /\ [q EXCEPT !.alive = FALSE, !.stdin = in] \in Process
         /\ ~ [q EXCEPT !.alive = FALSE, !.stdin = in].alive
         /\ [q EXCEPT !.alive = FALSE, !.stdin = in].stdin = in
         /\ [q EXCEPT !.alive = FALSE, !.stdin = in].stdout = q.stdout
BY Zenon DEF Process

\* A line that goes through a worker's pipes, or its death, leaves other workers alone.
LEMMA WorkerEffect ==
  ASSUME workers \in Seq(Process), NEW w \in 1 .. Len(workers), NEW p \in Process,
         workers' = [workers EXCEPT ![w] = p]
  PROVE  /\ workers' \in Seq(Process) /\ Len(workers') = Len(workers)
         /\ workers'[w] = p
         /\ \A v \in 1 .. Len(workers) : v # w => workers'[v] = workers[v]
OBVIOUS

\* A fresh worker is the only one, and its pipes are empty.
LEMMA SpawnEffect ==
  ASSUME TypeOK, Typed, OnlyProc, ~ Alive(proc), Spawned
  PROVE  /\ workers' \in Seq(Process) /\ OnlyProc'
         /\ Len(workers') = Len(workers) + 1 /\ proc' = Len(workers) + 1
         /\ proc' \in 1 .. Len(workers') /\ proc' \notin confused
         /\ workers'[proc'] = [alive |-> TRUE, stdin |-> << >>, stdout |-> << >>]
<1> DEFINE p == [alive |-> TRUE, stdin |-> << >>, stdout |-> << >>]
<1>1. p \in Process
  BY DEF Process
<1>2. workers \in Seq(Process) /\ Len(workers) \in Nat /\ proc \in 0 .. Len(workers)
  BY DEF Typed, TypeOK
<1> HIDE DEF p
<1>3. workers' = Append(workers, p) /\ proc' = Len(workers) + 1
  BY DEF Spawned, p
<1>4. /\ workers' \in Seq(Process) /\ Len(workers') = Len(workers) + 1
      /\ workers'[Len(workers) + 1] = p
      /\ \A v \in 1 .. Len(workers) : workers'[v] = workers[v]
  BY <1>1, <1>2, <1>3
<1>5. \A v \in 1 .. Len(workers) : ~ workers[v].alive
  BY <1>2 DEF OnlyProc, Alive
<1>6. OnlyProc'
  BY <1>2, <1>3, <1>4, <1>5 DEF OnlyProc
<1>7. proc' \notin confused
  BY <1>2, <1>3 DEF TypeOK
<1> QED
  BY <1>2, <1>3, <1>4, <1>6, <1>7 DEF p

LEMMA UnbornFinite == IsFiniteSet(Unborn) /\ Cardinality(Unborn) \in Nat
BY FS_Subset, FS_CardinalityType DEF Unborn

\* A step of a thread that is not inside the lock, which leaves the workers alone.
LEMMA OutsideStep ==
  ASSUME IInv, UNCHANGED <<procVars, lock>>,
         lock # NoOne => pc'[lock] = pc[lock] /\ text'[lock] = text[lock],
         Unborn' = Unborn, faults' \in 0 .. MaxFaults, faults' >= faults
  PROVE  OnlyProc' /\ Pipes' /\ Spare'
<1> USE DEF procVars
<1>1. OnlyProc'
  BY DEF IInv, OnlyProc
<1>2. Reading' = Reading /\ Alive(proc)' = Alive(proc) /\ Owed' = Owed
  BY DEF Reading, Alive, Owed
<1>3. Pipes'
  BY <1>2 DEF IInv, Pipes, Answering, Reading
<1>4. Spare'
  BY <1>2, UnbornFinite DEF IInv, TypeOK, Spare
<1> QED
  BY <1>1, <1>3, <1>4

-----------------------------------------------------------------------------
LEMMA InitIInv == Init => IInv
<1> SUFFICES ASSUME Init PROVE IInv
  OBVIOUS
<1> DEFINE first == CHOOSE w \in Warmers : TRUE
<1>1. first \in Warmers
  <2>1. Warmers # {}
    BY FS_EmptySet
  <2> QED
    BY <2>1
<1> HIDE DEF first
<1>2. pc = [t \in Threads |-> IF t \in Callers THEN "idle" ELSE IF t = first THEN "warm" ELSE "unborn"]
  BY DEF Init, first
<1>3. Len(workers) = 0 /\ workers \in Seq(Process)
  BY DEF Init
<1>4. TypeOK
  BY <1>2, <1>3 DEF Init, TypeOK, Threads, Nothing
<1>5. Typed
  BY <1>2, <1>3 DEF Init, Typed, Places, Asked, Threads
<1>6. OnlyProc /\ Pipes /\ SpeaksItsText
  BY <1>3 DEF Init, OnlyProc, Pipes, Reading, Alive, SpeaksItsText, Nothing, Speech
<1>7. Unborn = Warmers \ {first}
  BY <1>1, <1>2 DEF Unborn, Threads
<1>8. Cardinality(Unborn) = Cardinality(Warmers) - 1 /\ Cardinality(Warmers) \in Nat
  BY <1>1, <1>7, FS_RemoveElement, FS_CardinalityType
<1>9. Spare
  BY <1>8 DEF Init, Spare
<1> QED
  BY <1>4, <1>5, <1>6, <1>9 DEF IInv

-----------------------------------------------------------------------------
(***************************************************************************)
(* Steps outside the lock: the cache, the chain and a warm-up's first look.*)
(***************************************************************************)

LEMMA GetPreserves ==
  ASSUME IInv, NEW t \in Callers, Get(t) \/ GetFails(t)
  PROVE  IInv'
<1> USE DEF Threads
<1>1. PICK x \in Texts :
        \/ /\ cache[x] \in Speech /\ audio' = [audio EXCEPT ![t] = cache[x]]
           /\ text' = [text EXCEPT ![t] = x] /\ pc' = [pc EXCEPT ![t] = "return"]
           /\ UNCHANGED store
        \/ \E cached \in BOOLEAN : ToChain(t, x, cached)
  BY Zenon DEF Get, GetFails, At
<1>2. /\ pc[t] = "idle" /\ lock # t /\ UNCHANGED <<proc, workers, confused, lock, cache>>
      /\ calls' \in 0 .. MaxCalls /\ faults' \in 0 .. MaxFaults /\ faults' >= faults
  <2>1. pc[t] = "idle" /\ UNCHANGED <<proc, workers, confused, lock, cache>>
    BY Zenon DEF Get, GetFails, procVars
  <2>2. calls < MaxCalls /\ calls' = calls + 1
    BY Zenon DEF Get, GetFails
  <2>3. faults' = faults \/ (faults < MaxFaults /\ faults' = faults + 1)
    BY Zenon DEF Get, GetFails, Fault
  <2> QED
    BY <2>1, <2>2, <2>3 DEF IInv, TypeOK
<1>3. /\ pc' \in [Threads -> Places] /\ pc'[t] \in {"return", "fallback", "enter"}
      /\ \A s \in Threads : s # t => pc'[s] = pc[s]
  BY <1>1 DEF IInv, Typed, Places, ToChain, At
<1>4. text' = [text EXCEPT ![t] = x]
  BY <1>1 DEF ToChain
<1>5. /\ audio' \in [Callers -> Speech \cup {Nothing}]
      /\ (audio'[t] # Nothing) = (pc'[t] = "return")
      /\ audio'[t] # Nothing => audio'[t] = cache[x] /\ cache[x] \in Speech
      /\ \A s \in Callers : s # t => audio'[s] = audio[s]
  BY <1>1, <1>2, SMTT(30) DEF IInv, Typed, TypeOK, ToChain, At, Speech, Nothing
<1>6. TypeOK'
  BY <1>2, <1>3, <1>5 DEF IInv, TypeOK
<1>7. Typed'
  BY <1>1, <1>2, <1>3, <1>4, <1>5 DEF IInv, Typed, ToChain, Asked
<1>8. SpeaksItsText'
  BY <1>2, <1>4, <1>5 DEF IInv, Typed, SpeaksItsText
<1>9. Unborn' = Unborn
  BY <1>2, <1>3 DEF Unborn
<1>10. lock # NoOne => pc'[lock] = pc[lock] /\ text'[lock] = text[lock]
  BY <1>2, <1>3, <1>4 DEF IInv, TypeOK, Typed
<1> QED
  BY <1>2, <1>6, <1>7, <1>8, <1>9, <1>10, OutsideStep DEF IInv, procVars

LEMMA PutPreserves ==
  ASSUME IInv, NEW t \in Callers, Put(t) \/ Return(t)
  PROVE  IInv'
<1> USE DEF Threads
<1>1. /\ pc[t] \in {"put", "return"} /\ lock # t
      /\ UNCHANGED <<proc, workers, confused, lock, calls>>
      /\ faults' \in 0 .. MaxFaults /\ faults' >= faults
  BY DEF IInv, TypeOK, Put, Return, Fault, procVars
<1>2. /\ pc' \in [Threads -> Places]
      /\ \A s \in Threads : s # t => pc'[s] = pc[s] /\ text'[s] = text[s]
      /\ \A s \in Callers : s # t => audio'[s] = audio[s]
  BY DEF IInv, Typed, Put, Return, At, Places, callVars
<1>3. /\ text' \in [Threads -> Asked] /\ store' \in [Callers -> BOOLEAN]
      /\ audio' \in [Callers -> Speech \cup {Nothing}]
  BY DEF IInv, Typed, Put, Return, callVars, Asked
<1>4. audio[t] \in Speech
  BY <1>1 DEF IInv, Typed, TypeOK
<1>5. \/ pc'[t] = "return" /\ audio'[t] = audio[t] /\ text'[t] = text[t]
      \/ pc'[t] = "idle" /\ audio'[t] = Nothing
  BY DEF IInv, Typed, Put, Return, At, callVars
<1>6. \/ cache' = [cache EXCEPT ![text[t]] = audio[t]]
      \/ UNCHANGED cache
  BY DEF Put, Return
<1>7. TypeOK'
  <2>1. \A x \in Texts : cache'[x] \in Speech \cup {Nothing, Corrupt}
    BY <1>4, <1>6 DEF IInv, Typed
  <2>2. audio[t] # Nothing
    BY <1>1 DEF IInv, TypeOK
  <2> QED
    BY <1>1, <1>2, <1>5, <2>1, <2>2 DEF IInv, TypeOK
<1>8. Typed'
  <2>1. cache' \in [Texts -> Speech \cup {Nothing, Corrupt}]
    BY <1>4, <1>6 DEF IInv, Typed
  <2> QED
    BY <1>1, <1>2, <1>3, <2>1 DEF IInv, Typed
<1>9. SpeaksItsText'
  <2> SUFFICES ASSUME confused = {}
               PROVE  /\ \A s \in Callers : audio'[s] # Nothing => audio'[s].of = text'[s]
                      /\ \A x \in Texts : cache'[x] \in Speech => cache'[x].of = x
    BY <1>1 DEF SpeaksItsText
  <2>1. audio[t].of = text[t]
    BY <1>1 DEF IInv, TypeOK, SpeaksItsText
  <2>2. \A s \in Callers : audio'[s] # Nothing => audio'[s].of = text'[s]
    BY <1>2, <1>5, <2>1 DEF IInv, SpeaksItsText
  <2>3. \A x \in Texts : cache'[x] \in Speech => cache'[x].of = x
    BY <1>6, <2>1 DEF IInv, Typed, SpeaksItsText
  <2> QED
    BY <2>2, <2>3
<1>10. Unborn' = Unborn
  BY <1>1, <1>2 DEF Unborn
<1>11. lock # NoOne => pc'[lock] = pc[lock] /\ text'[lock] = text[lock]
  BY <1>1, <1>2 DEF IInv, TypeOK
<1> QED
  BY <1>1, <1>7, <1>8, <1>9, <1>10, <1>11, OutsideStep DEF IInv, procVars

LEMMA ExpirePreserves ==
  ASSUME IInv, NEW x \in Texts, Expire(x)
  PROVE  IInv'
<1>1. /\ UNCHANGED <<proc, workers, confused, lock, pc, text, store, audio, calls>>
      /\ faults' \in 0 .. MaxFaults /\ faults' >= faults
  BY DEF IInv, TypeOK, Expire, Fault, procVars, callVars
<1>2. cache' = [cache EXCEPT ![x] = Nothing] \/ cache' = [cache EXCEPT ![x] = Corrupt]
  BY DEF Expire
<1>3. Nothing \notin Speech /\ Corrupt \notin Speech
  BY DEF Nothing, Corrupt, Speech
<1>4. TypeOK' /\ Typed'
  BY <1>1, <1>2 DEF IInv, TypeOK, Typed
<1>5. SpeaksItsText'
  BY <1>1, <1>2, <1>3 DEF IInv, Typed, SpeaksItsText
<1>6. Unborn' = Unborn
  BY <1>1 DEF Unborn
<1> QED
  BY <1>1, <1>4, <1>5, <1>6, OutsideStep DEF IInv, procVars

LEMMA FallbackPreserves ==
  ASSUME IInv, NEW t \in Callers, Fallback(t)
  PROVE  IInv'
<1> USE DEF Threads
<1> DEFINE speech == [of |-> text[t], by |-> "fallback"]
<1>1. /\ pc[t] = "fallback" /\ lock # t
      /\ UNCHANGED <<proc, workers, confused, lock, text, store, cache, calls, faults>>
  BY DEF IInv, TypeOK, Fallback, procVars, callVars
<1>2. /\ audio' = [audio EXCEPT ![t] = speech]
      /\ pc' = [pc EXCEPT ![t] = IF store[t] THEN "put" ELSE "return"]
  BY DEF Fallback, Answered, At
<1>3. speech \in Speech /\ speech # Nothing /\ speech.of = text[t]
  BY DEF IInv, Typed, Speech, Nothing, Asked
<1> HIDE DEF speech
<1>4. pc' \in [Threads -> Places] /\ pc'[t] \in {"put", "return"}
      /\ \A s \in Threads : s # t => pc'[s] = pc[s]
  BY <1>2 DEF IInv, Typed, Places
<1>5. TypeOK'
  BY <1>1, <1>2, <1>3, <1>4 DEF IInv, TypeOK, Typed
<1>6. Typed'
  BY <1>1, <1>2, <1>3, <1>4 DEF IInv, Typed
<1>7. SpeaksItsText'
  BY <1>1, <1>2, <1>3 DEF IInv, Typed, SpeaksItsText
<1>8. Unborn' = Unborn
  BY <1>1, <1>4 DEF Unborn
<1>9. lock # NoOne => pc'[lock] = pc[lock] /\ text'[lock] = text[lock]
  BY <1>1, <1>4 DEF IInv, TypeOK
<1>10. faults' \in 0 .. MaxFaults /\ faults' >= faults
  BY <1>1 DEF IInv, TypeOK
<1> QED
  BY <1>1, <1>5, <1>6, <1>7, <1>8, <1>9, <1>10, OutsideStep DEF IInv, procVars

LEMMA WarmPreserves ==
  ASSUME IInv, NEW t \in Threads, Warm(t)
  PROVE  IInv'
<1> USE DEF Threads
<1>1. /\ pc[t] = "warm" /\ lock # t /\ t \in Warmers
      /\ UNCHANGED <<proc, workers, confused, lock, text, store, audio, cache, calls, faults>>
  BY DEF IInv, TypeOK, Warm, procVars, callVars
<1>2. pc' \in [Threads -> Places] /\ pc'[t] \in {"enter", "locking"}
      /\ \A s \in Threads : s # t => pc'[s] = pc[s]
  BY DEF IInv, Typed, Places, Warm, At
<1>3. TypeOK'
  BY <1>1, <1>2 DEF IInv, TypeOK
<1>4. Typed' /\ SpeaksItsText'
  BY <1>1, <1>2 DEF IInv, Typed, SpeaksItsText
<1>5. Unborn' = Unborn
  BY <1>1, <1>2 DEF Unborn
<1>6. lock # NoOne => pc'[lock] = pc[lock] /\ text'[lock] = text[lock]
  BY <1>1, <1>2 DEF IInv, TypeOK
<1>7. faults' \in 0 .. MaxFaults /\ faults' >= faults
  BY <1>1 DEF IInv, TypeOK
<1> QED
  BY <1>1, <1>3, <1>4, <1>5, <1>6, <1>7, OutsideStep DEF IInv, procVars

-----------------------------------------------------------------------------
(***************************************************************************)
(* Starting a worker, and taking the lock.                                 *)
(***************************************************************************)

LEMMA WarmLockedPreserves ==
  ASSUME IInv, NEW t \in Threads, WarmLocked(t)
  PROVE  IInv'
<1> USE DEF Threads
<1>1. /\ pc[t] = "locking" /\ lock = NoOne /\ lock # t /\ t \in Warmers
      /\ UNCHANGED <<confused, lock, text, store, audio, cache, calls>>
  BY DEF IInv, TypeOK, WarmLocked, callVars
<1>2. pc' \in [Threads -> Places] /\ pc'[t] \in {"enter", "gone"}
      /\ \A s \in Threads : s # t => pc'[s] = pc[s]
  BY DEF IInv, Typed, Places, WarmLocked, At
<1>3. Unborn' = Unborn
  BY <1>1, <1>2 DEF Unborn
<1>4. ~ Reading /\ ~ Reading'
  BY <1>1 DEF Reading
<1>5. faults' \in 0 .. MaxFaults /\ faults' >= faults
  BY DEF IInv, TypeOK, WarmLocked, Fault
<1>6. CASE UNCHANGED <<proc, workers>>
  <2>1. TypeOK'
    BY <1>1, <1>2, <1>5, <1>6 DEF IInv, TypeOK
  <2>2. Typed' /\ SpeaksItsText'
    BY <1>1, <1>2, <1>6 DEF IInv, Typed, SpeaksItsText
  <2> QED
    BY <1>1, <1>3, <1>5, <1>6, <2>1, <2>2, OutsideStep DEF IInv, procVars
<1>7. CASE ~ Alive(proc) /\ Spawned /\ UNCHANGED faults
  <2>1. /\ workers' \in Seq(Process) /\ OnlyProc' /\ Len(workers') = Len(workers) + 1
        /\ proc' \in 1 .. Len(workers') /\ proc' \notin confused
        /\ workers'[proc'] = [alive |-> TRUE, stdin |-> << >>, stdout |-> << >>]
    BY <1>7, SpawnEffect DEF IInv
  <2>2. Len(workers) \in Nat
    BY DEF IInv, Typed
  <2>3. TypeOK'
    BY <1>1, <1>2, <1>5, <2>1, <2>2 DEF IInv, TypeOK
  <2>4. Typed' /\ SpeaksItsText'
    BY <1>1, <1>2, <2>1 DEF IInv, Typed, SpeaksItsText
  <2>5. Pipes'
    BY <1>4, <2>1 DEF Pipes
  <2>6. ~ Owed'
    BY <2>1 DEF Owed, Alive
  <2>7. Spare'
    BY <1>3, <1>7, <2>6, UnbornFinite DEF IInv, TypeOK, Spare
  <2> QED
    BY <2>1, <2>3, <2>4, <2>5, <2>7 DEF IInv
<1> QED
  BY <1>6, <1>7 DEF WarmLocked

LEMMA EnterPreserves ==
  ASSUME IInv, NEW t \in Threads, Enter(t)
  PROVE  IInv'
<1> USE DEF Threads
<1>1. /\ pc[t] = "enter" /\ lock = NoOne /\ lock' = t /\ t # NoOne
      /\ UNCHANGED <<workers, confused, text, store, audio, cache, calls, faults>>
  BY DEF Enter, callVars
<1>2. ~ Reading
  BY <1>1 DEF Reading
<1>3. \A s \in Threads : pc[s] \notin Inside
  BY <1>1 DEF IInv, TypeOK, Inside
<1>4. CASE Alive(proc)
  <2>1. pc' = [pc EXCEPT ![t] = "ensure"] /\ UNCHANGED proc
    BY <1>4 DEF Enter, At
  <2>2. pc' \in [Threads -> Places] /\ pc'[t] = "ensure" /\ \A s \in Threads : s # t => pc'[s] = pc[s]
    BY <2>1 DEF IInv, Typed, Places
  <2>3. TypeOK'
    BY <1>1, <1>3, <2>1, <2>2 DEF IInv, TypeOK, Inside
  <2>4. Typed' /\ SpeaksItsText' /\ OnlyProc'
    BY <1>1, <2>1, <2>2 DEF IInv, Typed, SpeaksItsText, OnlyProc
  <2>5. ~ Reading' /\ Alive(proc)'
    BY <1>1, <1>4, <2>1, <2>2 DEF Reading, Alive
  <2>6. Pipes'
    BY <1>1, <1>2, <2>1, <1>4, <2>5 DEF IInv, Pipes
  <2>7. Unborn' = Unborn /\ ~ Owed'
    BY <1>1, <2>2, <2>5 DEF Unborn, Owed
  <2>8. Spare'
    BY <1>1, <2>7, UnbornFinite DEF IInv, TypeOK, Spare
  <2> QED
    BY <2>3, <2>4, <2>6, <2>8 DEF IInv
<1>5. CASE ~ Alive(proc)
  <2> DEFINE w == CHOOSE v \in Warmers : pc[v] = "unborn"
  <2>1. Owed
    BY <1>1, <1>5 DEF Owed
  <2>2. Cardinality(Unborn) >= 1
    BY <2>1, UnbornFinite DEF IInv, TypeOK, Spare
  <2>3. Unborn # {}
    BY <2>2, FS_EmptySet
  <2>4. w \in Warmers /\ pc[w] = "unborn"
    BY <2>3 DEF Unborn
  <2> HIDE DEF w
  <2>5. proc' = 0 /\ pc' = [pc EXCEPT ![t] = "ensure", ![w] = "warm"]
    BY <1>5, Zenon DEF Enter, w
  <2>6. /\ pc' \in [Threads -> Places] /\ pc'[t] = "ensure" /\ pc'[w] = "warm"
        /\ \A s \in Threads : s # t /\ s # w => pc'[s] = pc[s]
    BY <1>1, <2>4, <2>5 DEF IInv, Typed, Places
  <2>7. TypeOK'
    BY <1>1, <1>3, <2>4, <2>5, <2>6 DEF IInv, TypeOK, Inside
  <2>8. Typed' /\ SpeaksItsText' /\ OnlyProc'
    BY <1>1, <1>5, <2>5, <2>6 DEF IInv, Typed, TypeOK, SpeaksItsText, OnlyProc, Alive
  <2>9. Pipes'
    BY <2>5 DEF Pipes, Alive
  <2>10. Unborn' = Unborn \ {w} /\ w \in Unborn
    BY <1>1, <2>4, <2>6 DEF Unborn
  <2>11. Cardinality(Unborn') = Cardinality(Unborn) - 1
    BY <2>10, UnbornFinite, FS_RemoveElement
  <2>12. ~ Owed'
    BY <1>1, <2>6 DEF Owed
  <2>13. Spare'
    BY <1>1, <2>1, <2>11, <2>12, UnbornFinite DEF IInv, TypeOK, Spare
  <2> QED
    BY <2>7, <2>8, <2>9, <2>13 DEF IInv
<1> QED
  BY <1>4, <1>5

\* What raises inside the lock: the thread leaves it, and hands on.
LEMMA RaisedEffect ==
  ASSUME IInv, NEW t \in Threads, lock = t, Raised(t), lock' = NoOne,
         UNCHANGED <<text, store, cache, calls>>, faults' \in 0 .. MaxFaults,
         workers' \in Seq(Process), Len(workers') = Len(workers),
         proc' \in 0 .. Len(workers), confused \subseteq confused',
         confused' \subseteq 1 .. Len(workers)
  PROVE  TypeOK' /\ Typed' /\ SpeaksItsText' /\ ~ Reading' /\ Unborn' = Unborn
<1> USE DEF Threads
<1>1. /\ pc' \in [Threads -> Places] /\ pc'[t] \in {"fallback", "gone"}
      /\ pc'[t] = "fallback" => t \in Callers
      /\ pc'[t] = "gone" => t \notin Callers
      /\ \A s \in Threads : s # t => pc'[s] = pc[s]
      /\ UNCHANGED audio
  BY DEF IInv, Typed, Places, Raised, At
<1>2. pc[t] \in Inside
  BY DEF IInv, TypeOK, Inside
<1>3. TypeOK'
  BY <1>1, <1>2 DEF IInv, TypeOK, Inside
<1>4. Typed' /\ SpeaksItsText'
  BY <1>1 DEF IInv, Typed, SpeaksItsText
<1>5. ~ Reading'
  BY DEF Reading
<1>6. Unborn' = Unborn
  BY <1>1, <1>2 DEF Unborn, Inside
<1> QED
  BY <1>3, <1>4, <1>5, <1>6

LEMMA EnsurePreserves ==
  ASSUME IInv, NEW t \in Threads, Ensure(t)
  PROVE  IInv'
<1> USE DEF Threads
<1>1. /\ pc[t] = "ensure" /\ lock = t
      /\ UNCHANGED <<confused, text, store, cache, calls>>
  BY DEF IInv, TypeOK, Ensure, callVars
<1>2. ~ Reading /\ Len(workers) \in Nat /\ t # NoOne
  BY <1>1 DEF Reading, IInv, Typed
<1>3. ASSUME pc' = [pc EXCEPT ![t] = "write"], UNCHANGED <<lock, audio, faults>>,
             workers' \in Seq(Process), Len(workers') >= Len(workers),
             proc' \in 0 .. Len(workers')
      PROVE  TypeOK' /\ Typed' /\ SpeaksItsText' /\ ~ Reading' /\ Unborn' = Unborn
  <2>1. pc' \in [Threads -> Places] /\ pc'[t] = "write"
        /\ \A s \in Threads : s # t => pc'[s] = pc[s]
    BY <1>3 DEF IInv, Typed, Places
  <2>2. TypeOK'
    BY <1>1, <1>2, <1>3, <2>1 DEF IInv, TypeOK
  <2>3. Typed' /\ SpeaksItsText'
    BY <1>1, <1>3, <2>1 DEF IInv, Typed, SpeaksItsText
  <2>4. ~ Reading' /\ Unborn' = Unborn
    BY <1>1, <1>3, <2>1 DEF Reading, Unborn
  <2> QED
    BY <2>2, <2>3, <2>4
<1>4. CASE Alive(proc) /\ At(t, "write") /\ UNCHANGED <<proc, workers, lock, audio, faults>>
  <2>1. TypeOK' /\ Typed' /\ SpeaksItsText' /\ ~ Reading' /\ Unborn' = Unborn
    BY <1>2, <1>3, <1>4 DEF At, IInv, Typed, TypeOK
  <2>2. OnlyProc' /\ Pipes'
    BY <1>1, <1>2, <1>4, <2>1 DEF IInv, OnlyProc, Pipes, Alive
  <2>3. ~ Owed'
    BY <1>4 DEF Owed, Alive
  <2>4. Spare'
    BY <1>4, <2>1, <2>3, UnbornFinite DEF IInv, TypeOK, Spare
  <2> QED
    BY <2>1, <2>2, <2>4 DEF IInv
<1>5. CASE ~ Alive(proc) /\ Spawned /\ At(t, "write") /\ UNCHANGED <<lock, audio, faults>>
  <2>1. /\ workers' \in Seq(Process) /\ OnlyProc' /\ Len(workers') = Len(workers) + 1
        /\ proc' \in 1 .. Len(workers') /\ proc' \notin confused
        /\ workers'[proc'] = [alive |-> TRUE, stdin |-> << >>, stdout |-> << >>]
    BY <1>5, SpawnEffect DEF IInv
  <2>2. TypeOK' /\ Typed' /\ SpeaksItsText' /\ ~ Reading' /\ Unborn' = Unborn
    BY <1>2, <1>3, <1>5, <2>1 DEF At
  <2>3. Pipes' /\ ~ Owed'
    BY <2>1, <2>2 DEF Pipes, Owed, Alive
  <2>4. Spare'
    BY <1>5, <2>2, <2>3, UnbornFinite DEF IInv, TypeOK, Spare
  <2> QED
    BY <2>1, <2>2, <2>3, <2>4 DEF IInv
<1>6. CASE ~ Alive(proc) /\ Fault /\ Raised(t) /\ lock' = NoOne /\ UNCHANGED <<proc, workers>>
  <2>1. faults' \in 0 .. MaxFaults /\ faults' = faults + 1
    BY <1>6 DEF IInv, TypeOK, Fault
  <2>2. TypeOK' /\ Typed' /\ SpeaksItsText' /\ ~ Reading' /\ Unborn' = Unborn
    BY <1>1, <1>6, <2>1, RaisedEffect DEF IInv, TypeOK, Typed
  <2>3. OnlyProc' /\ Pipes'
    BY <1>1, <1>6, <2>2 DEF IInv, OnlyProc, Pipes, Alive
  <2>4. Spare'
    BY <2>1, <2>2, UnbornFinite DEF IInv, TypeOK, Spare
  <2> QED
    BY <2>2, <2>3, <2>4 DEF IInv
<1> QED
  BY <1>4, <1>5, <1>6 DEF Ensure

-----------------------------------------------------------------------------
(***************************************************************************)
(* Requests and responses.                                                 *)
(***************************************************************************)

LEMMA WritePreserves ==
  ASSUME IInv, NEW t \in Threads, Write(t)
  PROVE  IInv'
<1> USE DEF Threads
<1>1. /\ pc[t] = "write" /\ lock = t /\ t # NoOne
      /\ UNCHANGED <<proc, confused, text, store, cache, calls, faults>>
  BY DEF IInv, TypeOK, Write, callVars
<1>2. ~ Reading /\ faults' \in 0 .. MaxFaults /\ Len(workers) \in Nat
  BY <1>1 DEF Reading, IInv, TypeOK, Typed
<1>3. CASE Alive(proc)
  <2> DEFINE p == [workers[proc] EXCEPT !.stdin = Append(workers[proc].stdin, text[t])]
  <2>1. /\ workers' = [workers EXCEPT ![proc].stdin = Append(@, text[t])]
        /\ pc' = [pc EXCEPT ![t] = "read"] /\ UNCHANGED <<lock, audio>>
    BY <1>3 DEF Write, At
  <2>2. proc \in 1 .. Len(workers)
    BY <1>3 DEF IInv, TypeOK, Typed, Alive
  <2>3. text[t] \in Asked /\ workers[proc] \in Process
    BY <2>2 DEF IInv, Typed
  <2>4. /\ p \in Process /\ p.alive = workers[proc].alive /\ p.stdout = workers[proc].stdout
        /\ p.stdin = Append(workers[proc].stdin, text[t])
    <3>1. Append(workers[proc].stdin, text[t]) \in Seq(Asked) /\ workers[proc].stdout \in Seq(Lines)
      BY <2>3 DEF Process
    <3> QED
      BY <2>3, <3>1, StdinEdit, Zenon
  <2> HIDE DEF p
  <2>5. workers' = [workers EXCEPT ![proc] = p]
    BY <2>1, <2>2 DEF p
  <2>6. /\ workers' \in Seq(Process) /\ Len(workers') = Len(workers) /\ workers'[proc] = p
        /\ \A v \in 1 .. Len(workers) : v # proc => workers'[v] = workers[v]
    BY <2>2, <2>4, <2>5, WorkerEffect DEF IInv, Typed
  <2>7. pc' \in [Threads -> Places] /\ pc'[t] = "read"
        /\ \A s \in Threads : s # t => pc'[s] = pc[s]
    BY <2>1 DEF IInv, Typed, Places
  <2>8. TypeOK'
    BY <1>1, <2>1, <2>6, <2>7 DEF IInv, TypeOK
  <2>9. Typed' /\ SpeaksItsText'
    BY <1>1, <2>1, <2>6, <2>7 DEF IInv, Typed, SpeaksItsText
  <2>10. OnlyProc'
    BY <1>1, <2>4, <2>6 DEF IInv, OnlyProc
  <2>11. Reading' /\ Alive(proc)'
    BY <1>1, <1>3, <2>1, <2>4, <2>6, <2>7 DEF Reading, Alive
  <2>12. ASSUME proc \notin confused
         PROVE  Answering(p, text[t])
    <3>1. workers[proc].stdin = << >> /\ workers[proc].stdout = << >>
      BY <1>2, <1>3, <2>12 DEF IInv, Pipes
    <3>2. p.stdin = <<text[t]>> /\ p.stdout = << >>
      BY <2>4, <3>1
    <3> QED
      BY <3>2 DEF Answering
  <2>13. Pipes'
    BY <1>1, <2>1, <2>6, <2>11, <2>12 DEF Pipes
  <2>14. Unborn' = Unborn /\ ~ Owed'
    BY <1>1, <2>7, <2>11 DEF Unborn, Owed
  <2>15. Spare'
    BY <1>1, <2>14, UnbornFinite DEF IInv, TypeOK, Spare
  <2> QED
    BY <2>8, <2>9, <2>10, <2>13, <2>15 DEF IInv
<1>4. CASE ~ Alive(proc)
  <2>1. Raised(t) /\ lock' = NoOne /\ UNCHANGED workers
    BY <1>4 DEF Write
  <2>2. TypeOK' /\ Typed' /\ SpeaksItsText' /\ ~ Reading' /\ Unborn' = Unborn
    BY <1>1, <1>2, <2>1, RaisedEffect DEF IInv, TypeOK, Typed
  <2>3. OnlyProc' /\ Pipes'
    BY <1>1, <1>4, <2>1, <2>2 DEF IInv, OnlyProc, Pipes, Alive
  <2>4. Owed
    BY <1>1, <1>4 DEF Owed
  <2>5. Spare'
    BY <1>1, <2>2, <2>4, UnbornFinite DEF IInv, TypeOK, Spare
  <2> QED
    BY <2>2, <2>3, <2>5 DEF IInv
<1> QED
  BY <1>3, <1>4

\* A line is taken off the output of the worker.
LEMMA ConsumedEffect ==
  ASSUME IInv, HasLine, Consumed
  PROVE  /\ proc \in 1 .. Len(workers) /\ workers[proc] \in Process
         /\ workers' \in Seq(Process) /\ Len(workers') = Len(workers)
         /\ workers'[proc].stdout = Tail(workers[proc].stdout)
         /\ workers'[proc].stdin = workers[proc].stdin
         /\ \A v \in 1 .. Len(workers) : workers'[v].alive = workers[v].alive
<1> DEFINE p == [workers[proc] EXCEPT !.stdout = Tail(workers[proc].stdout)]
<1>1. proc \in 1 .. Len(workers) /\ workers[proc] \in Process
  BY DEF IInv, TypeOK, Typed, HasLine
<1>2. workers[proc].stdout # << >>
  BY DEF HasLine
<1>3. /\ p \in Process /\ p.alive = workers[proc].alive /\ p.stdin = workers[proc].stdin
      /\ p.stdout = Tail(workers[proc].stdout)
  <2>1. Tail(workers[proc].stdout) \in Seq(Lines) /\ workers[proc].stdin \in Seq(Asked)
    BY <1>1, <1>2 DEF Process
  <2> QED
    BY <1>1, <2>1, StdoutEdit, Zenon
<1>4. workers' = [workers EXCEPT ![proc] = p]
  BY <1>1 DEF Consumed
<1> HIDE DEF p
<1>5. /\ workers' \in Seq(Process) /\ Len(workers') = Len(workers) /\ workers'[proc] = p
      /\ \A v \in 1 .. Len(workers) : v # proc => workers'[v] = workers[v]
  BY <1>1, <1>3, <1>4, WorkerEffect DEF IInv, Typed
<1> QED
  BY <1>1, <1>3, <1>5

LEMMA SkipNoisePreserves ==
  ASSUME IInv, NEW t \in Threads, SkipNoise(t)
  PROVE  IInv'
<1> USE DEF Threads
<1>1. /\ pc[t] = "read" /\ lock = t /\ t # NoOne /\ HasLine /\ Consumed
      /\ UNCHANGED <<proc, confused, lock, pc, text, store, audio, cache, calls, faults>>
  BY DEF IInv, TypeOK, SkipNoise, callVars
<1>2. /\ proc \in 1 .. Len(workers) /\ workers[proc] \in Process
      /\ workers' \in Seq(Process) /\ Len(workers') = Len(workers)
      /\ workers'[proc].stdout = Tail(workers[proc].stdout)
      /\ workers'[proc].stdin = workers[proc].stdin
      /\ \A v \in 1 .. Len(workers) : workers'[v].alive = workers[v].alive
  BY <1>1, ConsumedEffect
<1>3. TypeOK' /\ Typed' /\ SpeaksItsText' /\ OnlyProc'
  BY <1>1, <1>2 DEF IInv, TypeOK, Typed, SpeaksItsText, OnlyProc
<1>4. Reading /\ Reading'
  BY <1>1 DEF Reading
<1>5. ASSUME Answering(workers[proc], text[t])
      PROVE  Answering(workers'[proc], text[t])
  <2> DEFINE out == workers[proc].stdout
  <2>1. out \in Seq(Lines) /\ out # << >>
    BY <1>1, <1>2 DEF Process, HasLine
  <2>2. Len(Tail(out)) = Len(out) - 1 /\ \A i \in 1 .. Len(out) - 1 : Tail(out)[i] = out[i + 1]
    BY <2>1
  <2> QED
    BY <1>2, <1>5, <2>1, <2>2, SMTT(30) DEF Answering
<1>6. Pipes'
  BY <1>1, <1>2, <1>4, <1>5 DEF IInv, Pipes
<1>7. Unborn' = Unborn /\ Owed' = Owed
  BY <1>1, <1>2 DEF Unborn, Owed, Alive
<1>8. Spare'
  BY <1>1, <1>7 DEF IInv, Spare
<1> QED
  BY <1>3, <1>6, <1>8 DEF IInv

LEMMA ReadPreserves ==
  ASSUME IInv, NEW t \in Threads, Read(t)
  PROVE  IInv'
<1> USE DEF Threads
<1>1. /\ pc[t] = "read" /\ lock = t /\ t # NoOne /\ HasLine /\ Consumed /\ lock' = NoOne
      /\ UNCHANGED <<proc, text, store, cache, calls, faults>>
  BY DEF IInv, TypeOK, Read, callVars
<1>2. /\ proc \in 1 .. Len(workers) /\ workers[proc] \in Process
      /\ workers' \in Seq(Process) /\ Len(workers') = Len(workers)
      /\ workers'[proc].stdout = Tail(workers[proc].stdout)
      /\ workers'[proc].stdin = workers[proc].stdin
      /\ \A v \in 1 .. Len(workers) : workers'[v].alive = workers[v].alive
  BY <1>1, ConsumedEffect
<1> DEFINE out == workers[proc].stdout
<1>3. out \in Seq(Lines) /\ out # << >> /\ Line = out[1] /\ Line \in Lines /\ Len(out) >= 1
  BY <1>1, <1>2 DEF Process, HasLine, Line
<1>4. Line.kind \in {"ok", "error", "brace"} /\ Line.of \in Asked
  BY <1>3 DEF Lines, Read
<1>5. confused' = confused \cup (IF Line.kind = "brace" THEN {proc} ELSE {})
  BY DEF Read
<1>6. confused \subseteq confused' /\ confused' \subseteq 1 .. Len(workers)
  BY <1>2, <1>5 DEF IInv, TypeOK
<1>7. ASSUME proc \notin confused, Line.kind # "brace"
      PROVE  Line.of = text[t] /\ workers'[proc].stdin = << >> /\ workers'[proc].stdout = << >>
  <2>1. Answering(workers[proc], text[t])
    BY <1>1, <1>2, <1>7 DEF IInv, Pipes, Reading
  <2>2. workers[proc].stdin = << >> /\ 1 = Len(out) /\ out[1].of = text[t]
    <3>1. 1 \in 1 .. Len(out) /\ out[1].kind \notin {"noise", "brace"}
      BY <1>3, <1>4, <1>7
    <3> QED
      BY <2>1, <3>1 DEF Answering
  <2>3. Tail(out) = << >>
    <3>1. Tail(out) \in Seq(Lines) /\ Len(Tail(out)) = 0
      BY <1>3, <2>2
    <3> QED
      BY <3>1, EmptySeq
  <2> QED
    BY <1>2, <1>3, <2>2, <2>3
<1>8. faults' \in 0 .. MaxFaults
  BY <1>1 DEF IInv, TypeOK
<1>9. TypeOK' /\ Typed' /\ SpeaksItsText' /\ ~ Reading' /\ Unborn' = Unborn
  <2>1. CASE Line.kind # "ok"
    <3>1. Raised(t)
      BY <2>1 DEF Read
    <3> QED
      BY <1>1, <1>2, <1>6, <1>8, <3>1, RaisedEffect DEF IInv, TypeOK
  <2>2. CASE Line.kind = "ok"
    <3> DEFINE speech == [of |-> Line.of, by |-> "cosy"]
    <3>1. Answered(t, speech)
      BY <2>2 DEF Read
    <3>2. speech \in Speech /\ speech # Nothing /\ speech.of = Line.of
      BY <1>4 DEF Speech, Nothing, Asked
    <3> HIDE DEF speech
    <3>3. /\ pc' \in [Threads -> Places]
          /\ t \in Callers => pc'[t] \in {"put", "return"} /\ audio' = [audio EXCEPT ![t] = speech]
          /\ t \notin Callers => pc'[t] = "gone" /\ UNCHANGED audio
          /\ \A s \in Threads : s # t => pc'[s] = pc[s]
      BY <3>1 DEF IInv, Typed, Places, Answered, At
    <3>4. TypeOK'
      <4>1. /\ proc' \in 0 .. Len(workers') /\ confused' \subseteq 1 .. Len(workers')
            /\ lock' \in Threads \cup {NoOne}
            /\ \A x \in Texts : cache'[x] \in Speech \cup {Nothing, Corrupt}
            /\ calls' \in 0 .. MaxCalls /\ faults' \in 0 .. MaxFaults
        BY <1>1, <1>2, <1>6 DEF IInv, TypeOK
      <4>2. \A s \in Threads :
              /\ (lock' = s) = (pc'[s] \in {"ensure", "write", "read"})
              /\ pc'[s] \in {"enter", "ensure", "write", "read"} \cup
                   (IF s \in Callers THEN {"idle", "fallback", "put", "return"}
                    ELSE {"unborn", "warm", "locking", "gone"})
        BY <1>1, <3>3 DEF IInv, TypeOK
      <4>3. \A s \in Callers : (audio'[s] # Nothing) = (pc'[s] \in {"put", "return"})
        BY <1>1, <3>2, <3>3 DEF IInv, TypeOK, Typed
      <4> QED
        BY <4>1, <4>2, <4>3 DEF TypeOK
    <3>5. Typed'
      BY <1>1, <1>2, <3>2, <3>3 DEF IInv, Typed
    <3>6. SpeaksItsText'
      <4> SUFFICES ASSUME confused' = {}
                   PROVE  \A s \in Callers : audio'[s] # Nothing => audio'[s].of = text[s]
        BY <1>1, <1>5 DEF IInv, SpeaksItsText
      <4>1. confused = {} /\ Line.of = text[t]
        BY <1>6, <1>7, <2>2
      <4> QED
        BY <3>2, <3>3, <4>1 DEF IInv, Typed, SpeaksItsText
    <3>7. ~ Reading' /\ Unborn' = Unborn
      BY <1>1, <3>3 DEF Reading, Unborn
    <3> QED
      BY <3>4, <3>5, <3>6, <3>7
  <2> QED
    BY <2>1, <2>2
<1>10. OnlyProc'
  BY <1>1, <1>2 DEF IInv, OnlyProc
<1>11. Pipes'
  BY <1>1, <1>5, <1>7, <1>9 DEF Pipes
<1>12. Owed' = Owed
  BY <1>1, <1>2 DEF Owed, Alive
<1>13. Spare'
  BY <1>1, <1>9, <1>12 DEF IInv, Spare
<1> QED
  BY <1>9, <1>10, <1>11, <1>13 DEF IInv

LEMMA ReadEndPreserves ==
  ASSUME IInv, NEW t \in Threads, ReadEnd(t)
  PROVE  IInv'
<1> USE DEF Threads
<1>1. /\ pc[t] = "read" /\ lock = t /\ t # NoOne /\ lock' = NoOne /\ proc' = 0 /\ Raised(t)
      /\ ~ Alive(proc)
      /\ UNCHANGED <<workers, confused, text, store, cache, calls, faults>>
  BY DEF IInv, TypeOK, ReadEnd, callVars
<1>2. faults' \in 0 .. MaxFaults /\ workers \in Seq(Process) /\ Len(workers) \in Nat
  BY <1>1 DEF IInv, TypeOK, Typed
<1>3. TypeOK' /\ Typed' /\ SpeaksItsText' /\ ~ Reading' /\ Unborn' = Unborn
  BY <1>1, <1>2, RaisedEffect DEF IInv, TypeOK
<1>4. OnlyProc' /\ Pipes'
  BY <1>1, <1>2 DEF IInv, TypeOK, OnlyProc, Pipes, Alive
<1>5. Owed
  BY <1>1 DEF Owed
<1>6. Spare'
  BY <1>1, <1>3, <1>5, UnbornFinite DEF IInv, TypeOK, Spare
<1> QED
  BY <1>3, <1>4, <1>6 DEF IInv

\* Whatever a worker does of its own accord leaves threads as they are.
LEMMA WorkerStep ==
  ASSUME IInv, NEW w \in 1 .. Len(workers), NEW p \in Process,
         workers' = [workers EXCEPT ![w] = p], p.alive => workers[w].alive,
         UNCHANGED <<proc, confused, lock, pc, callVars, audio, cache, calls>>,
         faults' \in 0 .. MaxFaults, faults' >= faults,
         workers[w].alive /\ ~ p.alive => faults' = faults + 1,
         w = proc /\ proc \notin confused /\ Reading /\ Answering(workers[proc], text[lock]) =>
           Answering(p, text[lock]),
         w = proc /\ proc \notin confused /\ ~ Reading /\ p.alive =>
           p.stdin = << >> /\ p.stdout = << >>
  PROVE  IInv'
<1> USE DEF callVars
<1>1. /\ workers' \in Seq(Process) /\ Len(workers') = Len(workers) /\ workers'[w] = p
      /\ \A v \in 1 .. Len(workers) : v # w => workers'[v] = workers[v]
  BY WorkerEffect DEF IInv, Typed
<1>2. TypeOK' /\ Typed' /\ SpeaksItsText'
  BY <1>1 DEF IInv, TypeOK, Typed, SpeaksItsText
<1>3. OnlyProc'
  BY <1>1 DEF IInv, OnlyProc
<1>4. Reading' = Reading /\ Unborn' = Unborn
  BY DEF Reading, Unborn
<1>5. proc \in 0 .. Len(workers)
  BY DEF IInv, TypeOK
<1>6. Pipes'
  <2>1. CASE w = proc
    BY <1>1, <1>4, <2>1 DEF IInv, Pipes, Alive
  <2>2. CASE w # proc
    <3>1. proc # 0 => workers'[proc] = workers[proc]
      BY <1>1, <1>5, <2>2
    <3> QED
      BY <1>4, <3>1 DEF IInv, Pipes, Alive
  <2> QED
    BY <2>1, <2>2
<1>7. Owed' => Owed \/ faults' = faults + 1
  BY <1>1, <1>5 DEF Owed, Alive
<1>8. Spare'
  BY <1>4, <1>7, UnbornFinite DEF IInv, TypeOK, Spare
<1> QED
  BY <1>2, <1>3, <1>6, <1>8 DEF IInv

LEMMA DiePreserves ==
  ASSUME IInv, NEW w \in 1 .. Len(workers), Die(w)
  PROVE  IInv'
<1> DEFINE p == [workers[w] EXCEPT !.alive = FALSE, !.stdin = << >>]
<1>1. /\ Alive(w) /\ workers[w].alive /\ workers[w] \in Process
      /\ UNCHANGED <<proc, confused, lock, pc, callVars, audio, cache, calls>>
  BY DEF IInv, Typed, Die, Alive
<1>2. faults' \in 0 .. MaxFaults /\ faults' = faults + 1 /\ faults' >= faults
  BY DEF IInv, TypeOK, Die, Fault
<1>3. p \in Process /\ ~ p.alive /\ p.stdin = << >> /\ p.stdout = workers[w].stdout
  <2>1. << >> \in Seq(Asked)
    OBVIOUS
  <2> QED
    BY <1>1, <2>1, DeathEdit, Zenon
<1>4. workers' = [workers EXCEPT ![w] = p]
  BY DEF Die
<1> HIDE DEF p
<1>5. ASSUME w = proc, Answering(workers[proc], text[lock])
      PROVE  Answering(p, text[lock])
  BY <1>3, <1>5 DEF Answering
<1> QED
  BY <1>1, <1>2, <1>3, <1>4, <1>5, WorkerStep

LEMMA RespondPreserves ==
  ASSUME IInv, NEW w \in 1 .. Len(workers), Respond(w)
  PROVE  IInv'
<1>1. /\ workers[w].alive /\ workers[w] \in Process /\ workers[w].stdin # << >>
      /\ UNCHANGED <<proc, confused, lock, pc, callVars, audio, cache, calls, faults>>
  BY DEF IInv, Typed, Respond, Alive
<1>2. PICK kind \in {"ok", "error"} :
        workers' = [workers EXCEPT ![w].stdin = Tail(@),
                      ![w].stdout = Append(@, [kind |-> kind, of |-> Head(workers[w].stdin)])]
  BY DEF Respond
<1> DEFINE line == [kind |-> kind, of |-> Head(workers[w].stdin)]
           asked == [workers[w] EXCEPT !.stdin = Tail(workers[w].stdin)]
           p == [asked EXCEPT !.stdout = Append(workers[w].stdout, line)]
<1>3. workers[w].stdin \in Seq(Asked) /\ workers[w].stdout \in Seq(Lines)
  BY <1>1 DEF Process
<1>4. Head(workers[w].stdin) \in Asked /\ Tail(workers[w].stdin) \in Seq(Asked)
  BY <1>1, <1>3
<1>5. line \in Lines /\ line.of = Head(workers[w].stdin)
  BY <1>4 DEF Lines
<1>6. workers' = [workers EXCEPT ![w] = p]
  BY <1>2
<1> HIDE DEF line
<1>7. /\ p \in Process /\ p.alive = workers[w].alive /\ p.stdin = Tail(workers[w].stdin)
      /\ p.stdout = Append(workers[w].stdout, line)
  <2>1. Append(workers[w].stdout, line) \in Seq(Lines)
    BY <1>3, <1>5
  <2>2. asked \in Process /\ asked.alive = workers[w].alive /\ asked.stdin = Tail(workers[w].stdin)
    BY <1>1, <1>4, StdinEdit, Zenon
  <2> HIDE DEF asked
  <2> QED
    BY <2>1, <2>2, StdoutEdit, Zenon
<1> HIDE DEF p
<1>8. w = proc
  BY <1>1 DEF IInv, OnlyProc
<1>9. proc \notin confused => Reading
  BY <1>1, <1>8 DEF IInv, Pipes, Alive, TypeOK
<1>10. ASSUME Answering(workers[proc], text[lock])
       PROVE  Answering(p, text[lock])
  <2>1. workers[w].stdin = <<text[lock]>>
    BY <1>1, <1>8, <1>10 DEF Answering
  <2>2. p.stdin = << >> /\ line.of = text[lock]
    BY <1>5, <1>7, <2>1
  <2>3. /\ Len(p.stdout) = Len(workers[w].stdout) + 1
        /\ p.stdout[Len(p.stdout)] = line
        /\ \A i \in 1 .. Len(workers[w].stdout) : p.stdout[i] = workers[w].stdout[i]
    BY <1>3, <1>5, <1>7
  <2>4. \A i \in 1 .. Len(workers[w].stdout) : workers[w].stdout[i].kind \in {"noise", "brace"}
    BY <1>1, <1>8, <1>10 DEF Answering
  <2>5. \A i \in 1 .. Len(p.stdout) : i \in 1 .. Len(workers[w].stdout) \/ i = Len(p.stdout)
    BY <1>3, <2>3
  <2> QED
    BY <2>2, <2>3, <2>4, <2>5 DEF Answering
<1>11. faults' \in 0 .. MaxFaults /\ faults' >= faults
  BY <1>1 DEF IInv, TypeOK
<1> QED
  BY <1>1, <1>6, <1>7, <1>8, <1>9, <1>10, <1>11, WorkerStep

LEMMA ChatterPreserves ==
  ASSUME IInv, NEW w \in 1 .. Len(workers), Chatter(w)
  PROVE  IInv'
<1>1. /\ workers[w].alive /\ workers[w] \in Process /\ workers[w].stdin # << >>
      /\ UNCHANGED <<proc, confused, lock, pc, callVars, audio, cache, calls>>
  BY DEF IInv, Typed, Chatter, Alive
<1>2. PICK kind \in {"noise", "brace"} :
        workers' = [workers EXCEPT ![w].stdout = Append(@, [kind |-> kind, of |-> Hello])]
  BY DEF Chatter
<1> DEFINE line == [kind |-> kind, of |-> Hello]
           p == [workers[w] EXCEPT !.stdout = Append(workers[w].stdout, line)]
<1>3. workers[w].stdout \in Seq(Lines)
  BY <1>1 DEF Process
<1>5. line \in Lines /\ line.kind \in {"noise", "brace"}
  BY DEF Lines, Asked
<1>6. workers' = [workers EXCEPT ![w] = p]
  BY <1>2
<1> HIDE DEF line
<1>7. /\ p \in Process /\ p.alive = workers[w].alive /\ p.stdin = workers[w].stdin
      /\ p.stdout = Append(workers[w].stdout, line)
  <2>1. Append(workers[w].stdout, line) \in Seq(Lines) /\ workers[w].stdin \in Seq(Asked)
    BY <1>1, <1>3, <1>5 DEF Process
  <2> QED
    BY <1>1, <2>1, StdoutEdit, Zenon
<1> HIDE DEF p
<1>8. w = proc
  BY <1>1 DEF IInv, OnlyProc
<1>9. proc \notin confused => Reading
  BY <1>1, <1>8 DEF IInv, Pipes, Alive, TypeOK
<1>10. ASSUME Answering(workers[proc], text[lock])
       PROVE  Answering(p, text[lock])
  <2>1. /\ Len(p.stdout) = Len(workers[w].stdout) + 1
        /\ p.stdout[Len(p.stdout)] = line
        /\ \A i \in 1 .. Len(workers[w].stdout) : p.stdout[i] = workers[w].stdout[i]
    BY <1>3, <1>5, <1>7
  <2>2. \A i \in 1 .. Len(workers[w].stdout) : workers[w].stdout[i].kind \in {"noise", "brace"}
    BY <1>1, <1>8, <1>10 DEF Answering
  <2>3. \A i \in 1 .. Len(p.stdout) : i \in 1 .. Len(workers[w].stdout) \/ i = Len(p.stdout)
    BY <1>3, <2>1
  <2>4. p.stdin = << >> \/ p.stdin = <<text[lock]>>
    BY <1>7, <1>8, <1>10 DEF Answering
  <2> QED
    BY <1>5, <2>1, <2>2, <2>3, <2>4 DEF Answering
<1>11. faults' \in 0 .. MaxFaults /\ faults' >= faults
  BY DEF IInv, TypeOK, Chatter, Fault
<1> QED
  BY <1>1, <1>6, <1>7, <1>8, <1>9, <1>10, <1>11, WorkerStep

-----------------------------------------------------------------------------
LEMMA StepPreserves == IInv /\ [Next]_vars => IInv'
<1> SUFFICES ASSUME IInv, [Next]_vars
             PROVE  IInv'
  OBVIOUS
<1>1. CASE UNCHANGED vars
  BY <1>1 DEF vars, procVars, callVars, IInv, TypeOK, Typed, OnlyProc, Pipes, Reading, Alive,
              SpeaksItsText, Spare, Owed, Unborn
<1>2. ASSUME NEW t \in Callers, Get(t) \/ GetFails(t)
      PROVE  IInv'
  BY <1>2, GetPreserves
<1>3. ASSUME NEW t \in Threads, Thread(t)
      PROVE  IInv'
  BY <1>3, PutPreserves, FallbackPreserves, WarmPreserves, WarmLockedPreserves, EnterPreserves,
     EnsurePreserves, WritePreserves, ReadPreserves, SkipNoisePreserves, ReadEndPreserves DEF Thread
<1>4. ASSUME NEW x \in Texts, Expire(x)
      PROVE  IInv'
  BY <1>4, ExpirePreserves
<1>5. ASSUME NEW w \in 1 .. Len(workers), Respond(w) \/ Chatter(w) \/ Die(w)
      PROVE  IInv'
  BY <1>5, RespondPreserves, ChatterPreserves, DiePreserves
<1> QED
  BY <1>1, <1>2, <1>3, <1>4, <1>5 DEF Next

LEMMA Inductive == Spec => []IInv
BY InitIInv, StepPreserves, PTL DEF Spec

\* Callers, warm-ups and _auto_restart start at most one worker at a time, for
\* any number of each (_ensure_worker and its second check under _lock).
THEOREM OneWorkerAtATime == Spec => []OneWorker
<1>1. IInv => OneWorker
  <2> SUFFICES ASSUME IInv PROVE OneWorker
    OBVIOUS
  <2> DEFINE Living == {w \in 1 .. Len(workers) : workers[w].alive}
  <2>1. Living \subseteq {proc}
    BY DEF IInv, OnlyProc
  <2>2. IsFiniteSet({proc}) /\ Cardinality({proc}) = 1
    BY FS_Singleton
  <2>3. Cardinality(Living) <= 1
    BY <2>1, <2>2, FS_Subset
  <2> QED
    BY <2>3 DEF OneWorker
<1> QED
  BY <1>1, Inductive, PTL

\* Every caller gets the speech of its own text, and the cache holds it under that
\* text, whatever dies, raises or prints in between; between calls the pipes are
\* empty (synthesize under _lock, CachedTTSService).
THEOREM OneRequestOneResponse == Spec => []OneForOne
<1>1. IInv => OneForOne
  <2> SUFFICES ASSUME IInv PROVE OneForOne
    OBVIOUS
  <2>1. InStep
    BY DEF IInv, Pipes, Reading, InStep
  <2> QED
    BY <2>1 DEF IInv, OneForOne
<1> QED
  BY <1>1, Inductive, PTL
=============================================================================
