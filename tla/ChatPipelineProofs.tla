-------------------------- MODULE ChatPipelineProofs --------------------------
(***************************************************************************)
(* What the chat pipeline guarantees for every set of users and turns,     *)
(* every limit of the history and every number of faults and clears:       *)
(* OncePerTurn, ToldIsRemembered, Remembers and HistoryIsSound.            *)
(* The proofs look at a step twice: from the turns (Turning) and from the  *)
(* histories (Recording); the invariants are then proved from these views. *)
(***************************************************************************)
EXTENDS ChatPipeline, FiniteSetTheorems, SequenceTheorems, TLAPS

-----------------------------------------------------------------------------
(***************************************************************************)
(* What one step does to the turns, whichever action it is: at most one    *)
(* turn moves, in one of seven ways.                                       *)
(***************************************************************************)
\* The turn t is as it was.
Stays(t) == UNCHANGED <<pc[t], door[t], user[t], live[t], deltas[t], told[t], reply[t],
                        role[t], list[t], tokens[t], jobs[t]>>

\* Admit: the door, the token, and the answer, if it needs no model.
Enters(t) ==
  /\ pc[t] = "new"
  /\ tokens'[t] = tokens[t] + 1
  /\ Free(door'[t]) /\ door'[t] \in {"http", "ws"}
  /\ live'[t] = (door'[t] = "ws" /\ streams)
  /\ user'[t] \in Users
  /\ pc'[t] \notin {"job", "done"} /\ calm'[user'[t]] =>
       \A r \in Turns : user[r] = user'[t] => pc[r] \in Ended
  /\ UNCHANGED <<deltas[t], list[t], jobs[t]>>
  /\ \/ /\ pc'[t] = "done" /\ told'[t] = <<"busy">>
        /\ UNCHANGED <<reply[t], role[t]>>
     \/ /\ reply'[t] = "refusal" /\ UNCHANGED role[t]
        /\ \/ door'[t] = "http" /\ pc'[t] = "job" /\ told'[t] = <<>>
           \/ door'[t] = "ws" /\ pc'[t] = "done" /\ told'[t] = <<"refusal">>
     \/ /\ pc'[t] = "fetch" /\ reply'[t] = "rule" /\ role'[t] = "user"
        /\ UNCHANGED told[t]
     \/ /\ pc'[t] \in {IF live'[t] THEN "streaming" ELSE "llm", "gone"}
        /\ UNCHANGED <<told[t], reply[t], role[t]>>

\* A stream broke, and its part was shown.
Breaks(t) ==
  /\ live'[t] = FALSE /\ UNCHANGED deltas[t]
  /\ told'[t] = IF deltas[t] = 0 THEN told[t] ELSE Append(told[t], "part")

\* The answer is known: ModelAnswers, StreamEnds, or a stream that broke and left a
\* fallback that needs no model.
Knows(t) ==
  /\ pc'[t] = "fetch" /\ role'[t] = "user"
  /\ \/ /\ pc[t] = "llm" /\ reply'[t] \in {"fine", "ready", "replaced"}
        /\ UNCHANGED <<live[t], told[t], deltas[t]>>
     \/ /\ pc[t] = "streaming" /\ deltas[t] = 0 /\ reply'[t] = "ready"
        /\ UNCHANGED <<live[t], told[t], deltas[t]>>
     \/ /\ pc[t] = "streaming" /\ deltas[t] # 0
        /\ \E text \in Texts : reply'[t] = Checked(text) /\ told'[t] = Append(told[t], text)
        /\ UNCHANGED <<live[t], deltas[t]>>
     \/ pc[t] = "streaming" /\ reply'[t] = "rule" /\ Breaks(t)
  /\ UNCHANGED <<door[t], user[t], list[t], tokens[t], jobs[t]>>

\* Delta, Abandon, and a stream that broke before the model has to answer again, or
\* before the fallback raised.
Streaming(t) ==
  /\ pc[t] = "streaming"
  /\ \/ /\ pc'[t] \in {"streaming", "gone"} /\ UNCHANGED <<live[t], told[t]>>
        /\ deltas'[t] \in 0..MaxDeltas
     \/ pc'[t] \in {"llm", "gone"} /\ Breaks(t)
  /\ UNCHANGED <<door[t], user[t], reply[t], role[t], list[t], tokens[t], jobs[t]>>

\* Inside an add: Fetch, AppendEntry, an RPUSH, a slice that is to be bound.
Stores(t) ==
  /\ pc[t] \in Adding /\ pc'[t] \in Adding \ {"fetch"}
  /\ list'[t] \in Nat /\ (list'[t] # 0 <=> ~redis)
  /\ pc'[t] \in {"append", "rebind"} => ~redis
  /\ UNCHANGED <<door[t], user[t], live[t], deltas[t], told[t], reply[t], role[t], tokens[t],
                 jobs[t]>>

\* An add ends; after the second one the answer is given, unless it was streamed.
Finishes(t) ==
  /\ pc[t] \in Adding /\ list'[t] = 0
  /\ \/ role[t] = "user" /\ role'[t] = "assistant" /\ pc'[t] = "fetch" /\ UNCHANGED told[t]
     \/ /\ role[t] = "assistant" /\ role'[t] = "assistant"
        /\ \/ WasStreamed(t) /\ pc'[t] = "done" /\ UNCHANGED told[t]
           \/ ~WasStreamed(t) /\ door[t] = "http" /\ pc'[t] = "job" /\ UNCHANGED told[t]
           \/ /\ ~WasStreamed(t) /\ door[t] = "ws" /\ pc'[t] = "done"
              /\ told'[t] = Append(told[t], reply[t])
  /\ UNCHANGED <<door[t], user[t], live[t], deltas[t], reply[t], tokens[t], jobs[t]>>

\* Job: the curation job, if the broker takes it, and the answer over HTTP.
Pays(t) ==
  /\ pc[t] = "job" /\ pc'[t] = "done"
  /\ jobs'[t] \in {jobs[t], jobs[t] + 1} /\ told'[t] = Append(told[t], reply[t])
  /\ UNCHANGED <<door[t], user[t], live[t], deltas[t], reply[t], role[t], list[t], tokens[t]>>

\* Forget.
Clears(t) ==
  /\ pc[t] \in {"done", "gone"} /\ pc'[t] = "over"
  /\ door'[t] = "http" /\ live'[t] = FALSE /\ deltas'[t] = 0 /\ told'[t] = <<>> /\ reply'[t] = "none"
  /\ role'[t] = "user"
  /\ tokens'[t] = 0 /\ jobs'[t] = 0
  /\ UNCHANGED <<user[t], list[t]>>

\* One of these.
Moves(t) == \/ Enters(t) \/ Knows(t) \/ Streaming(t) \/ Stores(t) \/ Finishes(t)
            \/ Pays(t) \/ Clears(t)

\* A step, seen from the turns.
Turning == /\ UNCHANGED <<redis, streams>>
           /\ \A u \in Users : calm'[u] => calm[u]
           /\ \/ \A t \in Turns : Stays(t)
              \/ \E t \in Turns : Moves(t) /\ \A r \in Turns \ {t} : Stays(r)

-----------------------------------------------------------------------------
(***************************************************************************)
(* The shape of a state: the types, what goes with where a turn is, and    *)
(* the bounds.                                                             *)
(***************************************************************************)
\* What is remembered as an answer.
Answers == {"rule", "fine", "ready", "replaced"}

\* What goes with where a turn is.
TurnAt(t) ==
  /\ pc[t] \in {"new", "over"} =>
       tokens[t] = 0 /\ ~live[t] /\ reply[t] = "none" /\ deltas[t] = 0
  /\ pc[t] \notin {"new", "over"} => tokens[t] = 1
  /\ pc[t] # "done" => jobs[t] = 0
  /\ pc[t] \in Adding => reply[t] \in Answers
  /\ pc[t] = "job" => reply[t] \in Answers \cup {"refusal"} /\ door[t] = "http"
  /\ live[t] => door[t] = "ws"
  /\ pc[t] = "llm" => ~live[t]
  /\ pc[t] = "streaming" => live[t]
  /\ pc[t] \in {"streaming", "llm"} => reply[t] = "none"
  /\ list[t] # 0 <=> ~redis /\ pc[t] \in Adding \ {"fetch"}
  /\ pc[t] \in {"append", "rebind"} => ~redis

\* Of a stream that broke, its part was shown, if it had one.
Part(t) ==
  \/ told[t] = <<>>
  \/ told[t] = <<"part">> /\ door[t] = "ws" /\ ~live[t] /\ deltas[t] > 0

\* What was shown where a turn is, and how it goes with what it remembers.
ToldAt(t) ==
  /\ pc[t] \in {"new", "over", "streaming", "job"} => told[t] = <<>>
  /\ pc[t] = "llm" => Part(t)
  /\ pc[t] \in Adding =>
       \/ WasStreamed(t) /\ deltas[t] = 0 /\ told[t] = <<>> /\ reply[t] = "ready"
       \/ /\ WasStreamed(t) /\ deltas[t] # 0
          /\ \E text \in Texts : told[t] = <<text>> /\ reply[t] = Checked(text)
       \/ ~WasStreamed(t) /\ Part(t)
  /\ pc[t] = "done" =>
       /\ ShowsOneAnswer(t)
       /\ IF told[t] = <<"busy">> THEN reply[t] = "none" ELSE reply[t] = Memory(told[t])
       /\ told[t] \notin {<<"busy">>, <<"refusal">>} => reply[t] \in Answers

\* Every turn shows what it remembers.
Telling == \A t \in Turns : ToldAt(t)

\* Every turn is consistent with where it is.
Steady == \A t \in Turns : TurnAt(t)

\* One turn at a time comes through the WebSocket handler.
OneSocket ==
  \A t, r \in Turns :
    /\ door[t] = "ws" /\ pc[t] \notin Ended
    /\ door[r] = "ws" /\ pc[r] \notin Ended
    => t = r

\* The texts a user may be shown.
Said == Replies \cup Texts \cup {"busy", "part"}

\* The types of what is known of one turn.
TypesAt(t) ==
  /\ pc[t] \in {"streaming", "llm", "job"} \cup Ended \cup Adding
  /\ door[t] \in {"http", "ws"} /\ user[t] \in Users
  /\ live[t] \in BOOLEAN /\ deltas[t] \in 0..MaxDeltas
  /\ told[t] \in Seq(Said) /\ reply[t] \in Replies \cup {"none"}
  /\ role[t] \in Roles /\ list[t] \in Nat /\ tokens[t] \in Nat /\ jobs[t] \in Nat

\* What is known of the turns are functions of them.
Arrays ==
  /\ pc = [t \in Turns |-> pc[t]] /\ door = [t \in Turns |-> door[t]]
  /\ user = [t \in Turns |-> user[t]] /\ live = [t \in Turns |-> live[t]]
  /\ deltas = [t \in Turns |-> deltas[t]] /\ told = [t \in Turns |-> told[t]]
  /\ reply = [t \in Turns |-> reply[t]] /\ role = [t \in Turns |-> role[t]]
  /\ list = [t \in Turns |-> list[t]] /\ tokens = [t \in Turns |-> tokens[t]]
  /\ jobs = [t \in Turns |-> jobs[t]]

\* The types of the turns.
TurnTypes ==
  /\ redis \in BOOLEAN /\ streams \in BOOLEAN
  /\ Arrays /\ \A t \in Turns : TypesAt(t)

\* The types of the session store.
StoreTypes ==
  /\ cut \in [Turns -> Seq(Entries)]
  /\ lists \in [Users -> Seq(Seq(Entries))]
  /\ said \in [Users -> Seq(Entries)]
  /\ calm \in [Users -> BOOLEAN]
  /\ current \in [Users -> Nat]
  /\ \A u \in Users : current[u] \in 0..Len(lists[u])

\* The list that an add works on is one there is.
HeldExist == \A t \in Turns : list[t] \in 0..Len(lists[user[t]])

\* The faults and the clears; nothing fails in memory.
EventsBounded ==
  /\ faults \in Nat /\ clears \in Nat /\ faults + clears <= MaxEvents
  /\ ~redis => faults = 0

\* Redis has at most one list for a user.
OneListInRedis ==
  redis => \A u \in Users : lists[u] = <<>> \/ (Len(lists[u]) = 1 /\ current[u] = 1)

\* These three.
Bounds == HeldExist /\ EventsBounded /\ OneListInRedis

\* The invariant behind every theorem of this module.
Orderly == TurnTypes /\ Steady /\ OneSocket /\ StoreTypes /\ Bounds

-----------------------------------------------------------------------------
(***************************************************************************)
(* The operations of the session store, and what each does to a history.   *)
(***************************************************************************)
\* The list s has become list n of user u, which may be a new one.
Stored(u, n, s) ==
  /\ n \in 1..(Len(lists[u]) + 1)
  /\ lists' \in [Users -> Seq(Seq(Entries))]
  /\ Len(lists'[u]) = IF n = Len(lists[u]) + 1 THEN n ELSE Len(lists[u])
  /\ lists'[u][n] = s
  /\ \A i \in 1..Len(lists[u]) : i # n => lists'[u][i] = lists[u][i]
  /\ \A v \in Users \ {u} : lists'[v] = lists[v]

\* What add stores is an entry.
LEMMA EntryType ==
  ASSUME TurnTypes, Steady, NEW t \in Turns, pc[t] \in Adding
  PROVE  Entry(t) \in Entries
<1>1. reply[t] \in Replies /\ role[t] \in Roles
  BY DEF TurnTypes, TypesAt, Steady, TurnAt, Answers, Replies
<1> QED
  BY <1>1 DEF Entry, Entries

\* A list replaced or added is stored.
LEMMA ListPut ==
  ASSUME StoreTypes, NEW u \in Users, NEW n \in 1..(Len(lists[u]) + 1), NEW s \in Seq(Entries),
         \/ n = Len(lists[u]) + 1 /\ lists' = [lists EXCEPT ![u] = Append(lists[u], s)]
         \/ n # Len(lists[u]) + 1 /\ lists' = [lists EXCEPT ![u] = [lists[u] EXCEPT ![n] = s]]
  PROVE  Stored(u, n, s)
<1> DEFINE L == lists[u]
<1>0. L \in Seq(Seq(Entries)) /\ Len(L) \in Nat
  BY DEF StoreTypes
<1>1. CASE n = Len(L) + 1 /\ lists' = [lists EXCEPT ![u] = Append(L, s)]
  <2>1. /\ Append(L, s) \in Seq(Seq(Entries)) /\ Len(Append(L, s)) = n /\ Append(L, s)[n] = s
        /\ \A i \in 1..Len(L) : Append(L, s)[i] = L[i]
    BY <1>0, <1>1
  <2> QED
    BY <1>0, <1>1, <2>1 DEF Stored, StoreTypes
<1>2. CASE n # Len(L) + 1 /\ lists' = [lists EXCEPT ![u] = [L EXCEPT ![n] = s]]
  <2> DEFINE M == [L EXCEPT ![n] = s]
  <2>1. n \in 1..Len(L)
    BY <1>0, <1>2
  <2>2. /\ M \in Seq(Seq(Entries)) /\ Len(M) = Len(L) /\ M[n] = s
        /\ \A i \in 1..Len(L) : i # n => M[i] = L[i]
    BY <1>0, <2>1, ExceptSeq
  <2>3. lists' \in [Users -> Seq(Seq(Entries))] /\ lists'[u] = M /\ \A v \in Users \ {u} : lists'[v] = lists[v]
    BY <1>2, <2>2 DEF StoreTypes
  <2> QED
    BY <1>0, <1>2, <2>1, <2>2, <2>3 DEF Stored
<1> QED
  BY <1>1, <1>2

\* The last n entries of a list are n, and are its last ones.
LEMMA LatestIs ==
  ASSUME NEW S, NEW s \in Seq(S), NEW n \in 0..Len(s)
  PROVE  /\ Latest(n, s) \in Seq(S) /\ Len(Latest(n, s)) = n
         /\ \A i \in 1..n : Latest(n, s)[i] = s[Len(s) - n + i]
<1> DEFINE m == Len(s) - n + 1
<1>1. m \in 1..(Len(s) + 1) /\ Len(s) \in 0..Len(s) /\ Len(s) - m + 1 = n
  OBVIOUS
<1>2. Latest(n, s) = SubSeq(s, m, Len(s))
  BY DEF Latest
<1>3. /\ SubSeq(s, m, Len(s)) \in Seq(S)
      /\ Len(SubSeq(s, m, Len(s))) = IF m <= Len(s) THEN Len(s) - m + 1 ELSE 0
      /\ \A i \in 1..(Len(s) - m + 1) : SubSeq(s, m, Len(s))[i] = s[m + i - 1]
  BY <1>1, SubSeqProperties
<1>4. \A i \in 1..n : m + i - 1 = Len(s) - n + i
  OBVIOUS
<1>5. Len(SubSeq(s, m, Len(s))) = n
  BY <1>1, <1>3
<1> QED
  BY <1>1, <1>2, <1>3, <1>4, <1>5

\* What is kept of a list is its end, at most MaxTurns entries of it.
LEMMA KeptIs ==
  ASSUME NEW S, NEW s \in Seq(S)
  PROVE  \E n \in 0..Len(s) : Kept(s) = Latest(n, s) /\ n <= MaxTurns /\ (n = MaxTurns \/ n = Len(s))
BY ChatAssumption DEF Kept

\* A history is a list of entries.
LEMMA HistoryType ==
  ASSUME StoreTypes, NEW u \in Users
  PROVE  History(u) \in Seq(Entries)
BY DEF StoreTypes, History

\* An RPUSH adds the entry at the end of the one list.
LEMMA PushEffect ==
  ASSUME Orderly, NEW t \in Turns, pc[t] \in Adding, redis, Push(t)
  PROVE  LET u == user[t] IN
         /\ Stored(u, 1, Append(History(u), Entry(t)))
         /\ current' = [current EXCEPT ![u] = 1] /\ said' = [said EXCEPT ![u] = Append(said[u], Entry(t))]
<1> DEFINE u == user[t]
<1>1. u \in Users /\ Entry(t) \in Entries /\ StoreTypes
  BY EntryType DEF Orderly, TurnTypes, TypesAt
<1>2. lists[u] = <<>> \/ (Len(lists[u]) = 1 /\ current[u] = 1)
  BY <1>1 DEF Orderly, Bounds, HeldExist, OneListInRedis
<1>3. CASE lists[u] = <<>>
  <2>1. History(u) = <<>> /\ Append(History(u), Entry(t)) = <<Entry(t)>>
    <3>1. current[u] = 0
      BY <1>1, <1>3 DEF StoreTypes
    <3> QED
      BY <3>1 DEF History
  <2>2. lists' = [lists EXCEPT ![u] = Append(lists[u], <<Entry(t)>>)]
    BY <1>3 DEF Push
  <2>3. Stored(u, 1, <<Entry(t)>>)
    <3>1. 1 \in 1..(Len(lists[u]) + 1) /\ 1 = Len(lists[u]) + 1 /\ <<Entry(t)>> \in Seq(Entries)
      BY <1>1, <1>3
    <3> QED
      BY <3>1, <1>1, <1>3, <2>2, ListPut
  <2> QED
    BY <2>1, <2>3 DEF Push, Noted
<1>4. CASE lists[u] # <<>>
  <2>1. History(u) = lists[u][1] /\ Len(lists[u]) = 1 /\ lists[u][1] \in Seq(Entries)
    BY <1>1, <1>2, <1>4 DEF StoreTypes, History
  <2>2. lists' = [lists EXCEPT ![u] = [lists[u] EXCEPT ![1] = Append(lists[u][1], Entry(t))]]
    BY <1>1, <1>4 DEF Push, Extended
  <2>3. Stored(u, 1, Append(lists[u][1], Entry(t)))
    <3>1. /\ 1 \in 1..(Len(lists[u]) + 1) /\ 1 # Len(lists[u]) + 1
          /\ Append(lists[u][1], Entry(t)) \in Seq(Entries)
      BY <1>1, <2>1
    <3> QED
      BY <3>1, <1>1, <2>1, <2>2, ListPut
  <2> QED
    BY <2>1, <2>3 DEF Push, Noted
<1> QED
  BY <1>3, <1>4

\* An LTRIM leaves what is kept of the list.
LEMMA TrimEffect ==
  ASSUME Orderly, NEW t \in Turns, RedisTrim(t),
         lists' # lists \/ (current[user[t]] # 0 /\ faults' = faults)
  PROVE  LET u == user[t] IN current[u] # 0 /\ Stored(u, 1, Kept(History(u)))
<1> DEFINE u == user[t]
<1>1. u \in Users /\ StoreTypes /\ redis
  BY DEF Orderly, TurnTypes, TypesAt, RedisTrim
<1>2. current[u] # 0
  BY DEF RedisTrim
<1>3. Len(lists[u]) = 1 /\ current[u] = 1
  BY <1>1, <1>2 DEF Orderly, Bounds, HeldExist, OneListInRedis, StoreTypes
<1>4. History(u) = lists[u][1] /\ lists[u][1] \in Seq(Entries)
  BY <1>1, <1>3 DEF StoreTypes, History
<1>5. Kept(lists[u][1]) \in Seq(Entries)
  BY <1>4, KeptIs, LatestIs
<1>6. lists' = [lists EXCEPT ![u] = [lists[u] EXCEPT ![1] = Kept(lists[u][1])]]
  <2>1. faults' = faults => faults' # faults + 1
    BY DEF Orderly, Bounds, EventsBounded
  <2> QED
    BY <1>1, <1>2, <2>1 DEF RedisTrim, RedisFails
<1>7. Stored(u, 1, Kept(lists[u][1]))
  <2>1. 1 \in 1..(Len(lists[u]) + 1) /\ 1 # Len(lists[u]) + 1
    BY <1>3
  <2> QED
    BY <2>1, <1>1, <1>3, <1>5, <1>6, ListPut
<1> QED
  BY <1>2, <1>4, <1>7

\* Fetching the list in memory adds an empty one if there is none.
LEMMA FetchEffect ==
  ASSUME TurnTypes, StoreTypes, NEW t \in Turns, Fetch(t)
  PROVE  LET u == user[t] IN
         /\ current[u] # 0 => UNCHANGED <<lists, current>>
         /\ current[u] = 0 => Stored(u, Len(lists[u]) + 1, <<>>)
         /\ current' = [current EXCEPT ![u] = IF @ = 0 THEN Len(lists[u]) + 1 ELSE @]
         /\ list' = [list EXCEPT ![t] = current'[u]]
         /\ said' = said
<1> DEFINE u == user[t]
<1>1. u \in Users /\ StoreTypes
  BY DEF TurnTypes, TypesAt
<1>2. ASSUME current[u] = 0 PROVE Stored(u, Len(lists[u]) + 1, <<>>)
  <2>1. lists' = [lists EXCEPT ![u] = Append(lists[u], <<>>)]
    BY <1>1, <1>2 DEF Fetch
  <2>2. Len(lists[u]) + 1 \in 1..(Len(lists[u]) + 1) /\ <<>> \in Seq(Entries)
    BY <1>1 DEF StoreTypes
  <2> QED
    BY <1>1, <2>1, <2>2, ListPut
<1>3. current' = [current EXCEPT ![u] = IF @ = 0 THEN Len(lists[u]) + 1 ELSE @]
  BY <1>1 DEF Fetch, StoreTypes
<1>4. current[u] # 0 => UNCHANGED <<lists, current>>
  BY <1>1 DEF Fetch, StoreTypes
<1>5. list' = [list EXCEPT ![t] = current'[u]]
  BY <1>1 DEF Fetch, StoreTypes
<1> QED
  BY <1>2, <1>3, <1>4, <1>5 DEF Fetch

\* Appending changes the list that the add holds.
LEMMA AppendEffect ==
  ASSUME Orderly, NEW t \in Turns, AppendEntry(t)
  PROVE  LET u == user[t] IN
         /\ list[t] \in 1..Len(lists[u])
         /\ Stored(u, list[t], Append(lists[u][list[t]], Entry(t)))
         /\ current' = current
         /\ said' = [said EXCEPT ![u] = Append(said[u], Entry(t))]
<1> DEFINE u == user[t]
<1>1. u \in Users /\ Entry(t) \in Entries /\ StoreTypes
  BY EntryType DEF Orderly, TurnTypes, TypesAt, AppendEntry, Adding
<1>2. list[t] # 0
  BY DEF Orderly, Steady, TurnAt, AppendEntry, Adding
<1>3. list[t] \in 1..Len(lists[u])
  BY <1>1, <1>2 DEF Orderly, Bounds, HeldExist, OneListInRedis, StoreTypes
<1>4. Append(lists[u][list[t]], Entry(t)) \in Seq(Entries)
  BY <1>1, <1>3 DEF StoreTypes
<1>5. lists' = [lists EXCEPT ![u] = [lists[u] EXCEPT ![list[t]] = Append(lists[u][list[t]], Entry(t))]]
  BY <1>1 DEF AppendEntry, Extended
<1>6. Stored(u, list[t], Append(lists[u][list[t]], Entry(t)))
  <2>1. list[t] \in 1..(Len(lists[u]) + 1) /\ list[t] # Len(lists[u]) + 1
    BY <1>1, <1>3 DEF StoreTypes
  <2> QED
    BY <1>1, <1>4, <1>5, <2>1, ListPut
<1> QED
  BY <1>3, <1>6 DEF AppendEntry, Noted

\* Binding makes the slice the user's list.
LEMMA RebindEffect ==
  ASSUME Orderly, NEW t \in Turns, Rebind(t)
  PROVE  LET u == user[t]
             held == \E r \in Turns \ {t} : user[r] = u /\ list[r] = current[u]
             n == IF held \/ current[u] = 0 THEN Len(lists[u]) + 1 ELSE current[u]
         IN  /\ Stored(u, n, cut[t])
             /\ current' = [current EXCEPT ![u] = n]
             /\ said' = said
<1> DEFINE u == user[t]
           held == \E r \in Turns \ {t} : user[r] = u /\ list[r] = current[u]
           n == IF held \/ current[u] = 0 THEN Len(lists[u]) + 1 ELSE current[u]
<1>1. u \in Users /\ StoreTypes /\ cut[t] \in Seq(Entries)
  BY DEF Orderly, TurnTypes, TypesAt, StoreTypes
<1>2. n \in 1..(Len(lists[u]) + 1)
  BY <1>1 DEF StoreTypes
<1>3. /\ lists' = IF n > Len(lists[u]) THEN [lists EXCEPT ![u] = Append(@, cut[t])]
                  ELSE [lists EXCEPT ![u][n] = cut[t]]
      /\ current' = [current EXCEPT ![u] = n] /\ said' = said
  BY DEF Rebind
<1> HIDE DEF n
<1>4. \/ n = Len(lists[u]) + 1 /\ lists' = [lists EXCEPT ![u] = Append(lists[u], cut[t])]
      \/ n # Len(lists[u]) + 1 /\ lists' = [lists EXCEPT ![u] = [lists[u] EXCEPT ![n] = cut[t]]]
  BY <1>1, <1>2, <1>3 DEF StoreTypes
<1>5. Stored(u, n, cut[t])
  BY <1>1, <1>2, <1>4, ListPut
<1> QED
  BY <1>3, <1>5 DEF n

\* The checks leave a text that is safe to give, and never an empty one; they leave
\* the program's own texts alone.
LEMMA CheckedIs ==
  /\ Checked("empty") = "ready"
  /\ \A text \in Texts : Checked(text) \in {"fine", "ready", "replaced"}
  /\ \A text \in Answers \cup {"refusal", "busy"} : Checked(text) = text
BY DEF Checked, Texts, Answers

\* When add returns, the turn finishes it.
LEMMA AddedFinishes ==
  ASSUME TurnTypes, NEW t \in Turns, pc[t] \in Adding, Added(t), AddUnchanged
  PROVE  Finishes(t) /\ \A r \in Turns \ {t} : Stays(r)
<1>0. Arrays /\ role[t] \in Roles /\ door[t] \in {"http", "ws"}
  BY DEF TurnTypes, TypesAt
<1>1. \A r \in Turns \ {t} : pc'[r] = pc[r] /\ told'[r] = told[r] /\ role'[r] = role[r] /\ list'[r] = list[r]
  BY <1>0 DEF Arrays, Added, Return, GoTo
<1>2. \A r \in Turns : UNCHANGED <<door[r], user[r], live[r], deltas[r], reply[r], tokens[r], jobs[r]>>
  BY DEF AddUnchanged, turnVars
<1>3. Finishes(t)
  BY <1>0, <1>2 DEF Arrays, Roles, Finishes, Added, Return, GoTo
<1> QED
  BY <1>1, <1>2, <1>3 DEF Stays

-----------------------------------------------------------------------------
(***************************************************************************)
(* Every step moves at most one turn, and keeps the turns in shape.        *)
(***************************************************************************)
\* Admitting one turn leaves the others alone.
LEMMA AdmitApart ==
  ASSUME Arrays, NEW t \in Turns, NEW u \in Users, Admit(t, u)
  PROVE  \A r \in Turns \ {t} : Stays(r)
<1> SUFFICES ASSUME NEW r \in Turns \ {t} PROVE Stays(r)
  OBVIOUS
<1>1. UNCHANGED <<user[r], tokens[r], deltas[r], list[r], jobs[r]>>
  BY DEF Admit, Arrays
<1>2. PICK d \in {"http", "ws"} :
         /\ door' = [door EXCEPT ![t] = d]
         /\ live' = [live EXCEPT ![t] = (d = "ws" /\ streams)]
         /\ \/ /\ GoTo(t, "done") /\ told' = [told EXCEPT ![t] = <<"busy">>]
               /\ UNCHANGED <<reply, role, calm>>
            \/ /\ reply' = [reply EXCEPT ![t] = "refusal"]
               /\ GoTo(t, IF d = "http" THEN "job" ELSE "done")
               /\ told' = [told EXCEPT ![t] = IF d = "http" THEN <<>> ELSE <<"refusal">>]
               /\ UNCHANGED <<role, calm>>
            \/ /\ Start(t, IF d = "ws" /\ streams THEN "streaming" ELSE "llm")
               /\ UNCHANGED told
  BY DEF Admit
<1>3. UNCHANGED <<door[r], live[r]>>
  BY <1>2 DEF Arrays
<1>4. UNCHANGED <<pc[r], told[r]>>
  BY <1>2 DEF Arrays, GoTo, Start, Remember
<1>5. UNCHANGED <<reply[r], role[r]>>
  BY <1>2 DEF Arrays, Start, Remember
<1> QED
  BY <1>1, <1>3, <1>4, <1>5 DEF Stays

\* Every action is one of the seven moves, or moves no turn.
LEMMA TurnsMove ==
  ASSUME TurnTypes, StoreTypes, Steady, [Next]_vars
  PROVE  Turning
<1>0. Arrays /\ \A t \in Turns : TypesAt(t)
  BY DEF TurnTypes
<1> USE <1>0
<1> USE ChatAssumption DEF GoTo, turnVars, answerVars, addVars, storeVars, Ended, Adding
<1>1. ASSUME NEW t \in Turns, NEW u \in Users, Admit(t, u) PROVE Turning
  <2>1. PICK d \in {"http", "ws"} :
           /\ Free(d) /\ door' = [door EXCEPT ![t] = d]
           /\ live' = [live EXCEPT ![t] = (d = "ws" /\ streams)]
           /\ \/ /\ GoTo(t, "done") /\ told' = [told EXCEPT ![t] = <<"busy">>]
                 /\ UNCHANGED <<reply, role, calm>>
              \/ /\ reply' = [reply EXCEPT ![t] = "refusal"]
                 /\ GoTo(t, IF d = "http" THEN "job" ELSE "done")
                 /\ told' = [told EXCEPT ![t] = IF d = "http" THEN <<>> ELSE <<"refusal">>]
                 /\ UNCHANGED <<role, calm>>
              \/ /\ Start(t, IF d = "ws" /\ streams THEN "streaming" ELSE "llm")
                 /\ calm' = [calm EXCEPT ![u] = @ /\ Busy(u) = {}]
                 /\ UNCHANGED told
    BY <1>1 DEF Admit
  <2>2. \A r \in Turns \ {t} : Stays(r)
    BY <1>1, AdmitApart
  <2>3. \A v \in Users : calm'[v] => calm[v]
    BY <2>1 DEF StoreTypes
  <2>4. door'[t] = d /\ live'[t] = (d = "ws" /\ streams) /\ user'[t] = u /\ tokens'[t] = tokens[t] + 1
    BY <1>1, <2>1 DEF Admit, Arrays
  <2>5. ASSUME pc'[t] \notin {"job", "done"}, calm'[u], NEW r \in Turns, user[r] = u
        PROVE  pc[r] \in Ended
    <3>1. pc'[t] = "job" \/ pc'[t] = "done" \/ (calm'[u] => Busy(u) = {})
      BY <2>1 DEF Arrays, StoreTypes
    <3> QED
      BY <2>5, <3>1 DEF Busy
  <2>6. Enters(t)
    <3>1. /\ pc[t] = "new" /\ Free(door'[t]) /\ door'[t] \in {"http", "ws"} /\ user'[t] \in Users
          /\ UNCHANGED <<deltas[t], list[t], jobs[t]>>
      BY <1>1, <2>1, <2>4 DEF Admit
    <3> QED
      BY <2>1, <2>4, <2>5, <3>1 DEF Enters, Start, Remember, Arrays
  <2> QED
    BY <1>1, <2>2, <2>3, <2>6 DEF Admit, Turning, Moves
<1>2. ASSUME NEW t \in Turns, ModelAnswers(t) PROVE Turning
  <2>1. Moves(t)
    BY <1>2, CheckedIs DEF ModelAnswers, Answer, Remember, Moves, Knows, Arrays, TypesAt, Steady, TurnAt
  <2>2. \A r \in Turns \ {t} : Stays(r)
    BY <1>2 DEF ModelAnswers, Answer, Remember, Texts, Stays, Arrays
  <2>3. UNCHANGED <<redis, streams, calm>>
    BY <1>2 DEF ModelAnswers, Answer, Remember, Texts
  <2> QED
    BY <2>1, <2>2, <2>3 DEF Turning
<1>3. ASSUME NEW t \in Turns, Delta(t) PROVE Turning
  <2>1. Moves(t)
    BY <1>3, CheckedIs DEF Delta, Moves, Streaming, Arrays, TypesAt, Steady, TurnAt
  <2>2. \A r \in Turns \ {t} : Stays(r)
    BY <1>3 DEF Delta, Stays, Arrays
  <2>3. UNCHANGED <<redis, streams, calm>>
    BY <1>3 DEF Delta
  <2> QED
    BY <2>1, <2>2, <2>3 DEF Turning
<1>4. ASSUME NEW t \in Turns, StreamEnds(t) PROVE Turning
  <2>0. PICK text \in Streamed(t) : Answer(t, text) /\ Shown(t, text)
    BY <1>4 DEF StreamEnds
  <2>1. Knows(t)
    <3>1. /\ pc[t] = "streaming" /\ pc'[t] = "fetch" /\ role'[t] = "user" /\ reply'[t] = Checked(text)
          /\ UNCHANGED <<live[t], deltas[t], door[t], user[t], list[t], tokens[t], jobs[t]>>
      BY <1>4, <2>0 DEF StreamEnds, Answer, Remember, Arrays
    <3>2. told'[t] = IF deltas[t] = 0 THEN told[t] ELSE Append(told[t], text)
      BY <2>0 DEF Shown, Arrays
    <3>3. IF deltas[t] = 0 THEN text = "empty" ELSE text \in Texts
      BY DEF Streamed
    <3> QED
      BY <3>1, <3>2, <3>3, CheckedIs DEF Knows
  <2>2. \A r \in Turns \ {t} : Stays(r)
    BY <2>0 DEF Answer, Remember, Shown, Stays, Arrays
  <2>3. UNCHANGED <<redis, streams, calm>>
    BY <2>0 DEF Answer
  <2> QED
    BY <2>1, <2>2, <2>3 DEF Turning, Moves
<1>5. ASSUME NEW t \in Turns, StreamFails(t) PROVE Turning
  <2>0. \A r \in Turns \ {t} : Stays(r)
    BY <1>5 DEF StreamFails, Shown, Start, Remember, Stays, Arrays
  <2>1. Breaks(t)
    BY <1>5 DEF StreamFails, Shown, Breaks, Arrays
  <2>2. CASE Remember(t, "rule")
    <3>1. Knows(t)
      BY <1>5, <2>1, <2>2 DEF StreamFails, Remember, Knows, Arrays
    <3> QED
      BY <1>5, <2>0, <3>1 DEF StreamFails, Turning, Moves
  <2>3. CASE (GoTo(t, "llm") \/ GoTo(t, "gone")) /\ UNCHANGED <<reply, role>>
    <3>1. Streaming(t)
      BY <1>5, <2>1, <2>3 DEF StreamFails, Streaming, Arrays, TypesAt
    <3> QED
      BY <1>5, <2>0, <3>1 DEF StreamFails, Turning, Moves
  <2> QED
    BY <1>5, <2>2, <2>3 DEF StreamFails, Start
<1>6. ASSUME NEW t \in Turns, Abandon(t) PROVE Turning
  <2>1. Moves(t)
    BY <1>6, CheckedIs DEF Abandon, Moves, Streaming, Arrays, TypesAt, Steady, TurnAt
  <2>2. \A r \in Turns \ {t} : Stays(r)
    BY <1>6 DEF Abandon, Stays, Arrays
  <2>3. UNCHANGED <<redis, streams, calm>>
    BY <1>6 DEF Abandon
  <2> QED
    BY <2>1, <2>2, <2>3 DEF Turning
<1>7. ASSUME NEW t \in Turns, RedisPush(t) PROVE Turning
  <2>0. UNCHANGED <<redis, streams, calm>>
    BY <1>7 DEF RedisPush, AddUnchanged
  <2>1. CASE Added(t)
    BY <1>7, <2>0, <2>1, AddedFinishes DEF RedisPush, Turning, Moves
  <2>2. CASE GoTo(t, "trim") /\ UNCHANGED <<role, list, told>>
    <3>1. Stores(t)
      BY <1>7, <2>0, <2>2 DEF RedisPush, AddUnchanged, Stores, Arrays, TypesAt, Steady, TurnAt
    <3>2. \A r \in Turns \ {t} : Stays(r)
      BY <1>7, <2>2 DEF RedisPush, AddUnchanged, Stays, Arrays
    <3> QED
      BY <2>0, <3>1, <3>2 DEF Turning, Moves
  <2> QED
    BY <1>7, <2>1, <2>2 DEF RedisPush
<1>8. ASSUME NEW t \in Turns, RedisTrim(t) PROVE Turning
  <2>1. pc[t] \in Adding
    BY <1>8 DEF RedisTrim
  <2> QED
    BY <1>8, <2>1, AddedFinishes DEF RedisTrim, AddUnchanged, Turning, Moves
<1>9. ASSUME NEW t \in Turns, Fetch(t) PROVE Turning
  <2>1. list' = [list EXCEPT ![t] = current'[user[t]]] /\ current'[user[t]] \in Nat \ {0}
    <3>1. user[t] \in Users /\ Len(lists[user[t]]) \in Nat /\ current[user[t]] \in Nat
      BY DEF TypesAt, StoreTypes
    <3>2. /\ list' = [list EXCEPT ![t] = current'[user[t]]]
          /\ current' = [current EXCEPT ![user[t]] = IF @ = 0 THEN Len(lists[user[t]]) + 1 ELSE @]
      BY <1>9, FetchEffect
    <3> QED
      BY <3>1, <3>2 DEF StoreTypes
  <2>2. Stores(t)
    BY <1>9, <2>1 DEF Fetch, AddUnchanged, Stores, Arrays
  <2>3. \A r \in Turns \ {t} : Stays(r)
    BY <1>9, <2>1 DEF Fetch, AddUnchanged, Stays, Arrays
  <2> QED
    BY <1>9, <2>2, <2>3 DEF Fetch, AddUnchanged, Turning, Moves
<1>10. ASSUME NEW t \in Turns, AppendEntry(t) PROVE Turning
  <2>1. ~redis /\ list[t] # 0 /\ UNCHANGED redis
    BY <1>10 DEF AppendEntry, AddUnchanged, Steady, TurnAt
  <2>2. Stores(t)
    BY <1>10, <2>1 DEF AppendEntry, AddUnchanged, Stores, Arrays, TypesAt
  <2>3. \A r \in Turns \ {t} : Stays(r)
    BY <1>10 DEF AppendEntry, AddUnchanged, Stays, Arrays
  <2> QED
    BY <1>10, <2>2, <2>3 DEF AppendEntry, AddUnchanged, Turning, Moves
<1>11. ASSUME NEW t \in Turns, Slice(t) PROVE Turning
  <2>0. UNCHANGED <<redis, streams, calm>>
    BY <1>11 DEF Slice, AddUnchanged
  <2>1. CASE Added(t)
    BY <1>11, <2>0, <2>1, AddedFinishes DEF Slice, Turning, Moves
  <2>2. CASE GoTo(t, "rebind") /\ UNCHANGED <<role, list, told>>
    <3>1. Stores(t)
      BY <1>11, <2>0, <2>2 DEF Slice, AddUnchanged, Stores, Arrays, TypesAt, Steady, TurnAt
    <3>2. \A r \in Turns \ {t} : Stays(r)
      BY <1>11, <2>2 DEF Slice, AddUnchanged, Stays, Arrays
    <3> QED
      BY <2>0, <3>1, <3>2 DEF Turning, Moves
  <2> QED
    BY <1>11, <2>1, <2>2 DEF Slice
<1>12. ASSUME NEW t \in Turns, Rebind(t) PROVE Turning
  <2>1. pc[t] \in Adding
    BY <1>12 DEF Rebind
  <2> QED
    BY <1>12, <2>1, AddedFinishes DEF Rebind, AddUnchanged, Turning, Moves
<1>13. ASSUME NEW t \in Turns, Job(t) PROVE Turning
  <2>1. Moves(t)
    BY <1>13, CheckedIs DEF Job, Moves, Pays, Arrays, TypesAt, Steady, TurnAt
  <2>2. \A r \in Turns \ {t} : Stays(r)
    BY <1>13 DEF Job, Stays, Arrays
  <2>3. UNCHANGED <<redis, streams, calm>>
    BY <1>13 DEF Job
  <2> QED
    BY <2>1, <2>2, <2>3 DEF Turning
<1>14. ASSUME NEW t \in Turns, Forget(t) PROVE Turning
  <2>1. Moves(t)
    BY <1>14, CheckedIs DEF Forget, Moves, Clears, Arrays, TypesAt, Steady, TurnAt
  <2>2. \A r \in Turns \ {t} : Stays(r)
    BY <1>14 DEF Forget, Stays, Arrays
  <2>3. UNCHANGED <<redis, streams, calm>>
    BY <1>14 DEF Forget
  <2> QED
    BY <2>1, <2>2, <2>3 DEF Turning
<1>15. ASSUME NEW u \in Users, Clear(u) PROVE Turning
  BY <1>15 DEF Clear, RedisFails, Turning, Stays, StoreTypes
<1>16. CASE UNCHANGED vars
  BY <1>16 DEF vars, Turning, Stays
<1> QED
  BY <1>1, <1>2, <1>3, <1>4, <1>5, <1>6, <1>7, <1>8, <1>9, <1>10, <1>11, <1>12, <1>13,
     <1>14, <1>15, <1>16
  DEF Next

\* The lock of the WebSocket handler keeps its turns apart.
LEMMA SocketStep ==
  ASSUME TurnTypes, Steady, OneSocket, Turning
  PROVE  OneSocket'
<1> USE DEF Ended, Adding
<1>1. CASE \A t \in Turns : Stays(t)
  BY <1>1 DEF Turning, Stays, OneSocket, Free
<1>0. UNCHANGED <<redis, streams>>
  BY DEF Turning
<1>2. ASSUME NEW t \in Turns, Moves(t), \A r \in Turns \ {t} : Stays(r) PROVE OneSocket'
  <2>t. TurnAt(t)
    BY DEF Steady
  <2>1. CASE Enters(t)
    BY <1>0, <1>2, <2>1, <2>t DEF Enters, Stays, OneSocket, Free
  <2>2. CASE Knows(t)
    BY <1>0, <1>2, <2>2, <2>t DEF Knows, Stays, OneSocket, Free
  <2>3. CASE Streaming(t)
    BY <1>0, <1>2, <2>3, <2>t DEF Streaming, Stays, OneSocket, Free
  <2>4. CASE Stores(t)
    BY <1>0, <1>2, <2>4, <2>t DEF Stores, Stays, OneSocket, Free
  <2>5. CASE Finishes(t)
    BY <1>0, <1>2, <2>5, <2>t DEF Finishes, Stays, OneSocket, Free
  <2>6. CASE Pays(t)
    BY <1>0, <1>2, <2>6, <2>t DEF Pays, Stays, OneSocket, Free
  <2>7. CASE Clears(t)
    BY <1>0, <1>2, <2>7, <2>t DEF Clears, Stays, OneSocket, Free
  <2> QED
    BY <1>2, <2>1, <2>2, <2>3, <2>4, <2>5, <2>6, <2>7 DEF Moves
<1> QED
  BY <1>1, <1>2 DEF Turning

\* A turn stays consistent with where it is.
LEMMA SteadyStep ==
  ASSUME TurnTypes, Steady, Turning
  PROVE  Steady'
<1> USE DEF Ended, Adding
<1>1. CASE \A t \in Turns : Stays(t)
  BY <1>1 DEF Turning, Stays, Steady, TurnAt, Steady
<1>0. UNCHANGED <<redis, streams>>
  BY DEF Turning
<1>2. ASSUME NEW t \in Turns, Moves(t), \A r \in Turns \ {t} : Stays(r) PROVE Steady'
  <2>t. TurnAt(t)
    BY DEF Steady
  <2>1. CASE Enters(t)
    <3>1. /\ tokens[t] = 0 /\ jobs[t] = 0 /\ list[t] = 0 /\ reply[t] = "none"
          /\ tokens'[t] = 1 /\ jobs'[t] = 0 /\ list'[t] = 0
      BY <2>1, <2>t DEF Enters, TurnAt
    <3>2. live'[t] => door'[t] = "ws"
      BY <2>1 DEF Enters
    <3>3. TurnAt(t)'
      BY <1>0, <2>1, <3>1, <3>2 DEF Enters, TurnAt, Answers
    <3> QED
      BY <1>0, <1>2, <3>3 DEF Stays, Steady, TurnAt
  <2>2. CASE Knows(t)
    <3>0. reply'[t] \in Answers
      BY <2>2, CheckedIs DEF Knows, Answers
    <3>1. TurnAt(t)'
      BY <1>0, <2>2, <2>t, <3>0 DEF Knows, Breaks, TurnAt
    <3> QED
      BY <1>0, <1>2, <3>1 DEF Stays, Steady, TurnAt
  <2>3. CASE Streaming(t)
    <3>1. TurnAt(t)'
      BY <1>0, <2>3, <2>t DEF Streaming, Breaks, TurnAt
    <3> QED
      BY <1>0, <1>2, <3>1 DEF Stays, Steady, TurnAt
  <2>4. CASE Stores(t)
    BY <1>0, <1>2, <2>4, <2>t DEF Stores, Stays, Steady, TurnAt
  <2>5. CASE Finishes(t)
    BY <1>0, <1>2, <2>5, <2>t DEF Finishes, Stays, Steady, TurnAt
  <2>6. CASE Pays(t)
    BY <1>0, <1>2, <2>6, <2>t DEF Pays, Stays, Steady, TurnAt
  <2>7. CASE Clears(t)
    BY <1>0, <1>2, <2>7, <2>t DEF Clears, Stays, Steady, TurnAt
  <2> QED
    BY <1>2, <2>1, <2>2, <2>3, <2>4, <2>5, <2>6, <2>7 DEF Moves
<1> QED
  BY <1>1, <1>2 DEF Turning

\* What was shown when another text is.
LEMMA Appended ==
  ASSUME NEW text \in Said
  PROVE  LET s == Append(<<"part">>, text) IN
         /\ Append(<<>>, text) = <<text>>
         /\ s # <<>> /\ Len(s) = 2 /\ s[1] = "part" /\ s[2] = text
<1>1. <<"part">> \in Seq(Said) /\ Len(<<"part">>) = 1 /\ <<"part">>[1] = "part"
  BY DEF Said
<1> QED
  BY <1>1

\* A turn shows one answer, and remembers it, step by step.
LEMMA TellingStep ==
  ASSUME TurnTypes, Steady, Telling, Turning
  PROVE  Telling'
<1> USE DEF Adding
<1>1. CASE \A t \in Turns : Stays(t)
  BY <1>1 DEF Stays, Telling, ToldAt, Part, ShowsOneAnswer, WasStreamed
<1>2. ASSUME NEW t \in Turns, Moves(t), \A r \in Turns \ {t} : Stays(r) PROVE Telling'
  <2>t. TurnAt(t) /\ ToldAt(t) /\ TypesAt(t) /\ deltas[t] \in Nat
    BY ChatAssumption DEF Steady, Telling, TurnTypes, TypesAt
  <2>p. ASSUME pc[t] = "streaming", Breaks(t), door'[t] = door[t] PROVE Part(t)' /\ ~live'[t]
    <3>1. told[t] = <<>> /\ door[t] = "ws" /\ Append(<<>>, "part") = <<"part">>
      BY <2>t, <2>p, Appended DEF ToldAt, TurnAt, Said
    <3>2. deltas'[t] = deltas[t] /\ ~live'[t] /\ (deltas[t] # 0 => deltas[t] > 0)
      BY <2>t, <2>p DEF Breaks
    <3>3. told'[t] = IF deltas[t] = 0 THEN <<>> ELSE <<"part">>
      BY <2>p, <3>1 DEF Breaks
    <3> QED
      BY <2>p, <3>1, <3>2, <3>3 DEF Part
  <2>0. ASSUME ToldAt(t)' PROVE Telling'
    BY <1>2, <2>0 DEF Stays, Telling, ToldAt, Part, ShowsOneAnswer, WasStreamed
  <2>1. CASE Enters(t)
    <3>1. told[t] = <<>> /\ reply[t] = "none"
      BY <2>1, <2>t DEF Enters, TurnAt, ToldAt
    <3>2. CASE pc'[t] = "done" /\ told'[t] = <<"busy">> /\ reply'[t] = reply[t]
      BY <2>0, <3>1, <3>2 DEF ToldAt, ShowsOneAnswer
    <3>3. CASE /\ reply'[t] = "refusal"
               /\ \/ pc'[t] = "job" /\ told'[t] = <<>>
                  \/ pc'[t] = "done" /\ told'[t] = <<"refusal">>
      <4>1. Memory(<<"refusal">>) = "refusal"
        BY CheckedIs DEF Memory
      <4> QED
        BY <2>0, <3>3, <4>1 DEF ToldAt, ShowsOneAnswer
    <3>4. CASE pc'[t] = "fetch" /\ reply'[t] = "rule" /\ told'[t] = told[t]
      BY <2>0, <3>1, <3>4 DEF ToldAt, Part, WasStreamed
    <3>5. CASE pc'[t] \in {"streaming", "llm", "gone"} /\ told'[t] = told[t]
      BY <2>0, <3>1, <3>5 DEF ToldAt, Part
    <3> QED
      BY <2>0, <2>1, <3>2, <3>3, <3>4, <3>5 DEF Enters
  <2>2. CASE Knows(t)
    <3>1. CASE pc[t] = "llm" /\ reply'[t] \in {"fine", "ready", "replaced"}
               /\ UNCHANGED <<live[t], told[t], deltas[t]>>
      <4>1. ~live'[t]
        BY <2>t, <3>1 DEF TurnAt
      <4>2. Part(t)'
        BY <2>2, <2>t, <3>1 DEF Knows, ToldAt, Part
      <4> QED
        BY <2>0, <2>2, <4>1, <4>2 DEF Knows, ToldAt, WasStreamed
    <3>2. CASE pc[t] = "streaming" /\ deltas[t] = 0 /\ reply'[t] = "ready"
               /\ UNCHANGED <<live[t], told[t], deltas[t]>>
      BY <2>0, <2>2, <2>t, <3>2 DEF Knows, ToldAt, TurnAt, WasStreamed
    <3>3. CASE /\ pc[t] = "streaming" /\ deltas[t] # 0
               /\ \E text \in Texts : reply'[t] = Checked(text) /\ told'[t] = Append(told[t], text)
               /\ UNCHANGED <<live[t], deltas[t]>>
      <4>1. PICK text \in Texts : reply'[t] = Checked(text) /\ told'[t] = Append(told[t], text)
        BY <3>3
      <4>0. told[t] = <<>> /\ live[t] /\ Append(<<>>, text) = <<text>>
        BY <2>t, <3>3, Appended DEF ToldAt, TurnAt, Said
      <4>2. told'[t] = <<text>> /\ live'[t] /\ reply'[t] # "rule"
        BY <3>3, <4>0, <4>1, CheckedIs
      <4> QED
        BY <2>0, <2>2, <3>3, <4>1, <4>2 DEF Knows, ToldAt, WasStreamed
    <3>4. CASE pc[t] = "streaming" /\ reply'[t] = "rule" /\ Breaks(t)
      <4>1. Part(t)' /\ ~live'[t]
        BY <2>2, <2>p, <3>4 DEF Knows
      <4> QED
        BY <2>0, <2>2, <4>1 DEF Knows, ToldAt, WasStreamed
    <3> QED
      BY <2>2, <3>1, <3>2, <3>3, <3>4 DEF Knows
  <2>3. CASE Streaming(t)
    <3>1. CASE pc'[t] \in {"streaming", "gone"} /\ UNCHANGED told[t]
      BY <2>0, <2>3, <2>t, <3>1 DEF Streaming, ToldAt
    <3>2. CASE pc'[t] \in {"llm", "gone"} /\ Breaks(t)
      <4>1. Part(t)'
        BY <2>3, <2>p, <3>2 DEF Streaming
      <4> QED
        BY <2>0, <3>2, <4>1 DEF ToldAt
    <3> QED
      BY <2>3, <3>1, <3>2 DEF Streaming
  <2>4. CASE Stores(t)
    BY <2>0, <2>4, <2>t DEF Stores, ToldAt, Part, WasStreamed
  <2>5. CASE Finishes(t)
    <3>1. /\ UNCHANGED <<door[t], live[t], deltas[t], reply[t]>> /\ reply[t] \in Answers
          /\ Checked(reply[t]) = reply[t]
      BY <2>5, <2>t, CheckedIs DEF Finishes, TurnAt
    <3>2. CASE pc'[t] = "fetch" /\ UNCHANGED told[t]
      BY <2>0, <2>5, <2>t, <3>1, <3>2 DEF Finishes, ToldAt, Part, WasStreamed
    <3>3. CASE WasStreamed(t) /\ pc'[t] = "done" /\ UNCHANGED told[t]
      <4>1. CASE told[t] = <<>> /\ deltas[t] = 0 /\ reply[t] = "ready"
        BY <2>0, <3>1, <3>3, <4>1 DEF ToldAt, ShowsOneAnswer, Memory, WasStreamed
      <4>2. ASSUME NEW text \in Texts, told[t] = <<text>>, reply[t] = Checked(text)
            PROVE  Telling'
        <5>1. Memory(told[t]) = reply[t] /\ Len(told[t]) = 1 /\ told[t][1] # "part"
          BY <4>2 DEF Memory, Texts
        <5>2. told[t] # <<"busy">> /\ told[t] # <<"refusal">>
          BY <4>2 DEF Texts
        <5> QED
          BY <2>0, <3>1, <3>3, <5>1, <5>2 DEF ToldAt, ShowsOneAnswer
      <4> QED
        BY <2>5, <2>t, <3>3, <4>1, <4>2 DEF Finishes, ToldAt
    <3>4. CASE ~WasStreamed(t) /\ pc'[t] = "job" /\ door[t] = "http" /\ UNCHANGED told[t]
      BY <2>0, <2>5, <2>t, <3>4 DEF Finishes, ToldAt, Part
    <3>5. CASE ~WasStreamed(t) /\ pc'[t] = "done" /\ told'[t] = Append(told[t], reply[t])
      <4>0. Part(t)
        BY <2>5, <2>t, <3>5 DEF Finishes, ToldAt
      <4>1. reply[t] \notin {"part", "busy", "refusal"}
        BY <3>1 DEF Answers
      <4>2. \/ told[t] = <<>> /\ told'[t] = <<reply[t]>>
            \/ /\ told[t] = <<"part">> /\ door[t] = "ws" /\ ~live[t] /\ deltas[t] > 0
               /\ told'[t] # <<>> /\ Len(told'[t]) = 2
               /\ told'[t][1] = "part" /\ told'[t][2] = reply[t]
        <5>1. reply[t] \in Said
          BY <3>1 DEF Answers, Said, Replies
        <5> QED
          BY <3>5, <4>0, <5>1, Appended DEF Part
      <4>3. Memory(told'[t]) = reply[t]
        <5>1. told'[t] # <<>> /\ told'[t][Len(told'[t])] = reply[t]
          BY <4>2
        <5> QED
          BY <3>1, <5>1 DEF Memory
      <4>4. ShowsOneAnswer(t)'
        <5>1. CASE told'[t] = <<reply[t]>>
          BY <4>1, <5>1 DEF ShowsOneAnswer
        <5>2. CASE Len(told'[t]) = 2
          BY <3>1, <4>1, <4>2, <5>2 DEF ShowsOneAnswer
        <5> QED
          BY <4>2, <5>1, <5>2
      <4>5. told'[t] # <<"busy">> /\ told'[t] # <<"refusal">>
        BY <4>1, <4>2
      <4> QED
        BY <2>0, <3>1, <3>5, <4>3, <4>4, <4>5 DEF ToldAt
    <3> QED
      BY <2>5, <3>2, <3>3, <3>4, <3>5 DEF Finishes
  <2>6. CASE Pays(t)
    <3>0. reply[t] \in Said /\ told[t] = <<>>
      BY <2>6, <2>t DEF Pays, ToldAt, TurnAt, Answers, Said, Replies
    <3>1. told'[t] = <<reply[t]>> /\ reply'[t] = reply[t] /\ pc'[t] = "done"
      BY <2>6, <3>0, Appended DEF Pays
    <3>2. reply[t] \in Answers \cup {"refusal"} /\ Checked(reply[t]) = reply[t]
      BY <2>6, <2>t, CheckedIs DEF Pays, TurnAt
    <3>3. Memory(told'[t]) = reply'[t] /\ told'[t] # <<"busy">>
      BY <3>1, <3>2 DEF Memory, Answers
    <3>4. reply[t] # "part" /\ (reply[t] \notin Answers => told'[t] = <<"refusal">>)
      BY <3>1, <3>2 DEF Answers
    <3>5. ShowsOneAnswer(t)'
      BY <3>1, <3>4 DEF ShowsOneAnswer
    <3> QED
      BY <2>0, <3>1, <3>3, <3>4, <3>5 DEF ToldAt
  <2>7. CASE Clears(t)
    BY <2>0, <2>7 DEF Clears, ToldAt
  <2> QED
    BY <1>2, <2>1, <2>2, <2>3, <2>4, <2>5, <2>6, <2>7 DEF Moves
<1> QED
  BY <1>1, <1>2 DEF Turning

\* Jobs stay behind answers, step by step.
LEMMA JobStep ==
  ASSUME TurnTypes, Steady, Telling, JobBehindAnswer, Turning
  PROVE  JobBehindAnswer'
<1> USE DEF Ended, Adding
<1>1. CASE \A t \in Turns : Stays(t)
  BY <1>1 DEF Turning, Stays, TurnAt, Steady, JobBehindAnswer
<1>0. UNCHANGED <<redis, streams>>
  BY DEF Turning
<1>2. ASSUME NEW t \in Turns, Moves(t), \A r \in Turns \ {t} : Stays(r) PROVE JobBehindAnswer'
  <2>t. TurnAt(t) /\ (pc[t] = "job" => told[t] = <<>>)
    BY DEF Steady, Telling, ToldAt
  <2>1. CASE Enters(t)
    BY <1>0, <1>2, <2>1, <2>t DEF Enters, Stays, TurnAt, JobBehindAnswer
  <2>2. CASE Knows(t)
    BY <1>0, <1>2, <2>2, <2>t DEF Knows, Stays, TurnAt, JobBehindAnswer
  <2>3. CASE Streaming(t)
    BY <1>0, <1>2, <2>3, <2>t DEF Streaming, Stays, TurnAt, JobBehindAnswer
  <2>4. CASE Stores(t)
    BY <1>0, <1>2, <2>4, <2>t DEF Stores, Stays, TurnAt, JobBehindAnswer
  <2>5. CASE Finishes(t)
    BY <1>0, <1>2, <2>5, <2>t DEF Finishes, Stays, TurnAt, JobBehindAnswer
  <2>6. CASE Pays(t)
    <3>0. reply[t] \in Answers \cup {"refusal"} /\ told[t] = <<>>
      BY <2>6, <2>t DEF Pays, TurnAt
    <3>1. told'[t] = <<reply[t]>> /\ reply[t] # "none"
      BY <2>6, <3>0, Appended DEF Pays, Answers, Said, Replies
    <3> QED
      BY <1>0, <1>2, <2>6, <2>t, <3>1 DEF Pays, Stays, TurnAt, JobBehindAnswer
  <2>7. CASE Clears(t)
    BY <1>0, <1>2, <2>7, <2>t DEF Clears, Stays, TurnAt, JobBehindAnswer
  <2> QED
    BY <1>2, <2>1, <2>2, <2>3, <2>4, <2>5, <2>6, <2>7 DEF Moves
<1> QED
  BY <1>1, <1>2 DEF Turning

\* The turns stay functions.
LEMMA ArraysStep ==
  ASSUME Arrays, [Next]_vars
  PROVE  Arrays'
<1> USE ChatAssumption DEF GoTo, turnVars, answerVars, addVars, storeVars, Ended, Adding
<1>1. ASSUME NEW t \in Turns, NEW u \in Users, Admit(t, u) PROVE Arrays'
  BY <1>1 DEF Admit, Start, Remember, Free, Arrays
<1>2. ASSUME NEW t \in Turns, ModelAnswers(t) PROVE Arrays'
  BY <1>2 DEF ModelAnswers, Answer, Remember, Arrays
<1>3. ASSUME NEW t \in Turns, Delta(t) PROVE Arrays'
  BY <1>3 DEF Delta, Arrays
<1>4. ASSUME NEW t \in Turns, StreamEnds(t) PROVE Arrays'
  BY <1>4 DEF StreamEnds, Answer, Remember, Shown, Arrays
<1>5. ASSUME NEW t \in Turns, StreamFails(t) PROVE Arrays'
  BY <1>5 DEF StreamFails, Shown, Start, Remember, Arrays
<1>6. ASSUME NEW t \in Turns, Abandon(t) PROVE Arrays'
  BY <1>6 DEF Abandon, Arrays
<1>7. ASSUME NEW t \in Turns, RedisPush(t) PROVE Arrays'
  BY <1>7 DEF RedisPush, Push, Noted, Extended, Added, Return, WasStreamed, AddUnchanged, RedisFails, Arrays
<1>8. ASSUME NEW t \in Turns, RedisTrim(t) PROVE Arrays'
  BY <1>8 DEF RedisTrim, Added, Return, WasStreamed, AddUnchanged, RedisFails, Arrays
<1>9. ASSUME NEW t \in Turns, Fetch(t) PROVE Arrays'
  BY <1>9 DEF Fetch, AddUnchanged, Arrays
<1>10. ASSUME NEW t \in Turns, AppendEntry(t) PROVE Arrays'
  BY <1>10 DEF AppendEntry, Noted, Extended, AddUnchanged, Arrays
<1>11. ASSUME NEW t \in Turns, Slice(t) PROVE Arrays'
  BY <1>11 DEF Slice, Added, Return, WasStreamed, AddUnchanged, RedisFails, Arrays
<1>12. ASSUME NEW t \in Turns, Rebind(t) PROVE Arrays'
  BY <1>12 DEF Rebind, Added, Return, WasStreamed, AddUnchanged, RedisFails, Arrays
<1>13. ASSUME NEW t \in Turns, Job(t) PROVE Arrays'
  BY <1>13 DEF Job, Arrays
<1>14. ASSUME NEW t \in Turns, Forget(t) PROVE Arrays'
  BY <1>14 DEF Forget, Arrays
<1>15. ASSUME NEW u \in Users, Clear(u) PROVE Arrays'
  BY <1>15 DEF Clear, RedisFails, Arrays
<1>16. CASE UNCHANGED vars
  BY <1>16 DEF vars, Arrays
<1> QED
  BY <1>1, <1>2, <1>3, <1>4, <1>5, <1>6, <1>7, <1>8, <1>9, <1>10, <1>11, <1>12, <1>13,
     <1>14, <1>15, <1>16
  DEF Next

\* The turns keep their types.
LEMMA TurnTypesStep ==
  ASSUME Orderly, [Next]_vars
  PROVE  TurnTypes'
<1>1. Turning
  BY TurnsMove DEF Orderly
<1>2. ASSUME NEW t \in Turns, Moves(t) PROVE TypesAt(t)'
  <2> USE DEF Ended, Adding, Roles
  <2>0. TypesAt(t) /\ TurnAt(t)
    BY DEF Orderly, TurnTypes, Steady
  <2>a. /\ told[t] \in Seq(Said) /\ <<>> \in Seq(Said)
        /\ \A r \in Said : <<r>> \in Seq(Said) /\ Append(told[t], r) \in Seq(Said)
    BY <2>0 DEF TypesAt
  <2>b. /\ {"busy", "part", "refusal"} \subseteq Said /\ Texts \subseteq Said /\ Replies \subseteq Said
        /\ {"rule", "fine", "ready", "replaced", "refusal"} \subseteq Replies
    BY DEF Said, Replies
  <2>1. CASE Enters(t)
    <3>1. tokens'[t] = 1 /\ deltas'[t] \in 0..MaxDeltas /\ list'[t] \in Nat /\ jobs'[t] \in Nat
      BY <2>0, <2>1 DEF Enters, TypesAt, TurnAt
    <3>2. /\ pc'[t] \in {"done", "job", "fetch", "streaming", "llm", "gone"}
          /\ reply'[t] \in Replies \cup {"none"} /\ role'[t] \in Roles
      BY <2>0, <2>1, <2>b DEF Enters, TypesAt
    <3>3. told'[t] \in {told[t], <<>>, <<"busy">>, <<"refusal">>}
      BY <2>1 DEF Enters
    <3>4. told'[t] \in Seq(Said)
      BY <2>a, <2>b, <3>3
    <3>5. door'[t] \in {"http", "ws"} /\ user'[t] \in Users /\ live'[t] \in BOOLEAN
      BY <2>1 DEF Enters
    <3> QED
      BY <3>1, <3>2, <3>4, <3>5 DEF TypesAt
  <2>2. CASE Knows(t)
    <3>1. told'[t] \in Seq(Said)
      BY <2>2, <2>a, <2>b DEF Knows, Breaks
    <3>2. reply'[t] \in Replies
      BY <2>2, <2>b, CheckedIs DEF Knows
    <3>3. live'[t] \in BOOLEAN /\ deltas'[t] = deltas[t] /\ pc'[t] = "fetch" /\ role'[t] = "user"
      BY <2>2, <2>0 DEF Knows, Breaks, TypesAt
    <3> QED
      BY <2>0, <2>2, <3>1, <3>2, <3>3 DEF Knows, TypesAt
  <2>3. CASE Streaming(t)
    <3>1. told'[t] \in Seq(Said)
      BY <2>3, <2>a, <2>b DEF Streaming, Breaks
    <3>2. live'[t] \in BOOLEAN /\ deltas'[t] \in 0..MaxDeltas /\ pc'[t] \in {"streaming", "gone", "llm"}
      BY <2>3, <2>0 DEF Streaming, Breaks, TypesAt
    <3> QED
      BY <2>0, <2>3, <3>1, <3>2 DEF Streaming, TypesAt
  <2>4. CASE Stores(t)
    BY <2>0, <2>4 DEF Stores, TypesAt
  <2>5. CASE Finishes(t)
    <3>1. reply[t] \in Said
      BY <2>0, <2>5, <2>b DEF Finishes, TypesAt, TurnAt, Answers
    <3>2. told'[t] \in Seq(Said)
      BY <2>5, <2>a, <3>1 DEF Finishes
    <3> QED
      BY <2>0, <2>5, <3>2 DEF Finishes, TypesAt
  <2>6. CASE Pays(t)
    <3>1. reply[t] \in Said
      BY <2>0, <2>6, <2>b DEF Pays, TypesAt, TurnAt, Answers
    <3>2. told'[t] \in Seq(Said)
      BY <2>6, <2>a, <3>1 DEF Pays
    <3> QED
      BY <2>0, <2>6, <3>2 DEF Pays, TypesAt
  <2>7. CASE Clears(t)
    <3>1. deltas'[t] \in 0..MaxDeltas /\ told'[t] \in Seq(Said)
      BY <2>7, <2>a, ChatAssumption DEF Clears
    <3>2. live'[t] \in BOOLEAN /\ door'[t] \in {"http", "ws"} /\ role'[t] \in Roles
      BY <2>7 DEF Clears
    <3> QED
      BY <2>0, <2>7, <3>1, <3>2 DEF Clears, TypesAt
  <2> QED
    BY <1>2, <2>1, <2>2, <2>3, <2>4, <2>5, <2>6, <2>7 DEF Moves
<1>3. \A t \in Turns : TypesAt(t)'
  BY <1>1, <1>2 DEF Turning, Stays, Orderly, TurnTypes, TypesAt
<1>4. Arrays'
  BY ArraysStep DEF Orderly, TurnTypes
<1> QED
  BY <1>1, <1>3, <1>4 DEF Turning, Orderly, TurnTypes

-----------------------------------------------------------------------------
(***************************************************************************)
(* The session store keeps its types and its bounds.                       *)
(***************************************************************************)
\* Storing a list takes none away.
LEMMA ShelfStep ==
  ASSUME StoreTypes, NEW u \in Users, NEW n, NEW s, Stored(u, n, s),
         \/ current' = current \/ current' = [current EXCEPT ![u] = n]
  PROVE  /\ current' \in [Users -> Nat]
         /\ \A v \in Users : current'[v] \in 0..Len(lists'[v]) /\ Len(lists'[v]) >= Len(lists[v])
<1>1. /\ \A v \in Users : Len(lists[v]) \in Nat /\ Len(lists'[v]) \in Nat
      /\ \A v \in Users : Len(lists'[v]) >= Len(lists[v])
      /\ n \in 1..Len(lists'[u])
  <2>1. /\ lists \in [Users -> Seq(Seq(Entries))] /\ lists' \in [Users -> Seq(Seq(Entries))]
        /\ n \in 1..(Len(lists[u]) + 1)
        /\ Len(lists'[u]) = IF n = Len(lists[u]) + 1 THEN n ELSE Len(lists[u])
        /\ \A v \in Users \ {u} : lists'[v] = lists[v]
    BY DEF StoreTypes, Stored
  <2>2. \A v \in Users : Len(lists[v]) \in Nat /\ Len(lists'[v]) \in Nat
    BY <2>1
  <2>3. \A v \in Users \ {u} : Len(lists'[v]) >= Len(lists[v])
    BY <2>1, <2>2
  <2> QED
    BY <2>1, <2>2, <2>3
<1>2. CASE current' = current
  BY <1>1, <1>2 DEF StoreTypes
<1>3. CASE current' = [current EXCEPT ![u] = n]
  BY <1>1, <1>3 DEF StoreTypes
<1> QED
  BY <1>2, <1>3

\* The history of what was said keeps its type.
LEMMA NotedType ==
  ASSUME TurnTypes, StoreTypes, Steady, NEW t \in Turns, pc[t] \in Adding,
         said' = [said EXCEPT ![user[t]] = Append(said[user[t]], Entry(t))]
  PROVE  said' \in [Users -> Seq(Entries)]
<1>1. user[t] \in Users /\ Entry(t) \in Entries
  BY EntryType DEF TurnTypes, TypesAt
<1> QED
  BY <1>1 DEF StoreTypes

\* The store after a step that takes no list away.
Shelved ==
  /\ lists' \in [Users -> Seq(Seq(Entries))] /\ said' \in [Users -> Seq(Entries)]
  /\ current' \in [Users -> Nat]
  /\ \A v \in Users : current'[v] \in 0..Len(lists'[v]) /\ Len(lists'[v]) >= Len(lists[v])

\* A step that leaves the store alone takes none away.
LEMMA ShelfSame ==
  ASSUME StoreTypes, UNCHANGED storeVars
  PROVE  Shelved
<1>1. \A v \in Users : Len(lists[v]) >= Len(lists[v])
  BY DEF StoreTypes
<1> QED
  BY <1>1 DEF StoreTypes, storeVars, Shelved

\* No step of an add takes a list away.
LEMMA ShelfOf ==
  ASSUME Orderly, NEW t \in Turns,
         \/ RedisPush(t) \/ RedisTrim(t) \/ Fetch(t) \/ AppendEntry(t) \/ Slice(t) \/ Rebind(t)
  PROVE  Shelved
<1>0. StoreTypes /\ TurnTypes /\ Steady /\ user[t] \in Users
  BY DEF Orderly, TurnTypes, TypesAt
<1>1. CASE RedisPush(t)
  <2>1. CASE Push(t)
    BY <1>0, <1>1, <2>1, PushEffect, ShelfStep, NotedType DEF RedisPush, Adding, Shelved, Stored
  <2>2. CASE UNCHANGED storeVars
    BY <1>0, <2>2, ShelfSame
  <2> QED
    BY <1>1, <2>1, <2>2 DEF RedisPush
<1>2. CASE RedisTrim(t)
  <2>0. UNCHANGED <<current, said>>
    BY <1>2 DEF RedisTrim
  <2>1. CASE lists' # lists
    <3>1. Stored(user[t], 1, Kept(History(user[t])))
      BY <1>2, <2>1, TrimEffect
    <3> QED
      BY <1>0, <2>0, <3>1, ShelfStep DEF Shelved, Stored, StoreTypes
  <2>2. CASE lists' = lists
    BY <1>0, <2>0, <2>2, ShelfSame DEF storeVars
  <2> QED
    BY <2>1, <2>2
<1>3. CASE Fetch(t)
  <2>1. CASE current[user[t]] = 0
    <3>1. /\ Stored(user[t], Len(lists[user[t]]) + 1, <<>>) /\ said' = said
          /\ current' = [current EXCEPT ![user[t]] = Len(lists[user[t]]) + 1]
      BY <1>0, <1>3, <2>1, FetchEffect DEF StoreTypes
    <3> QED
      BY <1>0, <3>1, ShelfStep DEF Shelved, Stored, StoreTypes
  <2>2. CASE current[user[t]] # 0
    BY <1>0, <1>3, <2>2, FetchEffect, ShelfSame DEF storeVars
  <2> QED
    BY <2>1, <2>2
<1>4. CASE AppendEntry(t)
  <2>1. /\ Stored(user[t], list[t], Append(lists[user[t]][list[t]], Entry(t))) /\ current' = current
        /\ said' = [said EXCEPT ![user[t]] = Append(said[user[t]], Entry(t))]
    BY <1>4, AppendEffect
  <2> QED
    <3>1. said' \in [Users -> Seq(Entries)]
      BY <1>0, <1>4, <2>1, NotedType DEF AppendEntry, Adding
    <3>2. lists' \in [Users -> Seq(Seq(Entries))]
      BY <2>1 DEF Stored
    <3> QED
      BY <1>0, <2>1, <3>1, <3>2, ShelfStep DEF Shelved
<1>5. CASE Slice(t)
  BY <1>0, <1>5, ShelfSame DEF Slice
<1>6. CASE Rebind(t)
  <2>1. PICK n : /\ Stored(user[t], n, cut[t]) /\ said' = said
                 /\ current' = [current EXCEPT ![user[t]] = n]
    BY <1>6, RebindEffect
  <2> QED
    BY <1>0, <2>1, ShelfStep DEF Shelved, Stored, StoreTypes
<1> QED
  BY <1>1, <1>2, <1>3, <1>4, <1>5, <1>6

\* What is sliced is a list of entries.
LEMMA SliceTakes ==
  ASSUME Orderly, NEW t \in Turns, pc[t] = "trim", ~redis
  PROVE  LET entries == lists[user[t]][list[t]] IN
         /\ list[t] \in 1..Len(lists[user[t]]) /\ entries \in Seq(Entries)
         /\ Len(entries) > MaxTurns =>
              Latest(MaxTurns, entries) \in Seq(Entries) /\ Len(Latest(MaxTurns, entries)) = MaxTurns
<1> DEFINE entries == lists[user[t]][list[t]]
<1>1. user[t] \in Users /\ list[t] # 0 /\ list[t] \in Nat
  BY DEF Orderly, TurnTypes, TypesAt, Steady, TurnAt, Adding
<1>2. list[t] \in 1..Len(lists[user[t]])
  BY <1>1 DEF Orderly, Bounds, HeldExist, StoreTypes
<1>3. entries \in Seq(Entries)
  BY <1>1, <1>2 DEF Orderly, StoreTypes
<1>4. ASSUME Len(entries) > MaxTurns
      PROVE  Latest(MaxTurns, entries) \in Seq(Entries) /\ Len(Latest(MaxTurns, entries)) = MaxTurns
  BY <1>3, <1>4, LatestIs, ChatAssumption
<1> QED
  BY <1>2, <1>3, <1>4

\* The store keeps its types.
LEMMA StoreTypesStep ==
  ASSUME Orderly, [Next]_vars
  PROVE  StoreTypes'
<1>0. StoreTypes
  BY DEF Orderly
<1> USE <1>0
<1> USE ChatAssumption DEF GoTo, turnVars, answerVars, addVars, storeVars, Ended, Adding
<1>1. ASSUME NEW t \in Turns, NEW u \in Users, Admit(t, u) PROVE StoreTypes'
  BY <1>1 DEF Admit, StoreTypes
<1>2. ASSUME NEW t \in Turns, ModelAnswers(t) PROVE StoreTypes'
  BY <1>2 DEF ModelAnswers, Answer, StoreTypes
<1>3. ASSUME NEW t \in Turns, Delta(t) PROVE StoreTypes'
  BY <1>3 DEF Delta, StoreTypes
<1>4. ASSUME NEW t \in Turns, StreamEnds(t) PROVE StoreTypes'
  BY <1>4 DEF StreamEnds, Answer, StoreTypes
<1>5. ASSUME NEW t \in Turns, StreamFails(t) PROVE StoreTypes'
  BY <1>5 DEF StreamFails, StoreTypes
<1>6. ASSUME NEW t \in Turns, Abandon(t) PROVE StoreTypes'
  BY <1>6 DEF Abandon, StoreTypes
<1>7. ASSUME NEW t \in Turns, RedisPush(t) PROVE StoreTypes'
  <2>1. Shelved
    BY <1>7, ShelfOf
  <2> QED
    BY <1>7, <2>1 DEF RedisPush, AddUnchanged, Shelved, StoreTypes
<1>8. ASSUME NEW t \in Turns, RedisTrim(t) PROVE StoreTypes'
  <2>1. Shelved
    BY <1>8, ShelfOf
  <2> QED
    BY <1>8, <2>1 DEF RedisTrim, AddUnchanged, Shelved, StoreTypes
<1>9. ASSUME NEW t \in Turns, Fetch(t) PROVE StoreTypes'
  <2>1. Shelved
    BY <1>9, ShelfOf
  <2> QED
    BY <1>9, <2>1 DEF Fetch, AddUnchanged, Shelved, StoreTypes
<1>10. ASSUME NEW t \in Turns, AppendEntry(t) PROVE StoreTypes'
  <2>1. Shelved
    BY <1>10, ShelfOf
  <2> QED
    BY <1>10, <2>1 DEF AppendEntry, AddUnchanged, Shelved, StoreTypes
<1>11. ASSUME NEW t \in Turns, Slice(t) PROVE StoreTypes'
  <2>1. Shelved
    BY <1>11, ShelfOf
  <2>2. cut' \in [Turns -> Seq(Entries)]
    <3>1. CASE Len(lists[user[t]][list[t]]) <= MaxTurns
      BY <1>11, <3>1, ChatAssumption DEF Slice, StoreTypes
    <3>2. CASE Len(lists[user[t]][list[t]]) > MaxTurns
      <4>1. Latest(MaxTurns, lists[user[t]][list[t]]) \in Seq(Entries)
        BY <1>11, <3>2, SliceTakes DEF Slice
      <4> QED
        BY <1>11, <3>2, <4>1 DEF Slice, StoreTypes
    <3> QED
      BY <1>11, <3>1, <3>2 DEF Slice
  <2> QED
    BY <1>11, <2>1, <2>2 DEF Slice, AddUnchanged, Shelved, StoreTypes
<1>12. ASSUME NEW t \in Turns, Rebind(t) PROVE StoreTypes'
  <2>1. Shelved
    BY <1>12, ShelfOf
  <2>2. cut' \in [Turns -> Seq(Entries)]
    BY <1>12 DEF Rebind, StoreTypes
  <2> QED
    BY <1>12, <2>1, <2>2 DEF Rebind, AddUnchanged, Shelved, StoreTypes
<1>13. ASSUME NEW t \in Turns, Job(t) PROVE StoreTypes'
  BY <1>13 DEF Job, StoreTypes
<1>14. ASSUME NEW t \in Turns, Forget(t) PROVE StoreTypes'
  BY <1>14 DEF Forget, StoreTypes
<1>15. ASSUME NEW u \in Users, Clear(u) PROVE StoreTypes'
  <2>0. CASE UNCHANGED <<storeVars, calm>>
    BY <1>15, <2>0 DEF Clear, StoreTypes
  <2>1. ASSUME current' = [current EXCEPT ![u] = 0], said' = [said EXCEPT ![u] = <<>>],
               calm' = [calm EXCEPT ![u] = @ /\ Busy(u) = {}],
               lists' \in {lists, [lists EXCEPT ![u] = <<>>]}
        PROVE  StoreTypes'
    <3>1. calm' \in [Users -> BOOLEAN] /\ current' \in [Users -> Nat]
      BY <2>1 DEF StoreTypes
    <3>2. lists' \in [Users -> Seq(Seq(Entries))] /\ said' \in [Users -> Seq(Entries)]
      <4>1. <<>> \in Seq(Seq(Entries)) /\ <<>> \in Seq(Entries)
        OBVIOUS
      <4>2. said' \in [Users -> Seq(Entries)]
        BY <2>1, <4>1 DEF StoreTypes
      <4>3. CASE lists' = lists
        BY <4>2, <4>3 DEF StoreTypes
      <4>4. CASE lists' = [lists EXCEPT ![u] = <<>>]
        BY <4>1, <4>2, <4>4 DEF StoreTypes
      <4> QED
        BY <2>1, <4>3, <4>4
    <3>3. \A v \in Users : current'[v] \in 0..Len(lists'[v])
      <4>1. current'[u] \in 0..Len(lists'[u])
        BY <2>1, <3>2 DEF StoreTypes
      <4>2. ASSUME NEW v \in Users \ {u} PROVE current'[v] \in 0..Len(lists'[v])
        <5>1. current'[v] = current[v] /\ lists'[v] = lists[v]
          BY <2>1 DEF StoreTypes
        <5> QED
          BY <5>1 DEF StoreTypes
      <4> QED
        BY <4>1, <4>2
    <3>4. UNCHANGED cut
      BY <1>15 DEF Clear
    <3> QED
      BY <3>1, <3>2, <3>3, <3>4 DEF StoreTypes
  <2> QED
    BY <1>15, <2>0, <2>1 DEF Clear
<1>16. CASE UNCHANGED vars
  BY <1>16 DEF vars, StoreTypes
<1> QED
  BY <1>1, <1>2, <1>3, <1>4, <1>5, <1>6, <1>7, <1>8, <1>9, <1>10, <1>11, <1>12, <1>13,
     <1>14, <1>15, <1>16
  DEF Next

\* An add keeps a list there is: a clear in memory takes none away that is held.
LEMMA HeldStep ==
  ASSUME Orderly, [Next]_vars, Steady', StoreTypes'
  PROVE  HeldExist'
<1>0. TurnTypes' /\ Turning /\ TurnTypes /\ Steady /\ HeldExist /\ StoreTypes
  BY TurnTypesStep, TurnsMove DEF Orderly, Bounds
<1>1. \A t \in Turns : list'[t] \in Nat /\ user'[t] \in Users /\ user[t] \in Users
  BY <1>0 DEF TurnTypes, TypesAt
<1>2. redis' = redis
  BY <1>0 DEF Turning
<1>3. CASE redis
  BY <1>1, <1>2, <1>3 DEF HeldExist, Steady, TurnAt, StoreTypes
<1>4. CASE ~redis
  <2>1. ASSUME NEW t \in Turns, Admit(t, user'[t]) \/ UNCHANGED user[t],
               UNCHANGED <<list, lists>> PROVE list'[t] \in 0..Len(lists'[user'[t]])
    <3>1. CASE UNCHANGED user[t]
      BY <1>0, <2>1, <3>1 DEF HeldExist
    <3>2. CASE Admit(t, user'[t])
      <4>1. list[t] = 0
        BY <1>0, <3>2 DEF Admit, Steady, TurnAt, Adding
      <4> QED
        BY <1>0, <1>1, <2>1, <4>1 DEF StoreTypes
    <3> QED
      BY <2>1, <3>1, <3>2
  <2>2. ASSUME UNCHANGED user, UNCHANGED <<list, lists>> PROVE HeldExist'
    BY <1>0, <2>2 DEF HeldExist
  <2>3. ASSUME NEW t \in Turns, Shelved, UNCHANGED user, 
               \A r \in Turns : list'[r] \in {list[r], 0, current'[user[r]]}
        PROVE  HeldExist'
    <3>1. ASSUME NEW r \in Turns PROVE list'[r] \in 0..Len(lists'[user[r]])
      <4>1. /\ list[r] \in 0..Len(lists[user[r]]) /\ Len(lists'[user[r]]) >= Len(lists[user[r]])
            /\ Len(lists[user[r]]) \in Nat /\ Len(lists'[user[r]]) \in Nat
            /\ current'[user[r]] \in 0..Len(lists'[user[r]])
        BY <1>0, <1>1, <2>3 DEF HeldExist, Shelved, StoreTypes
      <4>2. list'[r] \in {list[r], 0, current'[user[r]]}
        BY <2>3
      <4> QED
        BY <4>1, <4>2
    <3> QED
      BY <2>3, <3>1 DEF HeldExist
  <2>4. ASSUME NEW t \in Turns, NEW u \in Users, Admit(t, u) PROVE HeldExist'
    <3>1. UNCHANGED <<list, lists>> /\ \A r \in Turns \ {t} : user'[r] = user[r]
      BY <2>4 DEF Admit, storeVars
    <3>2. user'[t] = u
      BY <1>0, <2>4 DEF Admit, TurnTypes, Arrays
    <3> QED
      BY <2>1, <2>4, <3>1, <3>2 DEF HeldExist
  <2>5. ASSUME NEW t \in Turns, Fetch(t) PROVE HeldExist'
    <3>1. Shelved
      BY <2>5, ShelfOf
    <3>2. \A r \in Turns : list'[r] \in {list[r], 0, current'[user[r]]}
      BY <1>0, <2>5, FetchEffect DEF TurnTypes, Arrays
    <3> QED
      BY <2>3, <2>5, <3>1, <3>2 DEF Fetch, AddUnchanged, turnVars
  <2>6. ASSUME NEW t \in Turns, AppendEntry(t) \/ Slice(t) \/ Rebind(t) PROVE HeldExist'
    <3>1. Shelved
      BY <2>6, ShelfOf
    <3>2. \A r \in Turns : list'[r] \in {list[r], 0, current'[user[r]]}
      BY <1>0, <2>6 DEF AppendEntry, Slice, Rebind, Added, addVars, TurnTypes, Arrays
    <3>3. UNCHANGED user
      BY <2>6 DEF AppendEntry, Slice, Rebind, AddUnchanged, turnVars
    <3> QED
      BY <2>3, <2>6, <3>1, <3>2, <3>3
  <2>7. ASSUME NEW u \in Users, Clear(u) PROVE HeldExist'
    <3>1. UNCHANGED <<list, user>>
      BY <2>7 DEF Clear, addVars, turnVars
    <3>2. CASE lists' = lists
      BY <2>2, <3>1, <3>2
    <3>3. CASE \A t \in Turns : list[t] = 0
      <4>1. ASSUME NEW t \in Turns PROVE list'[t] \in 0..Len(lists'[user'[t]])
        <5>1. list'[t] = 0 /\ user'[t] \in Users
          BY <1>1, <3>1, <3>3
        <5>2. lists'[user'[t]] \in Seq(Seq(Entries))
          BY <1>0, <5>1 DEF StoreTypes
        <5>3. Len(lists'[user'[t]]) \in Nat
          BY <5>2
        <5> QED
          BY <5>1, <5>3
      <4> QED
        BY <4>1 DEF HeldExist
    <3> QED
      BY <1>4, <2>7, <3>2, <3>3 DEF Clear, storeVars
  <2>8. ASSUME NEW t \in Turns,
               \/ ModelAnswers(t) \/ Delta(t) \/ StreamEnds(t) \/ StreamFails(t) \/ Abandon(t)
               \/ Job(t) \/ Forget(t)
        PROVE  HeldExist'
    BY <2>2, <2>8
    DEF ModelAnswers, Delta, StreamEnds, StreamFails, Abandon, Job, Forget, Answer, addVars,
        turnVars, storeVars
  <2>9. CASE UNCHANGED vars
    BY <2>2, <2>9 DEF vars
  <2> QED
    BY <1>4, <2>4, <2>5, <2>6, <2>7, <2>8, <2>9 DEF Next, RedisPush, RedisTrim
<1> QED
  BY <1>3, <1>4

\* The faults and the clears stay bounded.
LEMMA EventsStep ==
  ASSUME Orderly, [Next]_vars
  PROVE  EventsBounded'
<1>0. EventsBounded
  BY DEF Orderly, Bounds
<1> USE <1>0
<1> USE ChatAssumption DEF GoTo, turnVars, answerVars, addVars, storeVars, Ended, Adding
<1>1. ASSUME NEW t \in Turns, NEW u \in Users, Admit(t, u) PROVE EventsBounded'
  BY <1>1 DEF Admit, Start, Remember, Free, EventsBounded
<1>2. ASSUME NEW t \in Turns, ModelAnswers(t) PROVE EventsBounded'
  BY <1>2 DEF ModelAnswers, Answer, EventsBounded
<1>3. ASSUME NEW t \in Turns, Delta(t) PROVE EventsBounded'
  BY <1>3 DEF Delta, EventsBounded
<1>4. ASSUME NEW t \in Turns, StreamEnds(t) PROVE EventsBounded'
  BY <1>4 DEF StreamEnds, Answer, EventsBounded
<1>5. ASSUME NEW t \in Turns, StreamFails(t) PROVE EventsBounded'
  BY <1>5 DEF StreamFails, EventsBounded
<1>6. ASSUME NEW t \in Turns, Abandon(t) PROVE EventsBounded'
  BY <1>6 DEF Abandon, EventsBounded
<1>7. ASSUME NEW t \in Turns, RedisPush(t) PROVE EventsBounded'
  BY <1>7 DEF RedisPush, Push, Noted, Extended, Added, Return, WasStreamed, AddUnchanged, RedisFails, EventsBounded
<1>8. ASSUME NEW t \in Turns, RedisTrim(t) PROVE EventsBounded'
  BY <1>8 DEF RedisTrim, Added, Return, WasStreamed, AddUnchanged, RedisFails, EventsBounded
<1>9. ASSUME NEW t \in Turns, Fetch(t) PROVE EventsBounded'
  BY <1>9 DEF Fetch, AddUnchanged, EventsBounded
<1>10. ASSUME NEW t \in Turns, AppendEntry(t) PROVE EventsBounded'
  BY <1>10 DEF AppendEntry, Noted, Extended, AddUnchanged, EventsBounded
<1>11. ASSUME NEW t \in Turns, Slice(t) PROVE EventsBounded'
  BY <1>11 DEF Slice, Added, Return, WasStreamed, AddUnchanged, RedisFails, EventsBounded
<1>12. ASSUME NEW t \in Turns, Rebind(t) PROVE EventsBounded'
  BY <1>12 DEF Rebind, Added, Return, WasStreamed, AddUnchanged, RedisFails, EventsBounded
<1>13. ASSUME NEW t \in Turns, Job(t) PROVE EventsBounded'
  BY <1>13 DEF Job, EventsBounded
<1>14. ASSUME NEW t \in Turns, Forget(t) PROVE EventsBounded'
  BY <1>14 DEF Forget, EventsBounded
<1>15. ASSUME NEW u \in Users, Clear(u) PROVE EventsBounded'
  BY <1>15 DEF Clear, RedisFails, EventsBounded
<1>16. CASE UNCHANGED vars
  BY <1>16 DEF vars, EventsBounded
<1> QED
  BY <1>1, <1>2, <1>3, <1>4, <1>5, <1>6, <1>7, <1>8, <1>9, <1>10, <1>11, <1>12, <1>13,
     <1>14, <1>15, <1>16
  DEF Next

\* Redis keeps one list for a user.
LEMMA OneListStep ==
  ASSUME Orderly, [Next]_vars
  PROVE  OneListInRedis'
<1>0. OneListInRedis
  BY DEF Orderly, Bounds
<1> USE <1>0
<1> USE ChatAssumption DEF GoTo, turnVars, answerVars, addVars, storeVars, Ended, Adding
<1>1. ASSUME NEW t \in Turns, NEW u \in Users, Admit(t, u) PROVE OneListInRedis'
  BY <1>1 DEF Admit, OneListInRedis
<1>2. ASSUME NEW t \in Turns, ModelAnswers(t) PROVE OneListInRedis'
  BY <1>2 DEF ModelAnswers, Answer, OneListInRedis
<1>3. ASSUME NEW t \in Turns, Delta(t) PROVE OneListInRedis'
  BY <1>3 DEF Delta, OneListInRedis
<1>4. ASSUME NEW t \in Turns, StreamEnds(t) PROVE OneListInRedis'
  BY <1>4 DEF StreamEnds, Answer, OneListInRedis
<1>5. ASSUME NEW t \in Turns, StreamFails(t) PROVE OneListInRedis'
  BY <1>5 DEF StreamFails, OneListInRedis
<1>6. ASSUME NEW t \in Turns, Abandon(t) PROVE OneListInRedis'
  BY <1>6 DEF Abandon, OneListInRedis
<1>7. ASSUME NEW t \in Turns, RedisPush(t) PROVE OneListInRedis'
  <2>1. CASE Push(t)
    <3>1. /\ user[t] \in Users /\ redis /\ redis' = redis /\ pc[t] \in Adding
          /\ Len(lists[user[t]]) = 0 \/ Len(lists[user[t]]) = 1
      BY <1>7 DEF Orderly, TurnTypes, TypesAt, RedisPush, AddUnchanged, OneListInRedis
    <3>2. /\ current' = [current EXCEPT ![user[t]] = 1]
          /\ Stored(user[t], 1, Append(History(user[t]), Entry(t)))
      BY <2>1, <3>1, PushEffect
    <3>3. Len(lists'[user[t]]) = 1 /\ \A v \in Users \ {user[t]} : lists'[v] = lists[v]
      BY <3>1, <3>2 DEF Stored
    <3>4. current'[user[t]] = 1 /\ \A v \in Users \ {user[t]} : current'[v] = current[v]
      BY <3>1, <3>2 DEF Orderly, StoreTypes
    <3> QED
      BY <3>1, <3>3, <3>4 DEF OneListInRedis
  <2>2. CASE UNCHANGED storeVars
    BY <1>7, <2>2 DEF RedisPush, AddUnchanged, OneListInRedis
  <2> QED
    BY <1>7, <2>1, <2>2 DEF RedisPush
<1>8. ASSUME NEW t \in Turns, RedisTrim(t) PROVE OneListInRedis'
  <2>0. UNCHANGED <<redis, current>>
    BY <1>8 DEF RedisTrim, AddUnchanged
  <2>1. CASE lists' # lists
    <3>1. /\ user[t] \in Users /\ current[user[t]] # 0
          /\ Stored(user[t], 1, Kept(History(user[t])))
      BY <1>8, <2>1, TrimEffect DEF Orderly, TurnTypes, TypesAt
    <3>2. Len(lists[user[t]]) = 1 /\ current[user[t]] = 1
      BY <1>8, <3>1 DEF RedisTrim, OneListInRedis, Orderly, StoreTypes
    <3>3. Len(lists'[user[t]]) = 1 /\ \A v \in Users \ {user[t]} : lists'[v] = lists[v]
      BY <3>1, <3>2 DEF Stored
    <3> QED
      BY <2>0, <3>2, <3>3 DEF OneListInRedis
  <2>2. CASE lists' = lists
    BY <2>0, <2>2 DEF OneListInRedis
  <2> QED
    BY <2>1, <2>2
<1>9. ASSUME NEW t \in Turns, Fetch(t) PROVE OneListInRedis'
  BY <1>9 DEF Fetch, Slice, AddUnchanged, OneListInRedis
<1>10. ASSUME NEW t \in Turns, AppendEntry(t) PROVE OneListInRedis'
  BY <1>10 DEF AppendEntry, Rebind, AddUnchanged, OneListInRedis, Orderly, Steady, TurnAt
<1>11. ASSUME NEW t \in Turns, Slice(t) PROVE OneListInRedis'
  BY <1>11 DEF Fetch, Slice, AddUnchanged, OneListInRedis
<1>12. ASSUME NEW t \in Turns, Rebind(t) PROVE OneListInRedis'
  BY <1>12 DEF AppendEntry, Rebind, AddUnchanged, OneListInRedis, Orderly, Steady, TurnAt
<1>13. ASSUME NEW t \in Turns, Job(t) PROVE OneListInRedis'
  BY <1>13 DEF Job, OneListInRedis
<1>14. ASSUME NEW t \in Turns, Forget(t) PROVE OneListInRedis'
  BY <1>14 DEF Forget, OneListInRedis
<1>15. ASSUME NEW u \in Users, Clear(u) PROVE OneListInRedis'
  BY <1>15 DEF Clear, OneListInRedis, Orderly, StoreTypes
<1>16. CASE UNCHANGED vars
  BY <1>16 DEF vars, OneListInRedis
<1> QED
  BY <1>1, <1>2, <1>3, <1>4, <1>5, <1>6, <1>7, <1>8, <1>9, <1>10, <1>11, <1>12, <1>13,
     <1>14, <1>15, <1>16
  DEF Next

-----------------------------------------------------------------------------
(***************************************************************************)
(* The first invariant is inductive, and implies the type invariant.       *)
(***************************************************************************)
\* Every state before the first turn is orderly.
LEMMA OrderlyInit == Init => Orderly
<1> SUFFICES ASSUME Init PROVE Orderly
  OBVIOUS
<1> USE ChatAssumption DEF Init, Ended, Adding, Roles
<1>1. Arrays
  BY DEF Arrays
<1>2. \A t \in Turns : TypesAt(t)
  BY DEF TypesAt
<1>3. StoreTypes
  BY DEF StoreTypes
<1>4. Steady /\ OneSocket
  BY DEF Steady, TurnAt, OneSocket
<1>5. Bounds
  BY DEF Bounds, HeldExist, EventsBounded, OneListInRedis
<1> QED
  BY <1>1, <1>2, <1>3, <1>4, <1>5 DEF Orderly, TurnTypes

\* Every step keeps a state orderly.
LEMMA OrderlyStep == Orderly /\ [Next]_vars => Orderly'
<1> SUFFICES ASSUME Orderly, [Next]_vars PROVE Orderly'
  OBVIOUS
<1>1. Turning /\ TurnTypes'
  BY TurnsMove, TurnTypesStep DEF Orderly
<1>2. Steady' /\ OneSocket'
  BY <1>1, SteadyStep, SocketStep DEF Orderly
<1>3. StoreTypes'
  BY StoreTypesStep
<1>4. Bounds'
  BY <1>2, <1>3, HeldStep, EventsStep, OneListStep DEF Bounds
<1> QED
  BY <1>1, <1>2, <1>3, <1>4 DEF Orderly

\* A set whose members are equal has at most one.
LEMMA AtMostOne ==
  ASSUME NEW S, \A x, y \in S : x = y
  PROVE  Cardinality(S) <= 1
<1>1. CASE S = {}
  BY <1>1, FS_EmptySet
<1>2. CASE S # {}
  <2>1. PICK x \in S : TRUE
    BY <1>2
  <2>2. S = {x}
    BY <2>1
  <2> QED
    BY <2>2, FS_Singleton
<1> QED
  BY <1>1, <1>2

\* An orderly state has the types that TLC checks.
LEMMA OrderlyTypes == Orderly => TypeOK
<1> SUFFICES ASSUME Orderly PROVE TypeOK
  OBVIOUS
<1>1. Cardinality({t \in Turns : door[t] = "ws" /\ pc[t] \notin Ended}) <= 1
  BY AtMostOne DEF Orderly, OneSocket
<1>2. /\ pc \in [Turns -> {"streaming", "llm", "job"} \cup Ended \cup Adding]
      /\ door \in [Turns -> {"http", "ws"}] /\ user \in [Turns -> Users]
      /\ live \in [Turns -> BOOLEAN] /\ deltas \in [Turns -> 0..MaxDeltas]
      /\ told \in [Turns -> Seq(Said)]
  BY DEF Orderly, TurnTypes, Arrays, TypesAt
<1>3. /\ reply \in [Turns -> Replies \cup {"none"}]
      /\ role \in [Turns -> Roles] /\ list \in [Turns -> Nat]
      /\ tokens \in [Turns -> Nat] /\ jobs \in [Turns -> Nat]
  BY DEF Orderly, TurnTypes, Arrays, TypesAt
<1> QED
  BY <1>1, <1>2, <1>3
  DEF Orderly, TurnTypes, StoreTypes, Bounds, HeldExist, EventsBounded, Said, TypeOK

-----------------------------------------------------------------------------
(***************************************************************************)
(* A turn takes one token, is told one answer and enqueues one job at      *)
(* most.                                                                   *)
(***************************************************************************)
\* What a turn does once, with what it rests on.
Once == Orderly /\ Telling /\ JobBehindAnswer

\* Once is an inductive invariant.
LEMMA OnceInductive ==
  /\ Init => Once
  /\ Once /\ [Next]_vars => Once'
  /\ Once => OncePerTurn
<1>1. Init => Once
  BY OrderlyInit DEF Init, Once, Telling, ToldAt, Adding, JobBehindAnswer
<1>2. Once /\ [Next]_vars => Once'
  <2> SUFFICES ASSUME Once, [Next]_vars PROVE Once'
    OBVIOUS
  <2>1. Turning
    BY TurnsMove DEF Once, Orderly
  <2> QED
    BY <2>1, OrderlyStep, TellingStep, JobStep DEF Once, Orderly
<1>3. Once => OncePerTurn
  BY OrderlyTypes DEF Once, Orderly, Steady, TurnAt, OncePerTurn, OneToken
<1> QED
  BY <1>1, <1>2, <1>3

\* Whatever its door, its provider, its fallbacks and the faults: a turn takes one
\* token from the rate limiter, the WebSocket handler runs one at a time, and a job
\* is enqueued at most once and behind the answer (chat_turn,
\* _stream_chat_via_pipeline).
THEOREM TurnsHappenOnce == Spec => []OncePerTurn
<1> QED
  BY OnceInductive, PTL DEF Spec

-----------------------------------------------------------------------------
(***************************************************************************)
(* What one step does to the histories: it records an entry of one turn,   *)
(* wipes a history, or leaves them all alone.                              *)
(***************************************************************************)
\* The history of v, and what was said to it, are as they were.
HistorySame(v) == History(v)' = History(v) /\ said'[v] = said[v]

\* The entry of t is added to the history of u.
Adds(t, u) ==
  /\ History(u)' = Append(History(u), Entry(t))
  /\ said'[u] = Append(said[u], Entry(t))

\* What a step of an add leaves alone: the other turns and the other users.
Acts(t, u) ==
  /\ pc[t] \in Adding /\ user[t] = u
  /\ UNCHANGED <<redis, user, calm, clears>>
  /\ \A r \in Turns \ {t} : Stays(r) /\ cut'[r] = cut[r]
  /\ \A v \in Users \ {u} : HistorySame(v) /\ current'[v] = current[v]

\* RPUSH was done, with or without an error.
Pushes(t, u) ==
  /\ redis /\ pc[t] = "fetch" /\ Adds(t, u)
  /\ \/ pc'[t] = "trim" /\ UNCHANGED <<role[t], faults>>
     \/ faults' = faults + 1 /\ pc'[t] \notin {"trim", "rebind"}

\* RPUSH failed.
Misses(t, u) ==
  /\ redis /\ pc[t] = "fetch" /\ HistorySame(u)
  /\ faults' = faults + 1 /\ pc'[t] \notin {"trim", "rebind"}

\* LTRIM, or its failure.
Trims(t, u) ==
  /\ redis /\ pc[t] = "trim" /\ Finishes(t)
  /\ said'[u] = said[u]
  /\ \/ History(u)' = Kept(History(u)) /\ UNCHANGED faults
     \/ History(u)' = History(u) /\ faults' = faults + 1

\* In memory: the list is fetched,
Fetches(t, u) ==
  /\ ~redis /\ pc[t] = "fetch" /\ pc'[t] = "append" /\ HistorySame(u)
  /\ list'[t] = current'[u]
  /\ current'[u] = current[u] \/ History(u) = <<>>
  /\ UNCHANGED <<role[t], faults>>

\* the entry appended, to the history or to a list that was replaced since,
Appends(t, u) ==
  /\ ~redis /\ pc[t] = "append" /\ pc'[t] = "trim"
  /\ IF list[t] = current[u] THEN Adds(t, u) ELSE History(u)' = History(u)
  /\ said'[u] = Append(said[u], Entry(t))
  /\ UNCHANGED <<list[t], role[t], current, faults>>

\* the list found short enough or sliced,
Slices(t, u) ==
  /\ ~redis /\ pc[t] = "trim"
  /\ \/ /\ Len(lists[u][list[t]]) <= MaxTurns /\ Finishes(t)
     \/ /\ Len(lists[u][list[t]]) > MaxTurns
        /\ pc'[t] = "rebind" /\ UNCHANGED <<list[t], role[t]>>
        /\ cut'[t] = Latest(MaxTurns, lists[u][list[t]])
  /\ UNCHANGED <<storeVars, faults>> /\ HistorySame(u)

\* and the slice bound.
Rebinds(t, u) ==
  /\ ~redis /\ pc[t] = "rebind" /\ Finishes(t)
  /\ History(u)' = cut[t] /\ said'[u] = said[u]
  /\ UNCHANGED faults

\* A step of an add.
Records(t, u) ==
  /\ Acts(t, u)
  /\ \/ Pushes(t, u) \/ Misses(t, u) \/ Trims(t, u)
     \/ Fetches(t, u) \/ Appends(t, u) \/ Slices(t, u) \/ Rebinds(t, u)

\* A history cleared, or a clear that failed.
Wipes(u) ==
  /\ UNCHANGED <<redis, cut>> /\ \A r \in Turns : Stays(r)
  /\ \A v \in Users \ {u} : HistorySame(v) /\ current'[v] = current[v] /\ calm'[v] = calm[v]
  /\ \/ /\ History(u)' = <<>> /\ said'[u] = <<>> /\ UNCHANGED faults
        /\ clears' = clears + 1
        /\ calm'[u] => calm[u] /\ Busy(u) = {}
     \/ /\ HistorySame(u) /\ current'[u] = current[u] /\ UNCHANGED <<calm, clears>>
        /\ faults' = faults + 1

\* Any other step. A turn may come to its first add, none is inside one.
Waits ==
  /\ UNCHANGED <<redis, storeVars, cut, list, faults, clears>>
  /\ \A u \in Users : HistorySame(u) /\ (calm'[u] => calm[u])
  /\ \A r \in Turns :
       /\ pc[r] \in Adding => Stays(r)
       /\ pc[r] \notin Adding => pc'[r] \notin Adding \/ (pc'[r] = "fetch" /\ role'[r] = "user")
       /\ pc[r] # "new" => user'[r] = user[r]

\* A list stored as the current one is the history;
LEMMA StoredIs ==
  ASSUME StoreTypes, NEW u \in Users, NEW n, NEW s, Stored(u, n, s), current'[u] = n
  PROVE  History(u)' = s
<1>1. n # 0 /\ lists'[u][n] = s
  BY DEF StoreTypes, Stored
<1> QED
  BY <1>1 DEF History

\* one stored elsewhere is not;
LEMMA StoredApart ==
  ASSUME StoreTypes, NEW u \in Users, NEW n, NEW s, Stored(u, n, s),
         current'[u] = current[u], current[u] # n
  PROVE  History(u)' = History(u)
<1>1. CASE current[u] = 0
  BY <1>1 DEF History
<1>2. CASE current[u] # 0
  <2>1. current[u] \in 1..Len(lists[u])
    BY <1>2 DEF StoreTypes
  <2>2. lists'[u][current[u]] = lists[u][current[u]]
    BY <2>1 DEF Stored
  <2> QED
    BY <1>2, <2>2 DEF History
<1> QED
  BY <1>1, <1>2

\* nor is one stored for another user.
LEMMA StoredElsewhere ==
  ASSUME StoreTypes, NEW u \in Users, NEW n, NEW s, Stored(u, n, s), NEW v \in Users \ {u},
         current'[v] = current[v]
  PROVE  History(v)' = History(v)
BY DEF Stored, History

\* When the store is unchanged, so are the histories.
LEMMA SameHistory ==
  ASSUME UNCHANGED storeVars
  PROVE  \A v \in Users : HistorySame(v)
BY DEF storeVars, HistorySame, History

\* Every step records, wipes or waits.
LEMMA Recording ==
  ASSUME Orderly, [Next]_vars
  PROVE  (\E t \in Turns, u \in Users : Records(t, u)) \/ (\E u \in Users : Wipes(u)) \/ Waits
<1> DEFINE Goal == (\E t \in Turns, u \in Users : Records(t, u)) \/ (\E u \in Users : Wipes(u)) \/ Waits
<1>0. /\ TurnTypes /\ Arrays /\ StoreTypes /\ Steady
      /\ \A t \in Turns : user[t] \in Users /\ role[t] \in Roles
  BY DEF Orderly, TurnTypes, TypesAt
<1>a. ASSUME NEW t \in Turns, NEW u \in Users, u = user[t], pc[t] \in Adding, AddUnchanged, UNCHANGED cut,
             \A r \in Turns \ {t} : Stays(r),
             \A v \in Users \ {u} : HistorySame(v) /\ current'[v] = current[v]
      PROVE  Acts(t, u)
  BY <1>a DEF Acts, AddUnchanged, turnVars
<1>1. ASSUME NEW t \in Turns, RedisPush(t) PROVE Goal
  <2>u. PICK u \in Users : u = user[t]
    BY <1>0
  <2>1. redis /\ pc[t] = "fetch" /\ pc[t] \in Adding /\ AddUnchanged /\ UNCHANGED cut
    BY <1>1 DEF RedisPush, Adding
  <2>2. CASE Push(t)
    <3>1. /\ Stored(u, 1, Append(History(u), Entry(t)))
          /\ current' = [current EXCEPT ![u] = 1]
          /\ said' = [said EXCEPT ![u] = Append(said[u], Entry(t))]
      BY <2>1, <2>2, <2>u, PushEffect
    <3>2. /\ current'[u] = 1 /\ said'[u] = Append(said[u], Entry(t))
          /\ \A v \in Users \ {u} : current'[v] = current[v] /\ said'[v] = said[v]
      BY <1>0, <3>1 DEF StoreTypes
    <3>3. Adds(t, u) /\ \A v \in Users \ {u} : HistorySame(v) /\ current'[v] = current[v]
      BY <1>0, <3>1, <3>2, StoredIs, StoredElsewhere DEF Adds, HistorySame
    <3>4. CASE GoTo(t, "trim") /\ UNCHANGED <<role, list, told, faults>>
      <4>1. \A r \in Turns \ {t} : Stays(r)
        BY <1>0, <2>1, <3>4 DEF Stays, AddUnchanged, turnVars, Arrays, GoTo
      <4>2. pc'[t] = "trim"
        BY <1>0, <3>4 DEF Arrays, GoTo
      <4>3. Pushes(t, u)
        BY <2>1, <3>3, <3>4, <4>2 DEF Pushes
      <4> QED
        BY <1>a, <2>u, <2>1, <3>3, <4>1, <4>3 DEF Records
    <3>5. CASE RedisFails /\ Added(t)
      <4>1. Finishes(t) /\ \A r \in Turns \ {t} : Stays(r)
        BY <1>0, <2>1, <3>5, AddedFinishes
      <4>2. Pushes(t, u)
        BY <2>1, <3>3, <3>5, <4>1 DEF Pushes, RedisFails, Finishes
      <4> QED
        BY <1>a, <2>u, <2>1, <3>3, <4>1, <4>2 DEF Records
    <3> QED
      BY <1>1, <3>4, <3>5 DEF RedisPush
  <2>3. CASE UNCHANGED storeVars /\ RedisFails /\ Added(t)
    <3>1. Finishes(t) /\ \A r \in Turns \ {t} : Stays(r)
      BY <1>0, <2>1, <2>3, AddedFinishes
    <3>2. \A v \in Users : HistorySame(v) /\ current'[v] = current[v]
      BY <2>3, SameHistory DEF storeVars
    <3>3. Misses(t, u)
      BY <1>0, <2>1, <2>3, <3>1, <3>2 DEF Misses, RedisFails, Finishes
    <3> QED
      BY <1>a, <2>u, <2>1, <3>1, <3>2, <3>3 DEF Records
  <2> QED
    BY <1>1, <2>2, <2>3 DEF RedisPush
<1>2. ASSUME NEW t \in Turns, RedisTrim(t) PROVE Goal
  <2>u. PICK u \in Users : u = user[t]
    BY <1>0
  <2>1. /\ redis /\ pc[t] = "trim" /\ pc[t] \in Adding /\ AddUnchanged /\ UNCHANGED <<cut, current, said>>
        /\ Added(t)
    BY <1>2 DEF RedisTrim, Adding
  <2>2. Finishes(t) /\ \A r \in Turns \ {t} : Stays(r)
    BY <1>0, <2>1, AddedFinishes
  <2>3. CASE lists' # lists \/ (current[u] # 0 /\ faults' = faults)
    <3>1. current[u] # 0 /\ Stored(u, 1, Kept(History(u)))
      BY <1>2, <2>3, <2>u, TrimEffect
    <3>2. current[u] = 1
      BY <1>0, <2>1, <3>1 DEF Orderly, Bounds, OneListInRedis, StoreTypes
    <3>3. /\ History(u)' = Kept(History(u))
          /\ \A v \in Users \ {u} : History(v)' = History(v)
      BY <1>0, <2>1, <3>1, <3>2, StoredIs, StoredElsewhere
    <3>4. UNCHANGED faults
      BY <1>2, <2>3 DEF RedisTrim
    <3> QED
      BY <1>a, <2>u, <2>1, <2>2, <3>3, <3>4 DEF Records, Trims, HistorySame
  <2>4. CASE lists' = lists /\ (current[u] = 0 \/ faults' # faults)
    <3>1. \A v \in Users : HistorySame(v) /\ current'[v] = current[v]
      BY <2>1, <2>4, SameHistory DEF storeVars
    <3>2. History(u) = Kept(History(u)) \/ faults' = faults + 1
      <4>1. CASE current[u] = 0
        <5>1. History(u) = <<>>
          BY <4>1 DEF History
        <5> QED
          BY <5>1, ChatAssumption DEF Kept, Latest
      <4> QED
        BY <1>2, <2>4, <4>1 DEF RedisTrim, RedisFails
    <3>3. UNCHANGED faults \/ faults' = faults + 1
      BY <1>2 DEF RedisTrim, RedisFails
    <3>4. Trims(t, u)
      <4>1. said'[u] = said[u] /\ History(u)' = History(u)
        BY <1>0, <3>1 DEF HistorySame
      <4> QED
        BY <2>1, <2>2, <3>2, <3>3, <4>1 DEF Trims
    <3> QED
      BY <1>a, <2>u, <2>1, <2>2, <3>1, <3>4 DEF Records
  <2> QED
    BY <2>3, <2>4
<1>3. ASSUME NEW t \in Turns, Fetch(t) PROVE Goal
  <2>u. PICK u \in Users : u = user[t]
    BY <1>0
  <2>1. /\ ~redis /\ pc[t] = "fetch" /\ pc[t] \in Adding /\ AddUnchanged
        /\ UNCHANGED <<cut, said, role, faults, told>> /\ GoTo(t, "append")
    BY <1>3 DEF Fetch, Adding
  <2>2. /\ current[u] # 0 => UNCHANGED <<lists, current>>
        /\ current[u] = 0 => Stored(u, Len(lists[u]) + 1, <<>>)
        /\ current' = [current EXCEPT ![u] = IF @ = 0 THEN Len(lists[u]) + 1 ELSE @]
        /\ list' = [list EXCEPT ![t] = current'[u]]
    BY <1>0, <1>3, <2>u, FetchEffect
  <2>3. pc'[t] = "append" /\ list'[t] = current'[u] /\ \A r \in Turns \ {t} : Stays(r)
    BY <1>0, <2>1, <2>2 DEF Stays, AddUnchanged, turnVars, Arrays, GoTo
  <2>4. \A v \in Users \ {u} : current'[v] = current[v]
    BY <1>0, <2>2 DEF StoreTypes
  <2>5. /\ current'[u] = current[u] \/ History(u) = <<>>
        /\ \A v \in Users : HistorySame(v)
    <3>1. CASE current[u] = 0
      <4>1. History(u) = <<>> /\ current'[u] = Len(lists[u]) + 1
        BY <1>0, <2>2, <3>1 DEF History, StoreTypes
      <4> QED
        BY <1>0, <2>1, <2>2, <2>4, <3>1, <4>1, StoredIs, StoredElsewhere DEF HistorySame
    <3>2. CASE current[u] # 0
      BY <2>1, <2>2, <3>2, SameHistory DEF storeVars
    <3> QED
      BY <3>1, <3>2
  <2>6. Fetches(t, u)
    BY <1>0, <2>1, <2>3, <2>5 DEF Fetches
  <2> QED
    BY <1>a, <2>u, <2>1, <2>3, <2>4, <2>5, <2>6 DEF Records
<1>4. ASSUME NEW t \in Turns, AppendEntry(t) PROVE Goal
  <2>u. PICK u \in Users : u = user[t]
    BY <1>0
  <2>1. /\ pc[t] = "append" /\ pc[t] \in Adding /\ AddUnchanged
        /\ UNCHANGED <<cut, role, list, current, faults, told>> /\ GoTo(t, "trim")
    BY <1>4 DEF AppendEntry, Adding, addVars
  <2>2. ~redis
    BY <1>0, <2>1 DEF Steady, TurnAt
  <2>3. pc'[t] = "trim" /\ \A r \in Turns \ {t} : Stays(r)
    BY <1>0, <2>1 DEF Stays, AddUnchanged, turnVars, Arrays, GoTo
  <2>4. /\ list[t] \in 1..Len(lists[u])
        /\ Stored(u, list[t], Append(lists[u][list[t]], Entry(t)))
        /\ said' = [said EXCEPT ![u] = Append(said[u], Entry(t))]
    BY <1>4, <2>u, AppendEffect
  <2>5. /\ said'[u] = Append(said[u], Entry(t))
        /\ \A v \in Users \ {u} : said'[v] = said[v]
    BY <1>0, <2>4 DEF StoreTypes
  <2>6. \A v \in Users \ {u} : HistorySame(v) /\ current'[v] = current[v]
    BY <1>0, <2>1, <2>4, <2>5, StoredElsewhere DEF HistorySame
  <2>7. IF list[t] = current[u] THEN Adds(t, u) ELSE History(u)' = History(u)
    <3>1. CASE list[t] = current[u]
      <4>1. History(u) = lists[u][list[t]]
        BY <2>4, <3>1 DEF History
      <4> QED
        BY <1>0, <2>1, <2>4, <2>5, <3>1, <4>1, StoredIs DEF Adds
    <3>2. CASE list[t] # current[u]
      BY <1>0, <2>1, <2>4, <3>2, StoredApart
    <3> QED
      BY <3>1, <3>2
  <2>8. Appends(t, u)
    BY <2>1, <2>2, <2>3, <2>5, <2>7 DEF Appends
  <2> QED
    BY <1>a, <2>u, <2>1, <2>3, <2>6, <2>8 DEF Records
<1>5. ASSUME NEW t \in Turns, Slice(t) PROVE Goal
  <2>u. PICK u \in Users : u = user[t]
    BY <1>0
  <2>1. /\ ~redis /\ pc[t] = "trim" /\ pc[t] \in Adding /\ AddUnchanged
        /\ UNCHANGED <<storeVars, faults>>
    BY <1>5 DEF Slice, Adding
  <2>2. \A v \in Users : HistorySame(v) /\ current'[v] = current[v]
    BY <2>1, SameHistory DEF storeVars
  <2>3. CASE Len(lists[u][list[t]]) <= MaxTurns /\ Added(t) /\ UNCHANGED cut
    <3>1. Finishes(t) /\ \A r \in Turns \ {t} : Stays(r)
      BY <1>0, <2>1, <2>3, AddedFinishes
    <3>2. Slices(t, u)
      BY <1>0, <2>1, <2>2, <2>3, <3>1 DEF Slices
    <3> QED
      BY <1>a, <2>u, <2>1, <2>2, <2>3, <3>1, <3>2 DEF Records
  <2>4. CASE /\ Len(lists[u][list[t]]) > MaxTurns
             /\ cut' = [cut EXCEPT ![t] = Latest(MaxTurns, lists[u][list[t]])]
             /\ GoTo(t, "rebind") /\ UNCHANGED <<told, role, list>>
    <3>1. /\ pc'[t] = "rebind" /\ \A r \in Turns \ {t} : Stays(r) /\ cut'[r] = cut[r]
          /\ cut'[t] = Latest(MaxTurns, lists[u][list[t]])
      BY <1>0, <2>1, <2>4 DEF Stays, AddUnchanged, turnVars, Arrays, GoTo, StoreTypes
    <3>2. Slices(t, u)
      BY <1>0, <2>1, <2>2, <2>4, <3>1 DEF Slices
    <3> QED
      BY <2>u, <2>1, <2>2, <3>1, <3>2 DEF Records, Acts, AddUnchanged, turnVars
  <2> QED
    BY <1>5, <2>u, <2>3, <2>4 DEF Slice
<1>6. ASSUME NEW t \in Turns, Rebind(t) PROVE Goal
  <2>u. PICK u \in Users : u = user[t]
    BY <1>0
  <2>1. /\ pc[t] = "rebind" /\ pc[t] \in Adding /\ AddUnchanged /\ Added(t)
        /\ UNCHANGED <<said, faults>> /\ cut' = [cut EXCEPT ![t] = <<>>]
    BY <1>6 DEF Rebind, Adding
  <2>2. ~redis
    BY <1>0, <2>1 DEF Steady, TurnAt
  <2>3. Finishes(t) /\ \A r \in Turns \ {t} : Stays(r) /\ cut'[r] = cut[r]
    BY <1>0, <2>1, AddedFinishes DEF StoreTypes
  <2>4. PICK n : /\ Stored(u, n, cut[t]) /\ current' = [current EXCEPT ![u] = n]
    BY <1>6, <2>u, RebindEffect
  <2>5. current'[u] = n /\ \A v \in Users \ {u} : current'[v] = current[v]
    BY <1>0, <2>4 DEF StoreTypes
  <2>6. /\ History(u)' = cut[t]
        /\ \A v \in Users \ {u} : HistorySame(v) /\ current'[v] = current[v]
    BY <1>0, <2>1, <2>4, <2>5, StoredIs, StoredElsewhere DEF HistorySame
  <2>7. Rebinds(t, u)
    BY <2>1, <2>2, <2>3, <2>6 DEF Rebinds
  <2> QED
    BY <2>u, <2>1, <2>3, <2>6, <2>7 DEF Records, Acts, AddUnchanged, turnVars
<1>7. ASSUME NEW u \in Users, Clear(u) PROVE Goal
  <2>1. UNCHANGED <<redis, cut>> /\ \A r \in Turns : Stays(r)
    BY <1>7 DEF Clear, Stays, turnVars, answerVars, addVars
  <2>2. CASE RedisFails /\ UNCHANGED <<storeVars, calm, clears>>
    <3>1. \A v \in Users : HistorySame(v) /\ current'[v] = current[v] /\ calm'[v] = calm[v]
      BY <2>2, SameHistory DEF storeVars
    <3>2. Wipes(u)
      BY <2>1, <2>2, <3>1 DEF Wipes, RedisFails
    <3> QED
      BY <3>2
  <2>3. CASE /\ current' = [current EXCEPT ![u] = 0] /\ said' = [said EXCEPT ![u] = <<>>]
             /\ calm' = [calm EXCEPT ![u] = @ /\ Busy(u) = {}] /\ UNCHANGED faults
             /\ lists' \in {lists, [lists EXCEPT ![u] = <<>>]} /\ clears' = clears + 1
    <3>1. /\ current'[u] = 0 /\ said'[u] = <<>> /\ (calm'[u] => calm[u] /\ Busy(u) = {})
          /\ \A v \in Users \ {u} : /\ current'[v] = current[v] /\ said'[v] = said[v]
                                    /\ calm'[v] = calm[v]
      BY <1>0, <2>3 DEF StoreTypes
    <3>2. \A v \in Users \ {u} : lists'[v] = lists[v]
      BY <1>0, <2>3 DEF StoreTypes
    <3>3. History(u)' = <<>> /\ \A v \in Users \ {u} : HistorySame(v)
      BY <3>1, <3>2 DEF HistorySame, History
    <3>4. Wipes(u)
      BY <2>1, <2>3, <3>1, <3>3 DEF Wipes
    <3> QED
      BY <3>4
  <2> QED
    BY <1>7, <2>2, <2>3 DEF Clear
<1>b. ASSUME UNCHANGED <<storeVars, cut, list, faults, clears>>,
             \A r \in Turns : pc[r] \in Adding => Stays(r),
             \A r \in Turns : pc[r] \notin Adding =>
               pc'[r] \notin Adding \/ (pc'[r] = "fetch" /\ role'[r] = "user"),
             \A r \in Turns : pc[r] # "new" => user'[r] = user[r]
      PROVE  Goal
  <2>1. UNCHANGED redis /\ \A u \in Users : calm'[u] => calm[u]
    BY TurnsMove DEF Turning, Orderly
  <2> QED
    BY <1>b, <2>1, SameHistory DEF Waits
<1>8. ASSUME NEW t \in Turns,
             \/ \E u \in Users : Admit(t, u)
             \/ ModelAnswers(t) \/ Delta(t) \/ StreamEnds(t) \/ StreamFails(t) \/ Abandon(t)
             \/ Job(t) \/ Forget(t)
      PROVE  Goal
  <2> USE <1>0 DEF GoTo, Adding, addVars, turnVars, answerVars, Arrays, Stays
  <2>1. UNCHANGED <<storeVars, cut, list, faults, clears>>
    BY <1>8
    DEF Admit, ModelAnswers, Delta, StreamEnds, StreamFails, Abandon, Job, Forget, Answer
  <2>2. pc[t] \notin Adding
    BY <1>8
    DEF Admit, ModelAnswers, Delta, StreamEnds, StreamFails, Abandon, Job, Forget
  <2>3. \A r \in Turns \ {t} : Stays(r)
    <3>1. CASE \E u \in Users : Admit(t, u)
      BY <3>1, AdmitApart DEF Stays
    <3>2. CASE ModelAnswers(t) \/ StreamEnds(t)
      BY <3>2 DEF ModelAnswers, StreamEnds, Shown, Answer, Remember
    <3>3. CASE StreamFails(t)
      BY <3>3 DEF StreamFails, Shown, Start, Remember
    <3>4. CASE Delta(t) \/ Abandon(t)
      BY <3>4 DEF Delta, Abandon
    <3>5. CASE Job(t) \/ Forget(t)
      BY <3>5 DEF Job, Forget
    <3> QED
      BY <1>8, <3>1, <3>2, <3>3, <3>4, <3>5
  <2>4. pc'[t] \notin Adding \/ (pc'[t] = "fetch" /\ role'[t] = "user")
    <3>1. CASE \E u \in Users : Admit(t, u)
      BY <3>1 DEF Admit, Start, Remember
    <3>2. CASE ModelAnswers(t) \/ StreamEnds(t)
      BY <3>2 DEF ModelAnswers, StreamEnds, Shown, Answer, Remember
    <3>3. CASE StreamFails(t)
      BY <3>3 DEF StreamFails, Shown, Start, Remember
    <3>4. CASE Delta(t) \/ Abandon(t)
      BY <3>4 DEF Delta, Abandon
    <3>5. CASE Job(t) \/ Forget(t)
      BY <3>5 DEF Job, Forget
    <3> QED
      BY <1>8, <3>1, <3>2, <3>3, <3>4, <3>5
  <2>5. pc[t] # "new" => user'[t] = user[t]
    BY <1>8
    DEF Admit, ModelAnswers, Delta, StreamEnds, StreamFails, Abandon, Job, Forget, Answer
  <2> QED
    BY <1>b, <2>1, <2>2, <2>3, <2>4, <2>5
<1>9. CASE UNCHANGED vars
  <2>1. UNCHANGED <<storeVars, cut, list, faults, clears>> /\ \A r \in Turns : Stays(r)
    BY <1>9 DEF vars, storeVars, Stays
  <2> QED
    BY <1>b, <2>1 DEF Stays
<1> QED
  BY <1>1, <1>2, <1>3, <1>4, <1>5, <1>6, <1>7, <1>8, <1>9 DEF Next

-----------------------------------------------------------------------------
(***************************************************************************)
(* What is remembered, in every list and in every slice of one, is fit: no *)
(* text that failed the check, and the answer that its turn still knows.   *)
(***************************************************************************)
\* An entry is of a turn that came to its add, and has the answer of that turn.
Fit(e) ==
  /\ e.answer \notin {"unsafe", "refusal"}
  /\ pc[e.turn] \in Adding \cup {"job", "done", "over"}
  /\ pc[e.turn] # "over" => e.answer = reply[e.turn]

\* Every entry of s is fit.
Safe(s) == \A j \in 1..Len(s) : Fit(s[j])

\* Every list of the store and every slice is safe.
EntriesSafe ==
  /\ \A u \in Users : \A i \in 1..Len(lists[u]) : Safe(lists[u][i])
  /\ \A t \in Turns : Safe(cut[t])

\* The same of the lists and slices after a step, with the turns as they were.
EntriesKept ==
  /\ \A u \in Users : \A i \in 1..Len(lists'[u]) : Safe(lists'[u][i])
  /\ \A t \in Turns : Safe(cut'[t])

\* A safe entry can be added,
LEMMA SafeAppend ==
  ASSUME NEW s \in Seq(Entries), Safe(s), NEW e \in Entries, Fit(e)
  PROVE  Safe(Append(s, e))
BY DEF Safe

\* and the end of a safe list taken;
LEMMA SafeLatest ==
  ASSUME NEW s \in Seq(Entries), Safe(s), NEW n \in 0..Len(s)
  PROVE  Safe(Latest(n, s))
<1>1. /\ Len(Latest(n, s)) = n /\ Len(s) \in Nat
      /\ \A i \in 1..n : Latest(n, s)[i] = s[Len(s) - n + i]
  BY LatestIs
<1>2. \A i \in 1..n : Len(s) - n + i \in 1..Len(s)
  BY <1>1
<1> QED
  BY <1>1, <1>2 DEF Safe

\* storing a safe list keeps all of them safe.
LEMMA SafeStored ==
  ASSUME StoreTypes, EntriesSafe, NEW u \in Users, NEW n, NEW s, Stored(u, n, s), Safe(s)
  PROVE  \A v \in Users : \A i \in 1..Len(lists'[v]) : Safe(lists'[v][i])
<1>1. ASSUME NEW i \in 1..Len(lists'[u]) PROVE Safe(lists'[u][i])
  <2>1. i = n \/ i \in 1..Len(lists[u])
    BY DEF StoreTypes, Stored
  <2> QED
    BY <2>1 DEF Stored, EntriesSafe
<1>2. \A v \in Users \ {u} : \A i \in 1..Len(lists'[v]) : Safe(lists'[v][i])
  BY DEF Stored, EntriesSafe
<1> QED
  BY <1>1, <1>2

\* A history is one of the lists.
LEMMA SafeHistoryOf ==
  ASSUME StoreTypes, EntriesSafe, NEW u \in Users
  PROVE  Safe(History(u))
<1>1. CASE current[u] = 0
  BY <1>1 DEF History, Safe
<1>2. CASE current[u] # 0
  BY <1>2 DEF History, EntriesSafe, StoreTypes
<1> QED
  BY <1>1, <1>2

\* What is stored by a turn is fit: its text passed the check or was replaced.
LEMMA SafeEntry ==
  ASSUME Orderly, NEW t \in Turns, pc[t] \in Adding
  PROVE  Entry(t) \in Entries /\ Fit(Entry(t))
<1>1. reply[t] \in Answers
  BY DEF Orderly, Steady, TurnAt
<1>2. Entry(t).turn = t /\ Entry(t).answer = reply[t]
  BY DEF Entry
<1>3. Entry(t).answer \notin {"unsafe", "refusal"}
  BY <1>1, <1>2 DEF Answers
<1> QED
  BY <1>2, <1>3, EntryType DEF Orderly, Fit

\* A turn keeps its answer until it is forgotten.
LEMMA FitKept ==
  ASSUME Turning, NEW e \in Entries, Fit(e)
  PROVE  Fit(e)'
<1> DEFINE t == e.turn
<1>0. t \in Turns /\ pc[t] \in Adding \cup {"job", "done", "over"}
  BY DEF Entries, Fit
<1>1. CASE Stays(t)
  BY <1>1 DEF Stays, Fit
<1>2. CASE Moves(t)
  <2>1. Stores(t) \/ Finishes(t) \/ Pays(t) \/ Clears(t)
    BY <1>0, <1>2 DEF Moves, Enters, Knows, Streaming, Adding
  <2>2. pc'[t] = "over" \/ (pc'[t] \in Adding \cup {"job", "done"} /\ reply'[t] = reply[t] /\ pc[t] # "over")
    BY <2>1 DEF Stores, Finishes, Pays, Clears, Adding
  <2> QED
    BY <2>2 DEF Fit
<1> QED
  BY <1>0, <1>1, <1>2 DEF Turning

\* No step puts an entry into a list that is not fit.
LEMMA KeptStep ==
  ASSUME Orderly, EntriesSafe, [Next]_vars
  PROVE  EntriesKept
<1>0. StoreTypes /\ \A t \in Turns : user[t] \in Users
  BY DEF Orderly, TurnTypes, TypesAt
<1>a. ASSUME UNCHANGED <<lists, cut>> PROVE EntriesKept
  BY <1>a DEF EntriesSafe, EntriesKept
<1>1. ASSUME NEW t \in Turns, RedisPush(t) PROVE EntriesKept
  <2>1. CASE Push(t)
    <3>1. pc[t] \in Adding /\ redis /\ UNCHANGED cut
      BY <1>1 DEF RedisPush, Adding
    <3>2. Stored(user[t], 1, Append(History(user[t]), Entry(t)))
      BY <2>1, <3>1, PushEffect
    <3>3. Safe(Append(History(user[t]), Entry(t)))
      BY <1>0, <3>1, SafeEntry, SafeHistoryOf, SafeAppend, HistoryType
    <3> QED
      BY <1>0, <3>1, <3>2, <3>3, SafeStored DEF EntriesSafe, EntriesKept
  <2> QED
    BY <1>1, <1>a, <2>1 DEF RedisPush, storeVars
<1>2. ASSUME NEW t \in Turns, RedisTrim(t) PROVE EntriesKept
  <2>0. UNCHANGED cut
    BY <1>2 DEF RedisTrim
  <2>1. CASE lists' # lists
    <3>1. Stored(user[t], 1, Kept(History(user[t])))
      BY <1>2, <2>1, TrimEffect
    <3>2. Safe(Kept(History(user[t])))
      BY <1>0, SafeHistoryOf, HistoryType, KeptIs, SafeLatest
    <3> QED
      BY <1>0, <2>0, <3>1, <3>2, SafeStored DEF EntriesSafe, EntriesKept
  <2> QED
    BY <1>a, <2>0, <2>1
<1>3. ASSUME NEW t \in Turns, Fetch(t) PROVE EntriesKept
  <2>0. UNCHANGED cut
    BY <1>3 DEF Fetch
  <2>1. CASE current[user[t]] = 0
    <3>1. Stored(user[t], Len(lists[user[t]]) + 1, <<>>)
      BY <1>0, <1>3, <2>1, FetchEffect DEF Orderly
    <3>2. Safe(<<>>)
      BY DEF Safe
    <3> QED
      BY <1>0, <2>0, <3>1, <3>2, SafeStored DEF EntriesSafe, EntriesKept
  <2> QED
    BY <1>3, <1>a, <2>0, <2>1 DEF Fetch
<1>4. ASSUME NEW t \in Turns, AppendEntry(t) PROVE EntriesKept
  <2>1. pc[t] \in Adding /\ UNCHANGED cut
    BY <1>4 DEF AppendEntry, Adding, addVars
  <2>2. /\ list[t] \in 1..Len(lists[user[t]])
        /\ Stored(user[t], list[t], Append(lists[user[t]][list[t]], Entry(t)))
    BY <1>4, AppendEffect
  <2>3. Safe(lists[user[t]][list[t]]) /\ lists[user[t]][list[t]] \in Seq(Entries)
    BY <1>0, <2>2 DEF EntriesSafe, StoreTypes
  <2>4. Safe(Append(lists[user[t]][list[t]], Entry(t)))
    BY <2>1, <2>3, SafeEntry, SafeAppend
  <2> QED
    BY <1>0, <2>1, <2>2, <2>4, SafeStored DEF EntriesSafe, EntriesKept
<1>5. ASSUME NEW t \in Turns, Slice(t) PROVE EntriesKept
  <2>0. UNCHANGED lists
    BY <1>5 DEF Slice, storeVars
  <2>1. CASE cut' = [cut EXCEPT ![t] = Latest(MaxTurns, lists[user[t]][list[t]])]
             /\ Len(lists[user[t]][list[t]]) > MaxTurns
    <3>1. list[t] \in 1..Len(lists[user[t]]) /\ lists[user[t]][list[t]] \in Seq(Entries)
      BY <1>5, SliceTakes DEF Slice
    <3>2. Safe(lists[user[t]][list[t]])
      BY <1>0, <3>1 DEF EntriesSafe
    <3>3. Safe(Latest(MaxTurns, lists[user[t]][list[t]]))
      BY <2>1, <3>1, <3>2, SafeLatest, ChatAssumption
    <3> QED
      BY <1>0, <2>0, <2>1, <3>3 DEF EntriesSafe, EntriesKept, StoreTypes
  <2> QED
    BY <1>5, <1>a, <2>0, <2>1 DEF Slice
<1>6. ASSUME NEW t \in Turns, Rebind(t) PROVE EntriesKept
  <2>1. PICK n : Stored(user[t], n, cut[t])
    BY <1>6, RebindEffect
  <2>2. \A v \in Users : \A i \in 1..Len(lists'[v]) : Safe(lists'[v][i])
    BY <1>0, <2>1, SafeStored DEF EntriesSafe, EntriesKept
  <2>3. \A r \in Turns : cut'[r] \in {cut[r], <<>>}
    BY <1>6, <1>0 DEF Rebind, StoreTypes
  <2>4. Safe(<<>>)
    BY DEF Safe
  <2> QED
    BY <2>2, <2>3, <2>4 DEF EntriesSafe, EntriesKept
<1>7. ASSUME NEW u \in Users, Clear(u) PROVE EntriesKept
  <2>1. UNCHANGED cut
    BY <1>7 DEF Clear, addVars
  <2>2. CASE lists' = [lists EXCEPT ![u] = <<>>]
    BY <1>0, <2>1, <2>2 DEF EntriesSafe, EntriesKept, StoreTypes
  <2> QED
    BY <1>7, <1>a, <2>1, <2>2 DEF Clear, storeVars
<1>8. ASSUME NEW t \in Turns,
             \/ \E u \in Users : Admit(t, u)
             \/ ModelAnswers(t) \/ Delta(t) \/ StreamEnds(t) \/ StreamFails(t) \/ Abandon(t)
             \/ Job(t) \/ Forget(t)
      PROVE  EntriesKept
  BY <1>8, <1>a
  DEF Admit, ModelAnswers, Delta, StreamEnds, StreamFails, Abandon, Job, Forget, Answer,
      storeVars, addVars
<1>9. CASE UNCHANGED vars
  BY <1>9, <1>a DEF vars
<1> QED
  BY <1>1, <1>2, <1>3, <1>4, <1>5, <1>6, <1>7, <1>8, <1>9 DEF Next

\* Every step leaves what is remembered fit.
LEMMA SafeStep ==
  ASSUME Orderly, EntriesSafe, [Next]_vars
  PROVE  EntriesSafe'
<1>1. EntriesKept /\ Turning /\ StoreTypes'
  BY KeptStep, TurnsMove, OrderlyStep DEF Orderly
<1>2. ASSUME NEW s \in Seq(Entries), Safe(s) PROVE \A j \in 1..Len(s) : Fit(s[j])'
  <2>1. ASSUME NEW j \in 1..Len(s), NEW e \in Entries, e = s[j] PROVE Fit(e)'
    BY <1>1, <1>2, <2>1, FitKept DEF Safe
  <2> QED
    BY <2>1 DEF Fit
<1>3. ASSUME NEW u \in Users, NEW i \in 1..Len(lists'[u]) PROVE Safe(lists[u][i])'
  <2>1. lists'[u][i] \in Seq(Entries) /\ Safe(lists'[u][i])
    BY <1>1, <1>3 DEF EntriesKept, StoreTypes
  <2> QED
    BY <1>2, <2>1 DEF Safe, Fit
<1>4. ASSUME NEW t \in Turns PROVE Safe(cut[t])'
  <2>1. cut'[t] \in Seq(Entries) /\ Safe(cut'[t])
    BY <1>1, <1>4 DEF EntriesKept, StoreTypes
  <2> QED
    BY <1>2, <2>1 DEF Safe, Fit
<1> QED
  BY <1>3, <1>4 DEF EntriesSafe

-----------------------------------------------------------------------------
(***************************************************************************)
(* What a finished turn told is in what was said, unless something failed  *)
(* or was cleared.                                                         *)
(***************************************************************************)
\* An entry of this turn and this role was stored, with the turn's answer.
Recorded(t, r) == Has(said[user[t]], t, r, reply[t])

\* What was stored where a turn is.
SaidAt(t) ==
  /\ pc[t] \in Adding /\ role[t] = "assistant" => Recorded(t, "user")
  /\ pc[t] \in {"trim", "rebind"} => Recorded(t, role[t])
  /\ pc[t] \in {"job", "done"} /\ reply[t] \in Answers => \A r \in Roles : Recorded(t, r)

\* The same of all of them, while nothing fails.
SaidAll == faults = 0 /\ clears = 0 => \A t \in Turns : SaidAt(t)

\* An entry stays where others are added,
LEMMA HasGrows ==
  ASSUME NEW s \in Seq(Entries), NEW e \in Entries, NEW t, NEW r, NEW a, Has(s, t, r, a)
  PROVE  Has(Append(s, e), t, r, a)
<1>1. PICK i \in 1..Len(s) : s[i] = [turn |-> t, role |-> r, answer |-> a]
  BY DEF Has
<1>2. i \in 1..Len(Append(s, e)) /\ Append(s, e)[i] = s[i]
  OBVIOUS
<1> QED
  BY <1>1, <1>2 DEF Has

\* and the one added is there.
LEMMA HasAdded ==
  ASSUME NEW s \in Seq(Entries), NEW t \in Turns, Entry(t) \in Entries
  PROVE  Has(Append(s, Entry(t)), t, role[t], reply[t])
<1>1. /\ Len(s) + 1 \in 1..Len(Append(s, Entry(t)))
      /\ Append(s, Entry(t))[Len(s) + 1] = Entry(t)
  OBVIOUS
<1> QED
  BY <1>1 DEF Has, Entry

\* A turn that finishes its add has stored its entry.
LEMMA FinishesSaid ==
  ASSUME NEW t \in Turns, SaidAt(t), Finishes(t), pc[t] \in {"trim", "rebind"},
         \A r \in Roles : Recorded(t, r) => Recorded(t, r)'
  PROVE  SaidAt(t)'
<1> USE DEF Adding, Roles
<1>1. CASE role[t] = "user" /\ role'[t] = "assistant" /\ pc'[t] = "fetch"
  <2>1. Recorded(t, "user")'
    BY <1>1 DEF SaidAt
  <2> QED
    BY <1>1, <2>1 DEF SaidAt
<1>2. CASE role[t] = "assistant" /\ pc'[t] \in {"done", "job"}
  <2>1. Recorded(t, "user")' /\ Recorded(t, "assistant")'
    BY <1>2 DEF SaidAt
  <2> QED
    BY <1>2, <2>1 DEF SaidAt
<1> QED
  BY <1>1, <1>2 DEF Finishes

\* No step loses what was said, unless it fails or clears.
LEMMA SaidStep ==
  ASSUME Orderly, SaidAll, [Next]_vars
  PROVE  SaidAll'
<1>0. /\ TurnTypes /\ StoreTypes /\ Turning /\ Steady /\ faults \in Nat /\ clears \in Nat
      /\ faults' \in Nat /\ clears' \in Nat
  BY TurnsMove, OrderlyStep DEF Orderly, Bounds, EventsBounded
<1>1. SUFFICES ASSUME faults' = 0, clears' = 0, NEW t \in Turns PROVE SaidAt(t)'
  BY DEF SaidAll
<1> USE DEF Adding, Roles
<1>2. ASSUME NEW x \in Turns, NEW u \in Users, Records(x, u) PROVE SaidAt(t)'
  <2>1. /\ Acts(x, u) /\ user' = user /\ user[x] = u /\ clears = 0 /\ pc[x] \in Adding
        /\ \A v \in Users \ {u} : said'[v] = said[v]
    BY <1>1, <1>2 DEF Records, Acts, HistorySame
  <2>2. faults = 0 /\ faults' # faults + 1 /\ said'[u] \in {said[u], Append(said[u], Entry(x))}
    BY <1>0, <1>1, <1>2
    DEF Records, Pushes, Misses, Trims, Fetches, Appends, Slices, Rebinds, Adds, HistorySame
  <2>3. \A y \in Turns : SaidAt(y)
    BY <2>1, <2>2 DEF SaidAll
  <2>4. Entry(x) \in Entries /\ \A v \in Users : said[v] \in Seq(Entries)
    BY <1>0, <2>1, EntryType DEF StoreTypes
  <2>5. reply' [x] = reply[x] /\ (pc'[x] # pc[x] => Stores(x) \/ Finishes(x))
    BY <1>0, <2>1 DEF Turning, Stays, Moves, Enters, Knows, Streaming, Stores, Finishes, Pays, Clears
  <2>6. ASSUME NEW y \in Turns, reply'[y] = reply[y], NEW r \in Roles, Recorded(y, r)
        PROVE  Recorded(y, r)'
    <3>0. user[y] \in Users /\ user'[y] = user[y]
      BY <1>0, <2>1 DEF TurnTypes, TypesAt
    <3>1. said'[user[y]] = said[user[y]] \/ said'[user[y]] = Append(said[user[y]], Entry(x))
      BY <2>1, <2>2, <3>0
    <3>2. Has(said[user[y]], y, r, reply[y]) /\ said[user[y]] \in Seq(Entries)
      BY <2>4, <2>6, <3>0 DEF Recorded
    <3>3. Has(said'[user[y]], y, r, reply[y])
      BY <2>4, <3>1, <3>2, HasGrows
    <3> QED
      BY <2>6, <3>0, <3>3 DEF Recorded, Has
  <2>7. CASE t # x
    <3>1. Stays(t)
      BY <2>1, <2>7 DEF Acts
    <3>2. \A r \in Roles : Recorded(t, r) => Recorded(t, r)'
      BY <2>6, <3>1 DEF Stays
    <3>3. role[t] \in Roles
      BY <1>0 DEF TurnTypes, TypesAt
    <3>4. role[t] \in Roles => (Recorded(t, role[t]) => Recorded(t, role[t])')
      BY <3>1, <3>2 DEF Stays, Recorded
    <3> QED
      BY <2>3, <3>1, <3>2, <3>3, <3>4 DEF Stays, SaidAt
  <2>8. CASE t = x
    <3>1. \A r \in Roles : Recorded(x, r) => Recorded(x, r)'
      BY <2>5, <2>6
    <3>2. CASE Finishes(x) /\ pc[x] \in {"trim", "rebind"}
      BY <2>3, <2>8, <3>1, <3>2, FinishesSaid
    <3>3. CASE pc'[x] = "append" /\ role'[x] = role[x]
      BY <2>1, <2>3, <2>8, <3>1, <3>3 DEF SaidAt
    <3>4. CASE pc[x] = "trim" /\ pc'[x] = "rebind" /\ role'[x] = role[x]
      <4>1. role[x] \in Roles
        BY <1>0 DEF TurnTypes, TypesAt
      <4>2. Recorded(x, role[x])'
        BY <2>3, <3>1, <3>4, <4>1 DEF SaidAt
      <4> QED
        BY <2>1, <2>3, <2>8, <3>1, <3>4, <4>2 DEF SaidAt, Recorded
    <3>5. CASE /\ pc'[x] = "trim" /\ role'[x] = role[x]
               /\ said'[u] = Append(said[u], Entry(x))
      <4>1. Has(said'[u], x, role[x], reply[x])
        BY <2>4, <3>5, HasAdded
      <4>2. Recorded(x, role[x])'
        BY <2>1, <2>5, <3>5, <4>1 DEF Recorded, Has
      <4> QED
        BY <2>1, <2>3, <2>8, <3>1, <3>5, <4>2 DEF SaidAt, Recorded
    <3> QED
      BY <1>2, <2>2, <3>2, <3>3, <3>4, <3>5
      DEF Records, Pushes, Misses, Trims, Fetches, Appends, Slices, Rebinds, Adds
  <2> QED
    BY <2>7, <2>8
<1>3. ASSUME NEW u \in Users, Wipes(u) PROVE FALSE
  <2>1. faults' = faults + 1 \/ clears' = clears + 1
    BY <1>3 DEF Wipes
  <2> QED
    BY <1>0, <1>1, <2>1
<1>4. CASE Waits
  <2>1. SaidAt(t) /\ UNCHANGED said
    BY <1>1, <1>4 DEF Waits, SaidAll, storeVars
  <2>2. CASE Stays(t)
    BY <2>1, <2>2 DEF Stays, SaidAt, Recorded, Has
  <2>3. CASE ~Stays(t)
    <3>1. Moves(t)
      BY <1>0, <2>3 DEF Turning
    <3>2. pc[t] \notin Adding /\ (pc[t] # "new" => user'[t] = user[t])
      BY <1>4, <2>3 DEF Waits
    <3>3. pc'[t] \notin Adding \/ (pc'[t] = "fetch" /\ role'[t] = "user")
      BY <1>4, <3>2 DEF Waits
    <3>4. ASSUME pc'[t] \in {"job", "done"}, reply'[t] \in Answers
          PROVE  pc[t] = "job" /\ reply'[t] = reply[t]
      <4>1. pc[t] = "new" => reply[t] = "none"
        BY <1>0 DEF Steady, TurnAt
      <4>2. Enters(t) \/ Pays(t)
        BY <3>1, <3>2, <3>4 DEF Moves, Knows, Streaming, Stores, Finishes, Clears
      <4>3. CASE Enters(t)
        BY <3>4, <4>1, <4>3 DEF Enters, Answers
      <4>4. CASE Pays(t)
        BY <4>4 DEF Pays
      <4> QED
        BY <4>2, <4>3, <4>4
    <3>5. ASSUME pc'[t] \in {"job", "done"}, reply'[t] \in Answers, NEW r \in Roles
          PROVE  Recorded(t, r)'
      BY <2>1, <3>2, <3>4, <3>5 DEF SaidAt, Recorded, Has
    <3> QED
      BY <3>3, <3>5 DEF SaidAt
  <2> QED
    BY <2>2, <2>3
<1> QED
  BY <1>2, <1>3, <1>4, Recording

-----------------------------------------------------------------------------
(***************************************************************************)
(* A history is bounded. The bound holds step by step because a turn that  *)
(* adds an entry is counted until it has trimmed, and a fault is counted   *)
(* for good.                                                               *)
(***************************************************************************)
\* The turns that are at work on a history that may be too long.
Over(u) == {t \in Turns : /\ user[t] = u /\ pc[t] \in {"trim", "rebind"}
                          /\ redis \/ list[t] = current[u]}

\* A slice that is to be bound has MaxTurns entries.
CutIsFull == \A t \in Turns : pc[t] = "rebind" => Len(cut[t]) = MaxTurns

\* The bound, for one user.
NearAt(u) == Len(History(u)) <= MaxTurns + faults + Cardinality(Over(u))

\* The bound, for all of them.
Near == CutIsFull /\ \A u \in Users : NearAt(u)

\* Those turns can be counted;
LEMMA OverFinite ==
  ASSUME NEW u \in Users
  PROVE  /\ IsFiniteSet(Over(u)) /\ Cardinality(Over(u)) \in Nat
         /\ IsFiniteSet(Over(u)') /\ Cardinality(Over(u)') \in Nat
<1>1. Over(u) \subseteq Turns /\ Over(u)' \subseteq Turns
  BY DEF Over
<1> QED
  BY <1>1, FS_Subset, FS_CardinalityType, ChatAssumption

\* more of them count for no less,
LEMMA OverGrows ==
  ASSUME NEW u \in Users, Over(u) \subseteq Over(u)'
  PROVE  Cardinality(Over(u)) <= Cardinality(Over(u)')
BY OverFinite, FS_Subset

\* one less for one less,
LEMMA OverLoses ==
  ASSUME NEW u \in Users, NEW t \in Turns, Over(u) \ {t} \subseteq Over(u)'
  PROVE  Cardinality(Over(u)) <= Cardinality(Over(u)') + 1
<1>1. Cardinality(Over(u) \ {t}) <= Cardinality(Over(u)') /\ IsFiniteSet(Over(u) \ {t})
  BY OverFinite, FS_Subset
<1>2. Cardinality(Over(u) \ {t}) >= Cardinality(Over(u)) - 1
  BY OverFinite, FS_RemoveElement
<1> QED
  BY <1>1, <1>2, OverFinite, FS_CardinalityType

\* one more for one more.
LEMMA OverGains ==
  ASSUME NEW u \in Users, NEW t \in Turns, t \notin Over(u), Over(u) \cup {t} \subseteq Over(u)'
  PROVE  Cardinality(Over(u)) + 1 <= Cardinality(Over(u)')
<1>1. Cardinality(Over(u) \cup {t}) = Cardinality(Over(u)) + 1
  BY OverFinite, FS_AddElement
<1> QED
  BY <1>1, OverFinite, FS_Subset

\* A slice has MaxTurns entries when it is made.
LEMMA CutStep ==
  ASSUME Orderly, CutIsFull, [Next]_vars
  PROVE  CutIsFull'
<1>1. ASSUME NEW t \in Turns, NEW u \in Users, Records(t, u) PROVE CutIsFull'
  <2>1. \A r \in Turns \ {t} : pc'[r] = pc[r] /\ cut'[r] = cut[r]
    BY <1>1 DEF Records, Acts, Stays
  <2>2. pc'[t] = "rebind" => Len(cut'[t]) = MaxTurns
    <3>1. CASE Slices(t, u)
      <4>1. user[t] = u /\ pc[t] = "trim" /\ ~redis
        BY <1>1, <3>1 DEF Records, Acts, Slices
      <4> QED
        BY <3>1, <4>1, SliceTakes DEF Slices, Finishes
    <3>2. CASE ~Slices(t, u)
      BY <1>1, <3>2 DEF Records, Pushes, Misses, Trims, Fetches, Appends, Rebinds, Finishes
    <3> QED
      BY <3>1, <3>2
  <2> QED
    BY <2>1, <2>2 DEF CutIsFull
<1>2. ASSUME NEW u \in Users, Wipes(u) PROVE CutIsFull'
  BY <1>2 DEF Wipes, Stays, CutIsFull
<1>3. CASE Waits
  BY <1>3 DEF Waits, Stays, Adding, CutIsFull
<1> QED
  BY <1>1, <1>2, <1>3, Recording

\* No step breaks the bound.
LEMMA NearStep ==
  ASSUME Orderly, Near, [Next]_vars
  PROVE  Near'
<1>0. /\ StoreTypes /\ StoreTypes' /\ EventsBounded /\ EventsBounded'
      /\ MaxTurns \in Nat \ {0} /\ Orderly'
  BY OrderlyStep, ChatAssumption DEF Orderly, Bounds
<1>a. ASSUME NEW u \in Users
      PROVE  /\ NearAt(u) /\ faults \in Nat /\ faults' \in Nat
             /\ History(u) \in Seq(Entries) /\ History(u)' \in Seq(Entries)
             /\ Len(History(u)) \in Nat /\ Len(History(u)') \in Nat
             /\ Cardinality(Over(u)) \in Nat /\ Cardinality(Over(u)') \in Nat
  <2>1. History(u)' \in Seq(Entries)
    BY <1>0 DEF StoreTypes, History
  <2>2. NearAt(u) /\ faults \in Nat /\ faults' \in Nat
    BY <1>0 DEF Near, EventsBounded
  <2> QED
    BY <1>0, <2>1, <2>2, HistoryType, OverFinite
<1>b. ASSUME NEW u \in Users, HistorySame(u) \/ History(u)' = History(u), faults' >= faults,
             Over(u) \subseteq Over(u)'
      PROVE  NearAt(u)'
  <2>1. Cardinality(Over(u)) <= Cardinality(Over(u)') /\ History(u)' = History(u)
    BY <1>b, OverGrows DEF HistorySame
  <2>2. /\ Len(History(u)) <= MaxTurns + faults + Cardinality(Over(u))
        /\ Len(History(u)') = Len(History(u))
    BY <1>a, <2>1 DEF NearAt
  <2>3. Len(History(u)') <= MaxTurns + faults' + Cardinality(Over(u)')
    BY <1>0, <1>a, <1>b, <2>1, <2>2
  <2> QED
    BY <2>3 DEF NearAt
<1>c. ASSUME NEW u \in Users, Len(History(u)') <= MaxTurns PROVE NearAt(u)'
  BY <1>0, <1>a, <1>c DEF NearAt
<1>1. ASSUME NEW t \in Turns, NEW u \in Users, Records(t, u), NEW v \in Users PROVE NearAt(v)'
  <2>0. /\ Acts(t, u) /\ user[t] = u /\ user' = user /\ redis' = redis
        /\ \A r \in Turns \ {t} : pc'[r] = pc[r] /\ list'[r] = list[r]
        /\ \A w \in Users \ {u} : HistorySame(w) /\ current'[w] = current[w]
    BY <1>1 DEF Records, Acts, Stays
  <2>1. faults' = faults \/ faults' = faults + 1
    BY <1>1 DEF Records, Pushes, Misses, Trims, Fetches, Appends, Slices, Rebinds
  <2>2. faults' >= faults
    BY <1>a, <2>1
  <2>3. CASE v # u
    <3>1. Over(v) \subseteq Over(v)'
      BY <2>0, <2>3 DEF Over
    <3> QED
      BY <1>b, <2>0, <2>2, <2>3, <3>1
  <2>4. CASE v = u
    <3>1. CASE Pushes(t, u)
      <4>0. /\ Len(History(u)') = Len(History(u)) + 1 /\ t \notin Over(u) /\ redis
        BY <1>a, <2>0, <3>1 DEF Pushes, Adds, Over
      <4>1. CASE pc'[t] = "trim" /\ UNCHANGED <<role[t], faults>>
        <5>1. Over(u) \cup {t} \subseteq Over(u)'
          BY <2>0, <4>0, <4>1 DEF Over
        <5>2. Cardinality(Over(u)) + 1 <= Cardinality(Over(u)')
          BY <4>0, <5>1, OverGains
        <5> QED
          <6>1. Len(History(u)) <= MaxTurns + faults + Cardinality(Over(u))
            BY <1>a DEF NearAt
          <6>2. Len(History(u)') <= MaxTurns + faults' + Cardinality(Over(u)')
            BY <1>0, <1>a, <4>0, <4>1, <5>2, <6>1
          <6> QED
            BY <2>4, <6>2 DEF NearAt
      <4>2. CASE faults' = faults + 1
        <5>1. Over(u) \subseteq Over(u)'
          BY <2>0, <4>0 DEF Over
        <5>2. Cardinality(Over(u)) <= Cardinality(Over(u)')
          BY <5>1, OverGrows
        <5> QED
          <6>1. Len(History(u)) <= MaxTurns + faults + Cardinality(Over(u))
            BY <1>a DEF NearAt
          <6>2. /\ Len(History(u)) \in Nat /\ faults \in Nat
                /\ Cardinality(Over(u)) \in Nat /\ Cardinality(Over(u)') \in Nat
            BY <1>a
          <6>3. Len(History(u)') = Len(History(u)) + 1
            BY <4>0
          <6>4. Len(History(u)') <= MaxTurns + faults' + Cardinality(Over(u)')
            BY <1>0, <4>2, <5>2, <6>1, <6>2, <6>3
          <6> QED
            BY <2>4, <6>4 DEF NearAt
      <4> QED
        BY <3>1, <4>1, <4>2 DEF Pushes
    <3>2. CASE Misses(t, u)
      <4>1. Over(u) \subseteq Over(u)'
        BY <2>0, <3>2 DEF Misses, Over
      <4> QED
        BY <1>b, <2>2, <2>4, <3>2, <4>1 DEF Misses
    <3>3. CASE Trims(t, u)
      <4>1. CASE History(u)' = Kept(History(u))
        <5>0. PICK n \in 0..Len(History(u)) : Kept(History(u)) = Latest(n, History(u)) /\ n <= MaxTurns
          BY <1>a, KeptIs
        <5>1. Len(Kept(History(u))) <= MaxTurns
          BY <1>a, <5>0, LatestIs
        <5> QED
          BY <1>c, <2>4, <4>1, <5>1
      <4>2. CASE History(u)' = History(u) /\ faults' = faults + 1
        <5>1. Over(u) \ {t} \subseteq Over(u)'
          BY <2>0, <3>3 DEF Trims, Over
        <5>2. Cardinality(Over(u)) <= Cardinality(Over(u)') + 1
          BY <5>1, OverLoses
        <5> QED
          <6>1. Len(History(u)) <= MaxTurns + faults + Cardinality(Over(u))
            BY <1>a DEF NearAt
          <6>2. Len(History(u)') <= MaxTurns + faults' + Cardinality(Over(u)')
            <7>1. Len(History(u)') = Len(History(u))
              BY <4>2
            <7>2. /\ Len(History(u)) \in Nat /\ faults \in Nat
                  /\ Cardinality(Over(u)) \in Nat /\ Cardinality(Over(u)') \in Nat
              BY <1>a
            <7> QED
              BY <1>0, <4>2, <5>2, <6>1, <7>1, <7>2
          <6> QED
            BY <2>4, <6>2 DEF NearAt
      <4> QED
        BY <3>3, <4>1, <4>2 DEF Trims
    <3>4. CASE Fetches(t, u)
      <4>1. CASE current'[u] = current[u]
        <5>1. Over(u) \subseteq Over(u)'
          BY <2>0, <3>4, <4>1 DEF Fetches, Over
        <5> QED
          BY <1>b, <2>2, <2>4, <3>4, <5>1 DEF Fetches
      <4>2. CASE History(u) = <<>>
        <5>1. Len(History(u)') = 0
          BY <3>4, <4>2 DEF Fetches, HistorySame
        <5> QED
          BY <1>0, <1>c, <2>4, <5>1
      <4> QED
        BY <3>4, <4>1, <4>2 DEF Fetches
    <3>5. CASE Appends(t, u)
      <4>1. CASE list[t] = current[u]
        <5>1. /\ Len(History(u)') = Len(History(u)) + 1 /\ t \notin Over(u)
              /\ Over(u) \cup {t} \subseteq Over(u)' /\ faults' = faults
          BY <1>a, <2>0, <3>5, <4>1 DEF Appends, Adds, Over
        <5>2. Cardinality(Over(u)) + 1 <= Cardinality(Over(u)')
          BY <5>1, OverGains
        <5> QED
          <6>1. Len(History(u)) <= MaxTurns + faults + Cardinality(Over(u))
            BY <1>a DEF NearAt
          <6>2. Len(History(u)') <= MaxTurns + faults' + Cardinality(Over(u)')
            BY <1>0, <1>a, <5>1, <5>2, <6>1
          <6> QED
            BY <2>4, <6>2 DEF NearAt
      <4>2. CASE list[t] # current[u]
        <5>1. Over(u) \subseteq Over(u)' /\ History(u)' = History(u)
          BY <2>0, <3>5, <4>2 DEF Appends, Over
        <5> QED
          BY <1>b, <2>2, <2>4, <5>1
      <4> QED
        BY <4>1, <4>2
    <3>6. CASE Slices(t, u)
      <4>0. HistorySame(u) /\ UNCHANGED current /\ pc[t] = "trim" /\ ~redis
        BY <3>6 DEF Slices, storeVars
      <4>1. CASE pc'[t] = "rebind" /\ list'[t] = list[t]
        <5>1. Over(u) \subseteq Over(u)'
          BY <2>0, <4>0, <4>1 DEF Over
        <5> QED
          BY <1>b, <2>2, <2>4, <4>0, <5>1
      <4>2. CASE Len(lists[u][list[t]]) <= MaxTurns /\ list[t] = current[u]
        <5>1. list[t] # 0
          BY <2>0, <4>0 DEF Orderly, Steady, TurnAt, Adding
        <5>2. History(u) = lists[u][list[t]]
          BY <4>2, <5>1 DEF History
        <5>3. Len(History(u)') <= MaxTurns
          BY <4>0, <4>2, <5>2 DEF HistorySame
        <5> QED
          BY <1>c, <2>4, <5>3
      <4>3. CASE list[t] # current[u]
        <5>1. Over(u) \subseteq Over(u)'
          BY <2>0, <4>0, <4>3 DEF Over
        <5> QED
          BY <1>b, <2>2, <2>4, <4>0, <5>1
      <4> QED
        BY <3>6, <4>1, <4>2, <4>3 DEF Slices
    <3>7. CASE Rebinds(t, u)
      <4>1. Len(History(u)') = MaxTurns
        BY <3>7 DEF Rebinds, Near, CutIsFull
      <4> QED
        BY <1>0, <1>c, <2>4, <4>1
    <3> QED
      BY <1>1, <3>1, <3>2, <3>3, <3>4, <3>5, <3>6, <3>7 DEF Records
  <2> QED
    BY <2>3, <2>4
<1>2. ASSUME NEW u \in Users, Wipes(u), NEW v \in Users PROVE NearAt(v)'
  <2>0. UNCHANGED redis /\ \A r \in Turns : Stays(r)
    BY <1>2 DEF Wipes
  <2>1. CASE HistorySame(v) /\ current'[v] = current[v]
    <3>1. Over(v) \subseteq Over(v)'
      BY <2>0, <2>1 DEF Over, Stays
    <3>2. faults' >= faults
      BY <1>2, <1>a DEF Wipes
    <3> QED
      BY <1>b, <2>1, <3>1, <3>2
  <2>2. CASE History(v)' = <<>>
    BY <1>0, <1>c, <2>2
  <2> QED
    BY <1>2, <2>1, <2>2 DEF Wipes
<1>3. ASSUME Waits, NEW v \in Users PROVE NearAt(v)'
  <2>1. Over(v) \subseteq Over(v)'
    BY <1>3 DEF Waits, Over, Stays, Adding, storeVars
  <2> QED
    BY <1>3, <1>a, <1>b, <2>1 DEF Waits
<1>4. CutIsFull'
  BY CutStep DEF Near
<1> QED
  BY <1>1, <1>2, <1>3, <1>4, Recording DEF Near

\* This is the bound that TLC checks.
LEMMA NearBounds == Orderly /\ Near => Bounded
<1> SUFFICES ASSUME Orderly, Near, NEW u \in Users
             PROVE  Len(History(u)) <= MaxTurns + faults
                    + Cardinality({t \in Turns : user[t] = u /\ pc[t] \in {"trim", "rebind"}})
  BY DEF Bounded
<1> DEFINE S == {t \in Turns : user[t] = u /\ pc[t] \in {"trim", "rebind"}}
<1>1. Over(u) \subseteq S /\ S \subseteq Turns
  BY DEF Over
<1>2. Cardinality(Over(u)) <= Cardinality(S) /\ Cardinality(S) \in Nat
  BY <1>1, FS_Subset, FS_CardinalityType, ChatAssumption
<1>3. Len(History(u)) \in Nat /\ Cardinality(Over(u)) \in Nat /\ faults \in Nat /\ MaxTurns \in Nat
  BY HistoryType, OverFinite, ChatAssumption DEF Orderly, Bounds, EventsBounded
<1> QED
  BY <1>2, <1>3 DEF Near, NearAt

-----------------------------------------------------------------------------
(***************************************************************************)
(* A history is the end of what was said. In memory this holds as long as  *)
(* the turns of a user do not meet: then the one turn that is at work      *)
(* holds the list that is the history.                                     *)
(***************************************************************************)
\* At work on an answer or on the history.
Working(t) == pc[t] \in {"streaming", "llm"} \cup Adding

\* In calm, one turn of a user is at work at most,
Alone ==
  \A u \in Users : calm[u] =>
    \A t, r \in Turns : user[t] = u /\ user[r] = u /\ Working(t) /\ Working(r) => t = r

\* and the list that it holds, and its slice, are of the history.
HoldsCurrent ==
  \A t \in Turns : calm[user[t]] /\ list[t] # 0 =>
    /\ list[t] = current[user[t]]
    /\ pc[t] = "rebind" =>
         Len(History(user[t])) > MaxTurns /\ cut[t] = Latest(MaxTurns, History(user[t]))

\* No step of a calm user's turns brings a second one in.
LEMMA AloneStep ==
  ASSUME Orderly, Alone, [Next]_vars
  PROVE  Alone'
<1>0. Turning
  BY TurnsMove DEF Orderly
<1>1. SUFFICES ASSUME NEW u \in Users, calm'[u], NEW t \in Turns, NEW r \in Turns, t # r,
                      user'[t] = u, user'[r] = u, Working(t)', Working(r)'
               PROVE  FALSE
  BY DEF Alone
<1>2. calm[u]
  BY <1>0, <1>1 DEF Turning
<1>3. CASE Stays(t) /\ Stays(r)
  BY <1>1, <1>2, <1>3 DEF Alone, Stays, Working
<1>4. ASSUME NEW x \in Turns, NEW y \in Turns, x # y, Moves(x), Stays(y),
             user'[x] = u, user'[y] = u, Working(x)', Working(y)'
      PROVE  FALSE
  <2>1. user[y] = u /\ Working(y)
    BY <1>4 DEF Stays, Working
  <2>2. CASE Enters(x)
    <3>1. pc'[x] \notin {"job", "done"}
      BY <1>4 DEF Working, Adding
    <3>2. pc[y] \in Ended
      BY <1>1, <1>4, <2>1, <2>2, <3>1 DEF Enters
    <3> QED
      BY <2>1, <3>2 DEF Working, Adding, Ended
  <2>3. CASE ~Enters(x)
    <3>1. user[x] = u /\ Working(x)
      BY <1>4, <2>3 DEF Moves, Knows, Streaming, Stores, Finishes, Pays, Clears, Working, Adding
    <3> QED
      BY <1>2, <1>4, <2>1, <3>1 DEF Alone
  <2> QED
    BY <2>2, <2>3
<1> QED
  BY <1>0, <1>1, <1>3, <1>4 DEF Turning

\* No step takes the history away from under an add, in calm.
LEMMA HoldsStep ==
  ASSUME Orderly, Alone, HoldsCurrent, [Next]_vars
  PROVE  HoldsCurrent'
<1>0. Turning /\ Steady' /\ Steady /\ StoreTypes /\ Orderly' /\ \A t \in Turns : user[t] \in Users /\ user'[t] \in Users
  BY OrderlyStep, TurnsMove DEF Orderly, TurnTypes, TypesAt
<1> SUFFICES ASSUME NEW r \in Turns, NEW v \in Users, user'[r] = v, calm'[v], list'[r] # 0
             PROVE  /\ list'[r] = current'[v]
                    /\ pc'[r] = "rebind" =>
                         Len(History(v)') > MaxTurns /\ cut'[r] = Latest(MaxTurns, History(v)')
  BY <1>0 DEF HoldsCurrent
<1>1. calm[v] /\ pc'[r] \in Adding \ {"fetch"} /\ ~redis
  BY <1>0 DEF Turning, Steady, TurnAt
<1>2. ASSUME user[r] = v, list[r] # 0
      PROVE  /\ Working(r) /\ list[r] = current[v]
             /\ pc[r] = "rebind" =>
                  Len(History(v)) > MaxTurns /\ cut[r] = Latest(MaxTurns, History(v))
  BY <1>0, <1>1, <1>2 DEF HoldsCurrent, Steady, TurnAt, Working
<1>a. ASSUME Stays(r), cut'[r] = cut[r], HistorySame(v), current'[v] = current[v]
      PROVE  /\ list'[r] = current'[v]
             /\ pc'[r] = "rebind" =>
                  Len(History(v)') > MaxTurns /\ cut'[r] = Latest(MaxTurns, History(v)')
  BY <1>2, <1>a DEF Stays, HistorySame
<1>3. ASSUME NEW t \in Turns, NEW u \in Users, Records(t, u)
      PROVE  /\ list'[r] = current'[v]
             /\ pc'[r] = "rebind" =>
                  Len(History(v)') > MaxTurns /\ cut'[r] = Latest(MaxTurns, History(v)')
  <2>0. /\ Acts(t, u) /\ user[t] = u /\ user'[t] = u /\ Working(t)
    BY <1>3 DEF Records, Acts, Working
  <2>1. CASE t # r
    <3>1. Stays(r) /\ cut'[r] = cut[r] /\ user[r] = v /\ list[r] # 0
      BY <2>0, <2>1 DEF Acts, Stays
    <3>2. u # v
      BY <1>1, <1>2, <2>0, <2>1, <3>1 DEF Alone
    <3> QED
      BY <1>a, <2>0, <3>1, <3>2 DEF Acts
  <2>2. CASE t = r
    <3>0. u = v
      BY <2>0, <2>2
    <3>1. CASE Fetches(t, u)
      BY <2>2, <3>0, <3>1 DEF Fetches
    <3>2. CASE Appends(t, u)
      BY <1>2, <2>0, <2>2, <3>0, <3>2 DEF Appends
    <3>3. CASE Slices(t, u)
      <4>1. /\ list'[r] = list[r] /\ list[r] # 0 /\ user[r] = v /\ UNCHANGED current
            /\ History(v)' = History(v)
            /\ cut'[r] = Latest(MaxTurns, lists[v][list[r]]) /\ Len(lists[v][list[r]]) > MaxTurns
        BY <2>0, <2>2, <3>0, <3>3 DEF Slices, Finishes, storeVars, HistorySame
      <4>2. list[r] = current[v]
        BY <1>2, <4>1
      <4>3. History(v) = lists[v][list[r]]
        BY <4>1, <4>2 DEF History
      <4> QED
        BY <4>1, <4>2, <4>3
    <3>4. CASE Rebinds(t, u)
      BY <2>2, <3>4 DEF Rebinds, Finishes
    <3> QED
      BY <1>1, <1>3, <3>1, <3>2, <3>3, <3>4 DEF Records, Pushes, Misses, Trims
  <2> QED
    BY <2>1, <2>2
<1>4. ASSUME NEW u \in Users, Wipes(u)
      PROVE  /\ list'[r] = current'[v]
             /\ pc'[r] = "rebind" =>
                  Len(History(v)') > MaxTurns /\ cut'[r] = Latest(MaxTurns, History(v)')
  <2>0. Stays(r) /\ cut'[r] = cut[r] /\ user[r] = v /\ list[r] # 0
    BY <1>4 DEF Wipes, Stays
  <2>1. Busy(v) # {}
    BY <1>0, <2>0 DEF Busy, Steady, TurnAt, Adding, Ended
  <2>2. HistorySame(v) /\ current'[v] = current[v]
    BY <1>4, <2>1 DEF Wipes
  <2> QED
    BY <1>a, <2>0, <2>2
<1>5. CASE Waits
  <2>1. Stays(r)
    BY <1>0, <1>1, <1>5 DEF Waits
  <2> QED
    BY <1>a, <1>5, <2>1 DEF Waits, storeVars
<1> QED
  BY <1>3, <1>4, <1>5, Recording

\* The list h is the end of s, and enough of it.
Ends(h, s) ==
  /\ Len(h) <= Len(s)
  /\ h = Latest(Len(h), s)
  /\ Len(h) >= MaxTurns \/ Len(h) = Len(s)

\* Nothing is the end of nothing.
LEMMA EndsNothing == Ends(<<>>, <<>>)
<1>1. Len(<<>>) = 0 /\ <<>> \in Seq({})
  OBVIOUS
<1>2. Latest(0, <<>>) = <<>>
  BY <1>1 DEF Latest
<1> QED
  BY <1>1, <1>2 DEF Ends

\* What agrees with the end of s, entry by entry, is the end of it,
LEMMA EndsByEntries ==
  ASSUME NEW h \in Seq(Entries), NEW s \in Seq(Entries), Len(h) <= Len(s),
         \A i \in 1..Len(h) : h[i] = s[Len(s) - Len(h) + i],
         Len(h) >= MaxTurns \/ Len(h) = Len(s)
  PROVE  Ends(h, s)
<1>1. Len(h) \in 0..Len(s)
  OBVIOUS
<1>2. /\ Latest(Len(h), s) \in Seq(Entries) /\ Len(Latest(Len(h), s)) = Len(h)
      /\ \A i \in 1..Len(h) : Latest(Len(h), s)[i] = s[Len(s) - Len(h) + i]
  BY <1>1, LatestIs
<1>3. h = Latest(Len(h), s)
  BY <1>2, SeqEqual
<1> QED
  BY <1>3 DEF Ends

\* and the other way round.
LEMMA EndsEntries ==
  ASSUME NEW h \in Seq(Entries), NEW s \in Seq(Entries), Ends(h, s)
  PROVE  \A i \in 1..Len(h) : h[i] = s[Len(s) - Len(h) + i]
<1>1. Len(h) \in 0..Len(s)
  BY DEF Ends
<1>2. \A i \in 1..Len(h) : Latest(Len(h), s)[i] = s[Len(s) - Len(h) + i]
  BY <1>1, LatestIs
<1> QED
  BY <1>2 DEF Ends

\* Both may be extended,
LEMMA EndsAppend ==
  ASSUME NEW h \in Seq(Entries), NEW s \in Seq(Entries), Ends(h, s), NEW e \in Entries
  PROVE  Ends(Append(h, e), Append(s, e))
<1> DEFINE g == Append(h, e)
           z == Append(s, e)
<1>1. /\ g \in Seq(Entries) /\ z \in Seq(Entries) /\ Len(g) = Len(h) + 1 /\ Len(z) = Len(s) + 1
      /\ Len(h) \in Nat /\ Len(s) \in Nat /\ Len(h) <= Len(s)
      /\ Len(h) >= MaxTurns \/ Len(h) = Len(s)
  BY DEF Ends
<1>2. /\ \A i \in 1..Len(h) : g[i] = h[i] 
      /\ \A i \in 1..Len(s) : z[i] = s[i]
      /\ g[Len(h) + 1] = e /\ z[Len(s) + 1] = e
  OBVIOUS
<1>3. \A i \in 1..Len(h) : h[i] = s[Len(s) - Len(h) + i]
  BY EndsEntries
<1> HIDE DEF g, z
<1>4. ASSUME NEW i \in 1..Len(g) PROVE g[i] = z[Len(z) - Len(g) + i]
  <2>1. CASE i = Len(h) + 1
    BY <1>1, <1>2, <2>1
  <2>2. CASE i # Len(h) + 1
    <3>1. i \in 1..Len(h) /\ Len(s) - Len(h) + i \in 1..Len(s) /\ Len(z) - Len(g) + i = Len(s) - Len(h) + i
      BY <1>1, <2>2
    <3> QED
      BY <1>2, <1>3, <3>1
  <2> QED
    BY <2>1, <2>2
<1>5. Len(g) <= Len(z) /\ (Len(g) >= MaxTurns \/ Len(g) = Len(z))
  BY <1>1, ChatAssumption
<1>6. Ends(g, z)
  BY <1>1, <1>4, <1>5, EndsByEntries
<1> QED
  BY <1>6 DEF g, z

\* and the first one cut, to MaxTurns entries or more.
LEMMA EndsLatest ==
  ASSUME NEW h \in Seq(Entries), NEW s \in Seq(Entries), Ends(h, s), NEW n \in 0..Len(h),
         n >= MaxTurns \/ n = Len(h)
  PROVE  Ends(Latest(n, h), s)
<1> DEFINE g == Latest(n, h)
<1>1. g \in Seq(Entries) /\ Len(g) = n /\ \A i \in 1..n : g[i] = h[Len(h) - n + i]
  BY LatestIs
<1>2. /\ Len(h) \in Nat /\ Len(s) \in Nat /\ Len(h) <= Len(s)
      /\ Len(h) >= MaxTurns \/ Len(h) = Len(s)
  BY DEF Ends
<1>3. \A i \in 1..Len(h) : h[i] = s[Len(s) - Len(h) + i]
  BY EndsEntries
<1> HIDE DEF g
<1>4. ASSUME NEW i \in 1..n PROVE g[i] = s[Len(s) - n + i]
  <2>1. Len(h) - n + i \in 1..Len(h) /\ Len(s) - Len(h) + (Len(h) - n + i) = Len(s) - n + i
    BY <1>2
  <2> QED
    BY <1>1, <1>3, <2>1
<1>5. Len(g) <= Len(s) /\ (Len(g) >= MaxTurns \/ Len(g) = Len(s))
  BY <1>1, <1>2
<1>6. \A i \in 1..Len(g) : g[i] = s[Len(s) - Len(g) + i]
  BY <1>1, <1>4
<1>7. Ends(g, s)
  BY <1>1, <1>5, <1>6, EndsByEntries
<1> QED
  BY <1>7 DEF g

\* A history stays the end of what was said.
LEMMA EndStep ==
  ASSUME Orderly, Alone, HoldsCurrent, IsTheEnd, [Next]_vars
  PROVE  IsTheEnd'
<1>0. /\ StoreTypes /\ Orderly' /\ Turning /\ TurnTypes
      /\ MaxTurns \in Nat \ {0} /\ \A t \in Turns : user[t] \in Users
  BY OrderlyStep, TurnsMove, ChatAssumption DEF Orderly, TurnTypes, TypesAt
<1> SUFFICES ASSUME NEW v \in Users, redis' \/ calm'[v] PROVE Ends(History(v)', said'[v])
  BY DEF IsTheEnd, Ends
<1>1. (redis \/ calm[v]) /\ redis' = redis
  BY <1>0 DEF Turning
<1>2. Ends(History(v), said[v]) /\ History(v) \in Seq(Entries) /\ said[v] \in Seq(Entries)
  BY <1>0, <1>1, HistoryType DEF IsTheEnd, Ends, StoreTypes
<1>a. ASSUME HistorySame(v) PROVE Ends(History(v)', said'[v])
  BY <1>2, <1>a DEF HistorySame
<1>3. ASSUME NEW t \in Turns, NEW u \in Users, Records(t, u) PROVE Ends(History(v)', said'[v])
  <2>0. user[t] = u /\ pc[t] \in Adding /\ Entry(t) \in Entries
    BY <1>0, <1>3, EntryType DEF Records, Acts, Orderly
  <2>1. CASE v # u
    BY <1>3, <1>a, <2>1 DEF Records, Acts
  <2>2. CASE v = u
    <3>a. ASSUME Adds(t, u) PROVE Ends(History(v)', said'[v])
      BY <1>2, <2>0, <2>2, <3>a, EndsAppend DEF Adds
    <3>1. CASE Pushes(t, u)
      BY <3>1, <3>a DEF Pushes
    <3>2. CASE Misses(t, u) \/ Fetches(t, u) \/ Slices(t, u)
      BY <1>a, <2>2, <3>2 DEF Misses, Fetches, Slices
    <3>3. CASE Trims(t, u)
      <4>1. CASE History(u)' = Kept(History(u))
        <5>1. PICK n \in 0..Len(History(u)) :
                Kept(History(u)) = Latest(n, History(u)) /\ (n = MaxTurns \/ n = Len(History(u)))
          BY <1>2, <2>2, KeptIs
        <5>2. Ends(Kept(History(u)), said[u])
          BY <1>0, <1>2, <2>2, <5>1, EndsLatest
        <5> QED
          BY <2>2, <3>3, <4>1, <5>2 DEF Trims
      <4>2. CASE History(u)' = History(u)
        BY <1>2, <2>2, <3>3, <4>2 DEF Trims
      <4> QED
        BY <3>3, <4>1, <4>2 DEF Trims
    <3>4. CASE Appends(t, u)
      <4>1. ~redis /\ pc[t] = "append" /\ list[t] # 0
        BY <1>0, <3>4 DEF Appends, Orderly, Steady, TurnAt, Adding
      <4>2. list[t] = current[u]
        BY <1>1, <2>0, <2>2, <4>1 DEF HoldsCurrent
      <4> QED
        BY <3>4, <3>a, <4>2 DEF Appends
    <3>5. CASE Rebinds(t, u)
      <4>1. ~redis /\ pc[t] = "rebind" /\ list[t] # 0
        BY <1>0, <3>5 DEF Rebinds, Orderly, Steady, TurnAt, Adding
      <4>2. Len(History(u)) > MaxTurns /\ cut[t] = Latest(MaxTurns, History(u))
        BY <1>1, <2>0, <2>2, <4>1 DEF HoldsCurrent
      <4>3. Ends(cut[t], said[u])
        BY <1>0, <1>2, <2>2, <4>2, EndsLatest
      <4> QED
        BY <2>2, <3>5, <4>3 DEF Rebinds
    <3> QED
      BY <1>3, <3>1, <3>2, <3>3, <3>4, <3>5 DEF Records
  <2> QED
    BY <2>1, <2>2
<1>4. ASSUME NEW u \in Users, Wipes(u) PROVE Ends(History(v)', said'[v])
  <2>1. CASE HistorySame(v)
    BY <1>a, <2>1
  <2>2. CASE History(v)' = <<>> /\ said'[v] = <<>>
    <3>1. <<>> \in Seq(Entries) /\ Len(<<>>) = 0
      OBVIOUS
    <3> QED
      BY <2>2, EndsNothing
  <2> QED
    BY <1>4, <2>1, <2>2 DEF Wipes
<1>5. CASE Waits
  BY <1>5, <1>a DEF Waits
<1> QED
  BY <1>3, <1>4, <1>5, Recording

-----------------------------------------------------------------------------
(***************************************************************************)
(* Messages and their own answers alternate, in calm and without faults.   *)
(***************************************************************************)
\* The message of t is in the history, and its answer is not yet.
Asked(t) ==
  \/ pc[t] \in {"trim", "rebind"} /\ role[t] = "user"
  \/ pc[t] \in {"fetch", "append"} /\ role[t] = "assistant"

\* A message is followed by its answer, unless it is the last entry; an answer is
\* preceded by its message, unless it is the first one.
Pairs(h) ==
  \A i \in 1..Len(h) :
    IF h[i].role = "user" THEN i = Len(h) \/ Follows(h[i + 1], h[i])
    ELSE i = 1 \/ Follows(h[i], h[i - 1])

\* The last entry of h is the message of t.
Ending(h, t) == h # <<>> /\ h[Len(h)].turn = t /\ h[Len(h)].role = "user"

\* The history of u is of such pairs, and ends with a message exactly when a turn of
\* u has asked.
PairedAt(u) ==
  /\ Pairs(History(u))
  /\ \A t \in Turns : Ending(History(u), t) => user[t] = u /\ Asked(t)
  /\ \A t \in Turns : user[t] = u /\ Asked(t) => Ending(History(u), t)

\* This, in calm and without faults.
Paired == \A u \in Users : calm[u] /\ faults = 0 => PairedAt(u)

\* The last entry is of a turn.
LEMMA LastTurn ==
  ASSUME NEW h \in Seq(Entries), h # <<>>
  PROVE  h[Len(h)].turn \in Turns
<1>1. Len(h) \in 1..Len(h)
  OBVIOUS
<1>2. h[Len(h)] \in Entries
  BY <1>1
<1> QED
  BY <1>2 DEF Entries

\* The end of a list of pairs is one, with the same last entry.
LEMMA PairsLatest ==
  ASSUME NEW h \in Seq(Entries), Pairs(h), NEW n \in 1..Len(h)
  PROVE  /\ Pairs(Latest(n, h))
         /\ \A t : Ending(Latest(n, h), t) <=> Ending(h, t)
<1> DEFINE g == Latest(n, h)
<1>1. /\ g \in Seq(Entries) /\ Len(g) = n /\ Len(h) \in Nat /\ n <= Len(h)
      /\ \A i \in 1..n : g[i] = h[Len(h) - n + i]
  BY LatestIs
<1> HIDE DEF g
<1>2. ASSUME NEW i \in 1..n
      PROVE  IF g[i].role = "user" THEN i = n \/ Follows(g[i + 1], g[i])
             ELSE i = 1 \/ Follows(g[i], g[i - 1])
  <2> DEFINE j == Len(h) - n + i
  <2>1. j \in 1..Len(h) /\ (j = Len(h) <=> i = n) /\ (i # 1 => j # 1)
    BY <1>1
  <2>2. g[i] = h[j]
    BY <1>1
  <2>3. IF h[j].role = "user" THEN j = Len(h) \/ Follows(h[j + 1], h[j])
        ELSE j = 1 \/ Follows(h[j], h[j - 1])
    BY <2>1 DEF Pairs
  <2>4. i # n => g[i + 1] = h[j + 1]
    <3>1. i # n => i + 1 \in 1..n /\ Len(h) - n + (i + 1) = j + 1
      BY <1>1
    <3> QED
      BY <1>1, <3>1
  <2>5. i # 1 => g[i - 1] = h[j - 1]
    <3>1. i # 1 => i - 1 \in 1..n /\ Len(h) - n + (i - 1) = j - 1
      BY <1>1
    <3> QED
      BY <1>1, <3>1
  <2> HIDE DEF j
  <2> QED
    BY <2>1, <2>2, <2>3, <2>4, <2>5
<1>3. Pairs(g)
  BY <1>1, <1>2 DEF Pairs
<1>4. g # <<>> /\ h # <<>> /\ g[Len(g)] = h[Len(h)]
  <2>1. n \in 1..n /\ Len(h) - n + n = Len(h)
    BY <1>1
  <2> QED
    BY <1>1, <2>1
<1> QED
  BY <1>3, <1>4 DEF g, Ending

\* A message can be added to a list that does not end with one, and an answer to a
\* list that ends with its message.
LEMMA PairsAppend ==
  ASSUME NEW h \in Seq(Entries), Pairs(h), NEW e \in Entries,
         IF e.role = "user" THEN h = <<>> \/ h[Len(h)].role # "user"
         ELSE h # <<>> /\ Follows(e, h[Len(h)])
  PROVE  Pairs(Append(h, e)) /\ \A t : Ending(Append(h, e), t) <=> e.turn = t /\ e.role = "user"
<1> DEFINE g == Append(h, e)
<1>1. /\ Len(g) = Len(h) + 1 /\ Len(h) \in Nat /\ g # <<>>
      /\ \A i \in 1..Len(h) : g[i] = h[i]
      /\ g[Len(h) + 1] = e
  <2>1. Len(g) = Len(h) + 1 /\ Len(h) \in Nat /\ g[Len(h) + 1] = e
    OBVIOUS
  <2>2. \A i \in 1..Len(h) : g[i] = h[i]
    OBVIOUS
  <2>3. g # <<>>
    <3>1. Len(g) # Len(<<>>)
      BY <2>1
    <3> HIDE DEF g
    <3> QED
      BY <3>1
  <2> QED
    BY <2>1, <2>2, <2>3
<1>e. h = <<>> <=> Len(h) = 0
  OBVIOUS
<1> HIDE DEF g
<1>2. ASSUME NEW i \in 1..Len(g)
      PROVE  IF g[i].role = "user" THEN i = Len(g) \/ Follows(g[i + 1], g[i])
             ELSE i = 1 \/ Follows(g[i], g[i - 1])
  <2>1. CASE i = Len(g)
    <3>1. g[i] = e /\ (i # 1 => g[i - 1] = h[Len(h)])
      BY <1>1, <2>1
    <3> QED
      BY <1>1, <1>e, <2>1, <3>1
  <2>2. CASE i = Len(h)
    <3>1. g[i] = h[i] /\ g[i + 1] = e /\ i \in 1..Len(h) /\ (i # 1 => g[i - 1] = h[i - 1])
      BY <1>1, <2>2
    <3>2. IF h[i].role = "user" THEN i = Len(h) \/ Follows(h[i + 1], h[i])
          ELSE i = 1 \/ Follows(h[i], h[i - 1])
      BY <3>1 DEF Pairs
    <3> QED
      BY <1>1, <2>2, <3>1, <3>2
  <2>3. CASE i < Len(h)
    <3>1. /\ g[i] = h[i] /\ g[i + 1] = h[i + 1] /\ i \in 1..Len(h) /\ i # Len(h)
          /\ i # 1 => g[i - 1] = h[i - 1]
      BY <1>1, <2>3
    <3>2. IF h[i].role = "user" THEN i = Len(h) \/ Follows(h[i + 1], h[i])
          ELSE i = 1 \/ Follows(h[i], h[i - 1])
      BY <3>1 DEF Pairs
    <3> QED
      BY <3>1, <3>2
  <2> QED
    BY <1>1, <2>1, <2>2, <2>3
<1>3. Pairs(g)
  BY <1>2 DEF Pairs
<1>4. g[Len(g)] = e
  BY <1>1
<1> QED
  BY <1>1, <1>3, <1>4 DEF g, Ending

\* No step breaks the pairs.
LEMMA PairedStep ==
  ASSUME Orderly, Alone, HoldsCurrent, Paired, [Next]_vars
  PROVE  Paired'
<1>0. /\ StoreTypes /\ StoreTypes' /\ Orderly' /\ Turning /\ TurnTypes
      /\ MaxTurns \in Nat \ {0}
      /\ \A t \in Turns : user[t] \in Users /\ role[t] \in {"user", "assistant"}
  BY OrderlyStep, TurnsMove, ChatAssumption DEF Orderly, TurnTypes, TypesAt, Roles
<1> SUFFICES ASSUME NEW v \in Users, calm'[v], faults' = 0 PROVE PairedAt(v)'
  BY DEF Paired
<1>1. calm[v] /\ redis' = redis
  BY <1>0 DEF Turning
<1>2. faults = 0 => PairedAt(v)
  BY <1>1 DEF Paired
<1>3. faults \in Nat /\ faults' \in Nat /\ History(v) \in Seq(Entries)
  BY <1>0, HistoryType DEF Orderly, Bounds, EventsBounded
<1>a. ASSUME PairedAt(v), History(v)' = History(v),
             \A t \in Turns : (user'[t] = v /\ Asked(t)') <=> (user[t] = v /\ Asked(t))
      PROVE  PairedAt(v)'
  BY <1>a DEF PairedAt
<1>4. ASSUME NEW t \in Turns, NEW u \in Users, Records(t, u) PROVE PairedAt(v)'
  <2>0. /\ user[t] = u /\ pc[t] \in Adding /\ Entry(t) \in Entries /\ user' = user
        /\ \A r \in Turns \ {t} : Asked(r)' <=> Asked(r)
    BY <1>0, <1>4, EntryType DEF Records, Acts, Stays, Asked, Orderly
  <2>1. faults = 0 /\ faults' = faults
    BY <1>3, <1>4
    DEF Records, Pushes, Misses, Trims, Fetches, Appends, Slices, Rebinds
  <2>2. PairedAt(v)
    BY <1>2, <2>1
  <2>3. CASE v # u
    <3>1. History(v)' = History(v)
      BY <1>4, <2>3 DEF Records, Acts, HistorySame
    <3> QED
      BY <1>a, <2>0, <2>2, <2>3, <3>1
  <2>4. CASE v = u
    <3>0. \A r \in Turns : user[r] = v /\ Asked(r) => r = t
      <4>1. \A r \in Turns : Asked(r) => Working(r)
        BY DEF Asked, Working, Adding
      <4>2. Working(t)
        BY <2>0 DEF Working
      <4> QED
        BY <1>1, <2>0, <2>4, <4>1, <4>2 DEF Alone
    <3>a. ASSUME Adds(t, u), pc[t] \in {"fetch", "append"}, pc'[t] = "trim", role'[t] = role[t]
          PROVE  PairedAt(v)'
      <4>1. Entry(t).turn = t /\ Entry(t).role = role[t] /\ History(v)' = Append(History(v), Entry(t))
        BY <2>4, <3>a DEF Entry, Adds
      <4>2. IF role[t] = "user" THEN History(v) = <<>> \/ History(v)[Len(History(v))].role # "user"
            ELSE History(v) # <<>> /\ Follows(Entry(t), History(v)[Len(History(v))])
        <5>1. CASE role[t] = "user"
          <6>1. ~Asked(t)
            BY <3>a, <5>1 DEF Asked
          <6>2. \A r \in Turns : ~Ending(History(v), r)
            BY <2>2, <3>0, <6>1 DEF PairedAt
          <6>3. History(v) # <<>> => History(v)[Len(History(v))].turn \in Turns
            BY <1>3, LastTurn
          <6> QED
            BY <5>1, <6>2, <6>3 DEF Ending
        <5>2. CASE role[t] = "assistant"
          <6>1. Asked(t)
            BY <3>a, <5>2 DEF Asked
          <6>2. Ending(History(v), t)
            BY <2>0, <2>2, <2>4, <6>1 DEF PairedAt
          <6> QED
            BY <4>1, <5>2, <6>2 DEF Ending, Follows
        <5> QED
          BY <1>0, <5>1, <5>2
      <4>3. /\ Pairs(History(v)')
            /\ \A r : Ending(History(v)', r) <=> r = t /\ role[t] = "user"
        <5>1. Pairs(History(v))
          BY <2>2 DEF PairedAt
        <5> QED
          BY <1>3, <2>0, <4>1, <4>2, <5>1, PairsAppend
      <4>4. Asked(t)' <=> role[t] = "user"
        BY <3>a DEF Asked
      <4>5. \A r \in Turns : user'[r] = v /\ Asked(r)' <=> r = t /\ role[t] = "user"
        BY <2>0, <2>4, <3>0, <4>4
      <4> QED
        BY <4>3, <4>5 DEF PairedAt
    <3>b. ASSUME Finishes(t), pc[t] \in {"trim", "rebind"}, NEW n \in 0..Len(History(v)),
                 History(v)' = Latest(n, History(v)), n = 0 => History(v) = <<>>
          PROVE  PairedAt(v)'
      <4>1. Asked(t)' <=> Asked(t)
        BY <1>0, <3>b DEF Finishes, Asked
      <4>2. \A r \in Turns : user'[r] = v /\ Asked(r)' <=> user[r] = v /\ Asked(r)
        BY <2>0, <4>1
      <4>3. CASE n = 0
        <5>1. History(v)' = History(v)
          BY <3>b, <4>3, ChatAssumption DEF Latest
        <5> QED
          BY <1>a, <2>2, <4>2, <5>1
      <4>4. CASE n # 0
        <5>1. Pairs(History(v)') /\ \A r : Ending(History(v)', r) <=> Ending(History(v), r)
          BY <1>3, <2>2, <3>b, <4>4, PairsLatest DEF PairedAt
        <5> QED
          BY <2>2, <4>2, <5>1 DEF PairedAt
      <4> QED
        BY <4>3, <4>4
    <3>1. CASE Pushes(t, u)
      BY <1>3, <2>1, <3>1, <3>a DEF Pushes
    <3>2. ~Misses(t, u)
      BY <1>3, <2>1 DEF Misses
    <3>3. CASE Trims(t, u)
      <4>1. History(v)' = Kept(History(v)) /\ Finishes(t) /\ pc[t] = "trim"
        BY <1>3, <2>1, <2>4, <3>3 DEF Trims
      <4>2. PICK n \in 0..Len(History(v)) :
              Kept(History(v)) = Latest(n, History(v)) /\ (n = MaxTurns \/ n = Len(History(v)))
        BY <1>3, KeptIs
      <4>3. n = 0 => History(v) = <<>>
        BY <1>0, <1>3, <4>2
      <4> QED
        BY <3>b, <4>1, <4>2, <4>3
    <3>4. CASE Fetches(t, u)
      <4>1. Asked(t)' <=> Asked(t)
        BY <3>4 DEF Fetches, Asked
      <4> QED
        BY <1>a, <2>0, <2>2, <2>4, <3>4, <4>1 DEF Fetches, HistorySame
    <3>5. CASE Appends(t, u)
      <4>1. ~redis /\ pc[t] = "append" /\ list[t] # 0
        BY <1>0, <3>5 DEF Appends, Orderly, Steady, TurnAt, Adding
      <4>2. list[t] = current[u]
        BY <1>1, <2>0, <2>4, <4>1 DEF HoldsCurrent
      <4> QED
        BY <3>5, <3>a, <4>2 DEF Appends
    <3>6. CASE Slices(t, u)
      <4>1. Asked(t)' <=> Asked(t)
        BY <1>0, <3>6 DEF Slices, Finishes, Asked
      <4> QED
        BY <1>a, <2>0, <2>2, <2>4, <3>6, <4>1 DEF Slices, HistorySame
    <3>7. CASE Rebinds(t, u)
      <4>1. ~redis /\ pc[t] = "rebind" /\ list[t] # 0 /\ Finishes(t)
        BY <1>0, <3>7 DEF Rebinds, Orderly, Steady, TurnAt, Adding
      <4>2. Len(History(v)) > MaxTurns /\ cut[t] = Latest(MaxTurns, History(v))
        BY <1>1, <2>0, <2>4, <4>1 DEF HoldsCurrent
      <4>3. History(v)' = Latest(MaxTurns, History(v)) /\ MaxTurns \in 0..Len(History(v))
        BY <1>0, <1>3, <2>4, <3>7, <4>2 DEF Rebinds
      <4> QED
        BY <1>0, <3>b, <4>1, <4>3
    <3> QED
      BY <1>4, <3>1, <3>2, <3>3, <3>4, <3>5, <3>6, <3>7 DEF Records
  <2> QED
    BY <2>3, <2>4
<1>5. ASSUME NEW u \in Users, Wipes(u) PROVE PairedAt(v)'
  <2>1. \A t \in Turns : (user'[t] = v /\ Asked(t)') <=> (user[t] = v /\ Asked(t))
    BY <1>5 DEF Wipes, Stays, Asked
  <2>2. CASE HistorySame(v)
    <3>1. faults = 0
      BY <1>3, <1>5 DEF Wipes
    <3> QED
      BY <1>2, <1>a, <2>1, <2>2, <3>1 DEF HistorySame
  <2>3. CASE History(v)' = <<>> /\ Busy(v) = {}
    <3>1. \A t \in Turns : ~(user'[t] = v /\ Asked(t)')
      BY <2>1, <2>3 DEF Busy, Asked, Ended
    <3>2. Pairs(<<>>) /\ \A t : ~Ending(<<>>, t)
      BY DEF Pairs, Ending
    <3> QED
      BY <2>3, <3>1, <3>2 DEF PairedAt
  <2> QED
    BY <1>5, <2>2, <2>3 DEF Wipes
<1>6. CASE Waits
  <2>1. ASSUME NEW t \in Turns PROVE (user'[t] = v /\ Asked(t)') <=> (user[t] = v /\ Asked(t))
    <3>1. CASE pc[t] \in Adding
      BY <1>6, <3>1 DEF Waits, Stays, Asked
    <3>2. CASE pc[t] \notin Adding
      BY <1>6, <3>2 DEF Waits, Asked, Adding
    <3> QED
      BY <3>1, <3>2
  <2> QED
    BY <1>2, <1>6, <1>a, <2>1 DEF Waits, HistorySame
<1> QED
  BY <1>4, <1>5, <1>6, Recording

\* This is the alternation that TLC checks.
LEMMA PairedAlternates == Orderly /\ Paired => Alternates
<1> SUFFICES ASSUME Orderly, Paired, NEW u \in Users, calm[u], faults = 0,
                    NEW i \in 1..Len(History(u))
             PROVE  LET e == History(u)[i]
                    IN  IF e.role = "user"
                        THEN \/ i = Len(History(u)) /\ pc[e.turn] \notin Ended
                             \/ i < Len(History(u)) /\ Follows(History(u)[i + 1], e)
                        ELSE i = 1 \/ Follows(e, History(u)[i - 1])
  BY DEF Alternates
<1>1. PairedAt(u) /\ History(u) \in Seq(Entries)
  BY HistoryType DEF Orderly, Paired
<1>2. ASSUME i = Len(History(u)), History(u)[i].role = "user"
      PROVE  pc[History(u)[i].turn] \notin Ended
  <2>1. History(u) # <<>>
    OBVIOUS
  <2>0. History(u)[i].turn \in Turns
    BY <1>1, <1>2, <2>1, LastTurn
  <2>2. Asked(History(u)[i].turn)
    BY <1>1, <1>2, <2>0, <2>1 DEF PairedAt, Ending
  <2> QED
    BY <2>2 DEF Asked, Ended
<1>3. i < Len(History(u)) \/ i = Len(History(u))
  BY <1>1
<1> QED
  BY <1>1, <1>2, <1>3 DEF PairedAt, Pairs

-----------------------------------------------------------------------------
(***************************************************************************)
(* The second invariant, and the two theorems about histories.             *)
(***************************************************************************)
\* What the model is given, with what it rests on.
Sound == Orderly /\ Telling /\ EntriesSafe /\ SaidAll /\ Near /\ Alone /\ HoldsCurrent /\ IsTheEnd /\ Paired

\* It holds before the first turn,
LEMMA HistoryInit == Init => Sound
<1> SUFFICES ASSUME Init PROVE Sound
  OBVIOUS
<1>1. Orderly
  BY OrderlyInit
<1>2. \A u \in Users : History(u) = <<>> /\ said[u] = <<>>
  BY DEF Init, History
<1>3. Telling /\ EntriesSafe /\ SaidAll
  BY OnceInductive DEF Init, Once, EntriesSafe, Safe, SaidAll, SaidAt, Adding
<1>4. Near
  BY <1>2, OverFinite, ChatAssumption DEF Init, Near, NearAt, CutIsFull
<1>5. Alone /\ HoldsCurrent
  BY DEF Init, Alone, HoldsCurrent, Working, Adding
<1>6. IsTheEnd
  BY <1>2, EndsNothing DEF IsTheEnd, Ends
<1>7. Paired
  BY <1>2 DEF Init, Paired, PairedAt, Pairs, Ending, Asked
<1> QED
  BY <1>1, <1>3, <1>4, <1>5, <1>6, <1>7 DEF Sound

\* every step keeps it, and it implies the properties.
LEMMA HistoryInductive ==
  /\ Sound /\ [Next]_vars => Sound'
  /\ Sound => Remembers /\ HistoryIsSound /\ ToldIsRemembered
<1>1. Sound /\ [Next]_vars => Sound'
  BY OrderlyStep, TurnsMove, TellingStep, SafeStep, SaidStep, NearStep, AloneStep, HoldsStep,
     EndStep, PairedStep
  DEF Sound, Orderly
<1>2. Sound => HistoryIsSafe
  BY SafeHistoryOf DEF Sound, Orderly, HistoryIsSafe, Safe, Fit
<1>3. Sound => Remembers /\ HistoryIsSound
  BY <1>2, NearBounds, PairedAlternates DEF Sound, Remembers, HistoryIsSound
<1>4. ASSUME Sound PROVE ToldIsRemembered
  <2>1. SUFFICES ASSUME NEW t \in Turns, pc[t] = "done"
        PROVE  /\ ShowsOneAnswer(t)
               /\ \A i \in 1..Len(History(user[t])) :
                    History(user[t])[i].turn = t => History(user[t])[i].answer = Memory(told[t])
               /\ faults = 0 /\ clears = 0 /\ told[t] \notin {<<"busy">>, <<"refusal">>} =>
                    \A r \in Roles : Has(said[user[t]], t, r, Memory(told[t]))
    BY DEF ToldIsRemembered
  <2>2. /\ ShowsOneAnswer(t)
        /\ IF told[t] = <<"busy">> THEN reply[t] = "none" ELSE reply[t] = Memory(told[t])
        /\ told[t] \notin {<<"busy">>, <<"refusal">>} => reply[t] \in Answers
    BY <1>4, <2>1 DEF Sound, Telling, ToldAt
  <2>3. ASSUME NEW i \in 1..Len(History(user[t])), History(user[t])[i].turn = t
        PROVE  History(user[t])[i].answer = Memory(told[t])
    <3>1. user[t] \in Users
      BY <1>4 DEF Sound, Orderly, TurnTypes, TypesAt
    <3>2. Safe(History(user[t])) /\ History(user[t]) \in Seq(Entries)
      BY <1>4, <3>1, SafeHistoryOf, HistoryType DEF Sound, Orderly
    <3>3. History(user[t])[i] \in Entries /\ Fit(History(user[t])[i])
      BY <3>2 DEF Safe
    <3>4. History(user[t])[i].answer = reply[t] /\ History(user[t])[i].answer # "none"
      BY <2>1, <2>3, <3>3 DEF Fit, Entries, Replies
    <3> QED
      BY <2>2, <3>4
  <2>4. ASSUME faults = 0, clears = 0, told[t] \notin {<<"busy">>, <<"refusal">>}, NEW r \in Roles
        PROVE  Has(said[user[t]], t, r, Memory(told[t]))
    <3>1. SaidAt(t) /\ reply[t] \in Answers /\ reply[t] = Memory(told[t])
      BY <1>4, <2>2, <2>4 DEF Sound, SaidAll
    <3>2. Recorded(t, r)
      BY <2>1, <3>1 DEF SaidAt
    <3> QED
      BY <3>1, <3>2 DEF Recorded
  <2> QED
    BY <2>2, <2>3, <2>4
<1> QED
  BY <1>1, <1>3, <1>4

\* A history is the end of what was said, as much as is kept of it, and it is
\* bounded: in Redis whatever turns and faults there are, in memory as long as the
\* turns of a user do not meet (SessionService.add, RedisSessionStore.add).
THEOREM SessionsRemember == Spec => []Remembers
<1> QED
  BY HistoryInit, HistoryInductive, PTL DEF Spec

\* The history that the model is given alternates, as long as turns do not meet and
\* nothing fails; and no text of the model that failed check_output is ever in it,
\* on whatever path it came (chat_turn, _stream_chat_via_pipeline). Of the answers by
\* rule, which main.py:248 and :438 store unchecked, it says nothing.
THEOREM HistoryStaysSound == Spec => []HistoryIsSound
<1> QED
  BY HistoryInit, HistoryInductive, PTL DEF Spec

\* A finished turn showed one whole answer; no entry of the history says that it
\* answered anything but what was shown last, as check_output left it; and if nothing
\* failed or was cleared, its message and its answer were stored (chat_turn,
\* _stream_chat_via_pipeline, SessionService.add).
THEOREM AnswersAreRemembered == Spec => []ToldIsRemembered
<1> QED
  BY HistoryInit, HistoryInductive, PTL DEF Spec

=============================================================================
