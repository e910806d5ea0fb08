----------------------------- MODULE ToolDeskProofs -----------------------------
(***************************************************************************)
(* Theorems about the reminders, the nudges and the confirmations of       *)
(* ToolDesk, for any number of threads, tools, addresses, reminders, calls *)
(* and confirmation requests.                                              *)
(***************************************************************************)
EXTENDS ToolDesk, FiniteSetTheorems, SequenceTheorems, TLAPS

USE ProactivityAssumption, DeskAssumption

-----------------------------------------------------------------------------
(***************************************************************************)
(* Reminders and nudges: the inductive invariant.                          *)
(***************************************************************************)

Walking == {"check", "seek", "remove"}

ProTypes ==
  /\ calls \in 0 .. MaxCalls /\ clock \in 0 .. Horizon
  /\ quiet \in QuietHours /\ last \in -1 .. Horizon
  /\ due \in Seq(Nat) /\ Len(due) <= MaxReminders
  /\ reminders \in Seq(Nat) /\ Len(reminders) <= Len(due)
  /\ \A i \in 1 .. Len(reminders) : reminders[i] \in Ids
  /\ \A i, j \in 1 .. Len(reminders) : reminders[i] = reminders[j] => i = j
  /\ fired \subseteq Ids /\ cancelled \subseteq Ids
  /\ told \in [1 .. MaxReminders -> Nat] /\ nudges \in Seq(0 .. Horizon)

LocalTypes ==
  /\ pc \in [Threads -> Walking \cup {"idle", "nudge", "asked", "run"}]
  /\ now \in [Threads -> 0 .. Horizon] /\ asof \in [Threads -> 0 .. Horizon]
  /\ idx \in [Threads -> 0 .. MaxReminders + 1]
  /\ got \in [Threads -> SUBSET Ids] /\ target \in [Threads -> Nat]
  /\ moved \in [Threads -> BOOLEAN]
  /\ \A t \in Threads :
       /\ pc[t] \in Places(t)
       /\ got[t] # {} => pc[t] = "check"
       /\ (target[t] # 0) = (pc[t] \in {"seek", "remove"})
       /\ pc[t] \in Walking => idx[t] >= 1

Listed(r) == \E i \in 1 .. Len(reminders) : reminders[i] = r
Held(r) == \E t \in Threads : r \in got[t]

\* One thread at most holds a reminder, and then nobody was told of it.
Accounted ==
  /\ \A r \in 1 .. MaxReminders : r \notin Ids => told[r] = 0
  /\ \A r \in Ids :
       /\ r \in fired => told[r] = (IF Held(r) THEN 0 ELSE 1)
       /\ r \notin fired => told[r] = 0 /\ ~ Held(r) /\ (Listed(r) # (r \in cancelled))
       /\ \A s, t \in Threads : r \in got[s] /\ r \in got[t] => s = t
  /\ cancelled \cap fired = {}

\* What a check has walked over has fired, if it was due.
Walked ==
  \A t \in Threads : pc[t] = "check" /\ moved[t] = FALSE =>
    /\ idx[t] <= Len(reminders) + 1
    /\ \A i \in 1 .. Len(reminders) :
         i < idx[t] /\ due[reminders[i]] <= asof[t] => reminders[i] \in fired

\* The gate's stamp is not before the last nudge, and a nudge under way passed
\* the gate after it.
Spaced ==
  /\ NudgesAreSpaced
  /\ last <= clock /\ now[Job] <= clock
  /\ Len(nudges) > 0 => nudges[Len(nudges)] <= last
  /\ pc[Job] \in {"nudge", "check"} =>
       /\ ~ is_quiet_hours(now[Job])
       /\ Len(nudges) > 0 => now[Job] - nudges[Len(nudges)] >= Cooldown

RInv == ProTypes /\ LocalTypes /\ Accounted /\ Walked /\ Spaced

-----------------------------------------------------------------------------
(***************************************************************************)
(* What a step may leave alone.                                            *)
(***************************************************************************)

LEMMA SameAccount ==
  ASSUME Accounted, UNCHANGED <<reminders, due, fired, told, cancelled, got>>
  PROVE  Accounted'
BY DEF Accounted, Ids, Listed, Held

LEMMA SameWalk ==
  ASSUME Walked, UNCHANGED <<reminders, due, fired>>,
         \A t \in Threads : pc'[t] = "check" /\ moved'[t] = FALSE =>
           pc[t] = "check" /\ moved[t] = FALSE /\ idx'[t] = idx[t] /\ asof'[t] = asof[t]
  PROVE  Walked'
BY DEF Walked

LEMMA SameNudges ==
  ASSUME Spaced, UNCHANGED <<quiet, nudges, last, now>>, clock \in Nat, last \in Int,
         now[Job] \in Int, clock' \in {clock, clock + 1},
         pc'[Job] \in {"nudge", "check"} =>
           pc[Job] \in {"nudge", "check"}
  PROVE  Spaced'
BY DEF Spaced, NudgesAreSpaced, is_quiet_hours

\* A place is taken out of the list, and the rest keeps its order.
LEMMA WithoutFacts ==
  ASSUME ProTypes, NEW i \in 1 .. Len(reminders)
  PROVE  /\ Without(i) \in Seq(Nat) /\ Len(Without(i)) = Len(reminders) - 1
         /\ \A j \in 1 .. Len(Without(i)) :
              Without(i)[j] = IF j < i THEN reminders[j] ELSE reminders[j + 1]
<1>1. reminders \in Seq(Nat) /\ Len(reminders) \in Nat
  BY DEF ProTypes
<1> DEFINE front == SubSeq(reminders, 1, i - 1)
           rear == SubSeq(reminders, i + 1, Len(reminders))
<1>2. /\ front \in Seq(Nat) /\ Len(front) = i - 1
      /\ \A j \in 1 .. i - 1 : front[j] = reminders[j]
  BY <1>1, SubSeqProperties
<1>3. /\ rear \in Seq(Nat) /\ Len(rear) = Len(reminders) - i
      /\ \A j \in 1 .. Len(reminders) - i : rear[j] = reminders[i + j]
  <2>1. i + 1 \in Int /\ Len(reminders) \in Int /\ \A k \in i + 1 .. Len(reminders) : reminders[k] \in Nat
    BY <1>1
  <2> QED
    BY <1>1, <2>1, SubSeqProperties
<1>4. Without(i) = front \o rear
  BY DEF Without
<1> HIDE DEF front, rear
<1>5. front \o rear \in Seq(Nat) /\ Len(front \o rear) = Len(reminders) - 1
  BY <1>1, <1>2, <1>3, ConcatProperties
<1>6. ASSUME NEW j \in 1 .. Len(reminders) - 1
      PROVE  (front \o rear)[j] = IF j < i THEN reminders[j] ELSE reminders[j + 1]
  <2>1. CASE j < i
    BY <1>1, <1>2, <1>3, <2>1
  <2>2. CASE ~ (j < i)
    <3>1. j - (i - 1) \in 1 .. Len(reminders) - i /\ i + (j - (i - 1)) = j + 1
      BY <1>1, <2>2
    <3>2. (front \o rear)[j] = rear[j - (i - 1)]
      <4>1. /\ j \in 1 .. Len(front) + Len(rear) /\ ~ (j <= Len(front))
            /\ Len(front) = i - 1
        BY <1>1, <1>2, <1>3, <2>2
      <4>2. (front \o rear)[j] = IF j <= Len(front) THEN front[j] ELSE rear[j - Len(front)]
        BY <1>2, <1>3, <4>1, ConcatProperties, SMTT(30)
      <4> QED
        BY <4>1, <4>2
    <3> QED
      BY <1>3, <2>2, <3>1, <3>2
  <2> QED
    BY <2>1, <2>2
<1> QED
  BY <1>4, <1>5, <1>6

-----------------------------------------------------------------------------
LEMMA InitReminders == DeskInit => RInv
<1> SUFFICES ASSUME DeskInit PROVE RInv
  OBVIOUS
<1> USE DEF DeskInit, ProInit
<1>1. ProTypes
  BY DEF ProTypes, Ids, Never
<1>2. moved \in [Threads -> BOOLEAN]
  BY Zenon
<1>3. LocalTypes
  BY <1>2 DEF LocalTypes, Walking, Places
<1>4. Accounted
  BY DEF Accounted, Ids
<1>5. Walked
  BY DEF Walked
<1>6. Spaced
  BY DEF Spaced, NudgesAreSpaced, Threads, Never
<1> QED
  BY <1>1, <1>3, <1>4, <1>5, <1>6 DEF RInv

-----------------------------------------------------------------------------
(***************************************************************************)
(* Steps that leave the reminders alone.                                   *)
(***************************************************************************)

\* The registry's steps move a thread, and that is all.
LEMMA DeskStep ==
  ASSUME RInv, NEW t \in Calls, Ask(t) \/ Pend(t) \/ Confirm(t) \/ Run(t)
  PROVE  RInv'
<1> USE DEF clockVars, listVars, historyVars
<1>1. /\ UNCHANGED <<clock, quiet, last, reminders, due, fired, now, asof, idx, got, target,
                     told, cancelled, nudges, moved>>
      /\ calls' = calls \/ (calls < MaxCalls /\ calls' = calls + 1)
  BY Zenon DEF Ask, Pend, Confirm, Run, Called
<1>2. /\ pc[t] \in {"idle", "asked", "run"}
      /\ \E place \in {"idle", "asked", "run"} : pc' = [pc EXCEPT ![t] = place]
  BY Zenon DEF Ask, Pend, Confirm, Run, At
<1>3. /\ t # Job /\ t \in Threads /\ pc' \in [Threads -> Walking \cup {"idle", "nudge", "asked", "run"}]
      /\ pc'[t] \in {"idle", "asked", "run"}
      /\ \A s \in Threads : s # t => pc'[s] = pc[s]
  BY <1>2 DEF RInv, LocalTypes, Threads
<1>4. ProTypes'
  <2>1. calls' \in 0 .. MaxCalls
    BY <1>1 DEF RInv, ProTypes
  <2> QED
    BY <1>1, <2>1 DEF RInv, ProTypes, Ids
<1>5. LocalTypes'
  BY <1>1, <1>2, <1>3 DEF RInv, LocalTypes, Ids, Places, Walking
<1>6. Accounted'
  BY <1>1, SameAccount DEF RInv
<1>7. Walked'
  BY <1>1, <1>3, SameWalk DEF RInv
<1>8. Spaced'
  <2>1. clock \in Nat /\ last \in Int /\ now[Job] \in Int
    BY DEF RInv, ProTypes, LocalTypes, Threads
  <2> QED
    <3>1. /\ Spaced /\ clock' = clock /\ pc'[Job] = pc[Job]
          /\ UNCHANGED <<quiet, nudges, last, now>>
      BY <1>1, <1>3 DEF RInv, Threads
    <3> QED
      BY <2>1, <3>1, SameNudges
<1> QED
  BY <1>4, <1>5, <1>6, <1>7, <1>8 DEF RInv

LEMMA TickStep ==
  ASSUME RInv, Tick
  PROVE  RInv'
<1> USE DEF listVars, localVars, historyVars
<1>1. /\ clock < Horizon /\ clock' = clock + 1
      /\ UNCHANGED <<calls, quiet, last, reminders, due, fired, pc, now, asof, idx, got, target,
                     told, cancelled, nudges, moved>>
  BY DEF Tick
<1>2. ProTypes'
  BY <1>1 DEF RInv, ProTypes, Ids
<1>3. LocalTypes'
  BY <1>1 DEF RInv, LocalTypes, Ids
<1>4. Accounted' /\ Walked'
  BY <1>1, SameAccount, SameWalk DEF RInv
<1>5. Spaced'
  <2>1. clock \in Nat /\ last \in Int /\ now[Job] \in Int
    BY DEF RInv, ProTypes, LocalTypes, Threads
  <2> QED
    BY <1>1, <2>1, SameNudges DEF RInv
<1> QED
  BY <1>2, <1>3, <1>4, <1>5 DEF RInv

LEMMA MarkSentStep ==
  ASSUME RInv, MarkSent
  PROVE  RInv'
<1> USE DEF clockVars, listVars, localVars, historyVars
<1>1. /\ last' = clock /\ calls < MaxCalls /\ calls' = calls + 1
      /\ UNCHANGED <<clock, quiet, reminders, due, fired, pc, now, asof, idx, got, target,
                     told, cancelled, nudges, moved>>
  BY DEF MarkSent, Called
<1>2. ProTypes'
  BY <1>1 DEF RInv, ProTypes, Ids
<1>3. LocalTypes'
  BY <1>1 DEF RInv, LocalTypes, Ids
<1>4. Accounted' /\ Walked'
  BY <1>1, SameAccount, SameWalk DEF RInv
<1>5. Spaced'
  <2>1. /\ clock \in Nat /\ last \in Int /\ nudges \in Seq(Nat)
        /\ now[Job] <= clock /\ last <= clock
        /\ Len(nudges) > 0 => nudges[Len(nudges)] <= last
    <3>1. now[Job] <= clock /\ last <= clock /\ (Len(nudges) > 0 => nudges[Len(nudges)] <= last)
      BY DEF RInv, Spaced
    <3>2. clock \in Nat /\ last \in Int /\ nudges \in Seq(Nat)
      BY DEF RInv, ProTypes
    <3> QED
      BY <3>1, <3>2
  <2>2. Len(nudges) > 0 => nudges[Len(nudges)] <= clock
    BY <2>1
  <2> QED
    BY <1>1, <2>1, <2>2 DEF RInv, Spaced, NudgesAreSpaced, is_quiet_hours
<1> QED
  BY <1>2, <1>3, <1>4, <1>5 DEF RInv

-----------------------------------------------------------------------------
(***************************************************************************)
(* Steps of the endpoints that do not walk the list.                       *)
(***************************************************************************)

LEMMA AddReminderStep ==
  ASSUME RInv, AddReminder
  PROVE  RInv'
<1> USE DEF clockVars, localVars, historyVars
<1>1. /\ Len(due) < MaxReminders /\ calls < MaxCalls /\ calls' = calls + 1
      /\ UNCHANGED <<clock, quiet, last, fired, pc, now, asof, idx, got, target,
                     told, cancelled, nudges, moved>>
  BY DEF AddReminder, Called
<1>2. PICK d \in Delays : due' = Append(due, clock + d)
  BY DEF AddReminder
<1>3. reminders' = Append(reminders, Len(due) + 1)
  BY DEF AddReminder
<1>4. /\ due \in Seq(Nat) /\ reminders \in Seq(Nat) /\ clock + d \in Nat /\ Len(due) + 1 \in Nat
      /\ Len(reminders) <= Len(due) /\ Len(due) \in Nat /\ Len(reminders) \in Nat
  BY DEF RInv, ProTypes
<1>5. /\ due' \in Seq(Nat) /\ Len(due') = Len(due) + 1
      /\ \A i \in 1 .. Len(due) : due'[i] = due[i]
  BY <1>2, <1>4
<1>6. /\ reminders' \in Seq(Nat) /\ Len(reminders') = Len(reminders) + 1
      /\ \A i \in 1 .. Len(reminders) : reminders'[i] = reminders[i]
      /\ reminders'[Len(reminders) + 1] = Len(due) + 1
  BY <1>3, <1>4
<1>7. /\ Ids = 1 .. Len(due) /\ Ids' = 1 .. Len(due) + 1
      /\ \A i \in 1 .. Len(reminders) : reminders[i] \in Ids
      /\ Len(due) + 1 \notin Ids /\ Ids' = Ids \cup {Len(due) + 1}
  BY <1>4, <1>5 DEF Ids, RInv, ProTypes
<1> DEFINE n == Len(reminders)
           new == Len(due) + 1
<1>13. 1 .. Len(reminders') = (1 .. n) \cup {n + 1} /\ n + 1 \notin 1 .. n
  BY <1>4, <1>6
<1>14. \A i \in 1 .. n : reminders'[i] = reminders[i] /\ reminders[i] \in Ids /\ reminders[i] # new
  BY <1>6, <1>7
<1>15. reminders'[n + 1] = new
  BY <1>6
<1> HIDE DEF n, new
<1>8. ProTypes'
  <2>1. \A i \in 1 .. Len(reminders') : reminders'[i] \in Ids'
    BY <1>7, <1>13, <1>14, <1>15 DEF new
  <2>2. \A i, j \in 1 .. Len(reminders') : reminders'[i] = reminders'[j] => i = j
    <3>1. \A i, j \in 1 .. n : reminders[i] = reminders[j] => i = j
      BY DEF RInv, ProTypes, n
    <3> QED
      BY <1>13, <1>14, <1>15, <3>1
  <2>3. fired' \subseteq Ids' /\ cancelled' \subseteq Ids'
    BY <1>1, <1>7 DEF RInv, ProTypes
  <2>4. calls' \in 0 .. MaxCalls
    BY <1>1 DEF RInv, ProTypes
  <2>5. Len(due') <= MaxReminders /\ Len(reminders') <= Len(due')
    BY <1>1, <1>4, <1>5, <1>6
  <2> QED
    BY <1>1, <1>5, <1>6, <2>1, <2>2, <2>3, <2>4, <2>5 DEF RInv, ProTypes
<1>9. LocalTypes'
  BY <1>1, <1>7 DEF RInv, LocalTypes
<1>10. Accounted'
  <2>1. \A r : Held(r)' <=> Held(r)
    BY <1>1 DEF Held
  <2>2. ASSUME NEW r \in Ids PROVE Listed(r)' = Listed(r)
    <3>1. Listed(r)' = \E i \in 1 .. Len(reminders') : reminders'[i] = r
      BY DEF Listed
    <3>2. Listed(r) = \E i \in 1 .. n : reminders[i] = r
      BY DEF Listed, n
    <3>3. r # new
      BY <1>7, <2>2 DEF new
    <3> QED
      BY <1>13, <1>14, <1>15, <3>1, <3>2, <3>3
  <2>3. \E i \in 1 .. Len(reminders') : reminders'[i] = new
    BY <1>13, <1>15
  <2>4. /\ new \in 1 .. MaxReminders /\ told[new] = 0
        /\ new \notin fired /\ new \notin cancelled
        /\ ~ Held(new) /\ \A t \in Threads : new \notin got[t]
    <3>1. new \in 1 .. MaxReminders /\ new \notin Ids
      BY <1>1, <1>4, <1>7 DEF new
    <3>2. fired \subseteq Ids /\ cancelled \subseteq Ids /\ \A t \in Threads : got[t] \subseteq Ids
      BY DEF RInv, ProTypes, LocalTypes
    <3> QED
      BY <3>1, <3>2 DEF RInv, Accounted, Held
  <2>5. ASSUME NEW r \in Ids'
        PROVE  /\ r \in fired => told[r] = (IF Held(r) THEN 0 ELSE 1)
               /\ r \notin fired => told[r] = 0 /\ ~ Held(r) /\ (Listed(r)' # (r \in cancelled))
               /\ \A s, t \in Threads : r \in got[s] /\ r \in got[t] => s = t
    <3>1. CASE r \in Ids
      <4>1. /\ r \in fired => told[r] = (IF Held(r) THEN 0 ELSE 1)
            /\ r \notin fired => told[r] = 0 /\ ~ Held(r) /\ (Listed(r) # (r \in cancelled))
            /\ \A s, t \in Threads : r \in got[s] /\ r \in got[t] => s = t
        BY <3>1, Zenon DEF RInv, Accounted
      <4>2. Listed(r)' = Listed(r)
        BY <2>2, <3>1
      <4> QED
        BY <4>1, <4>2
    <3>2. CASE r = new
      <4>1. Listed(r)' = TRUE
        BY <2>3, <3>2 DEF Listed
      <4>2. /\ told[r] = 0 /\ r \notin fired /\ r \notin cancelled
            /\ ~ Held(r) /\ \A t \in Threads : r \notin got[t]
        BY <2>4, <3>2
      <4> QED
        BY <4>1, <4>2
    <3> QED
      BY <1>7, <3>1, <3>2 DEF new
  <2> QED
    BY <1>1, <1>7, <2>1, <2>5 DEF RInv, Accounted, Held
<1>11. Walked'
  <2> SUFFICES ASSUME NEW t \in Threads, pc[t] = "check", moved[t] = FALSE
               PROVE  /\ idx[t] <= Len(reminders') + 1
                      /\ \A i \in 1 .. Len(reminders') :
                           i < idx[t] /\ due'[reminders'[i]] <= asof[t] => reminders'[i] \in fired
    BY <1>1 DEF Walked
  <2>1. /\ idx[t] <= n + 1 /\ idx[t] \in Nat /\ n \in Nat
        /\ \A i \in 1 .. n : i < idx[t] /\ due[reminders[i]] <= asof[t] => reminders[i] \in fired
    BY <1>4 DEF RInv, Walked, LocalTypes, n
  <2>2. \A i \in 1 .. n : due'[reminders'[i]] = due[reminders[i]]
    BY <1>5, <1>7, <1>14
  <2>3. idx[t] <= Len(reminders') + 1
    BY <1>6, <2>1 DEF n
  <2>4. ~ (n + 1 < idx[t])
    BY <2>1
  <2> QED
    BY <1>13, <1>14, <2>1, <2>2, <2>3, <2>4
<1>12. Spaced'
  <2>1. clock \in Nat /\ last \in Int /\ now[Job] \in Int
    BY DEF RInv, ProTypes, LocalTypes, Threads
  <2> QED
    BY <1>1, <2>1, SameNudges DEF RInv
<1> QED
  BY <1>8, <1>9, <1>10, <1>11, <1>12 DEF RInv

\* A thread that goes elsewhere leaves the others where they are.
LEMMA GotoFacts ==
  ASSUME LocalTypes, NEW t \in Threads,
         NEW at \in Walking \cup {"idle", "nudge"}, Goto(t, at)
  PROVE  /\ pc' \in [Threads -> Walking \cup {"idle", "nudge", "asked", "run"}]
         /\ idx' \in [Threads -> 0 .. MaxReminders + 1]
         /\ pc'[t] = at /\ idx'[t] = (IF at = "idle" THEN 0 ELSE 1)
         /\ \A s \in Threads : s # t => pc'[s] = pc[s] /\ idx'[s] = idx[s]
BY DEF LocalTypes, Goto, Walking

\* A nudge's stamp is a time.
LEMMA Times ==
  ASSUME RInv
  PROVE  clock \in Nat /\ last \in Int /\ now[Job] \in Int
BY DEF RInv, ProTypes, LocalTypes, Threads

LEMMA CancelStartStep ==
  ASSUME RInv, NEW t \in Calls, CancelStart(t)
  PROVE  RInv'
<1> USE DEF clockVars, listVars, historyVars
<1>1. /\ pc[t] = "idle" /\ calls < MaxCalls /\ calls' = calls + 1 /\ Goto(t, "seek")
      /\ UNCHANGED <<clock, quiet, last, reminders, due, fired, now, asof, got,
                     told, cancelled, nudges, moved>>
  BY DEF CancelStart, Called
<1>2. PICK r \in Ids : target' = [target EXCEPT ![t] = r]
  BY DEF CancelStart
<1>3. /\ t # Job /\ t \in Threads /\ r \in Nat /\ r # 0
  BY DEF Threads, Ids
<1>4. /\ pc' \in [Threads -> Walking \cup {"idle", "nudge", "asked", "run"}]
      /\ idx' \in [Threads -> 0 .. MaxReminders + 1]
      /\ pc'[t] = "seek" /\ idx'[t] = 1
      /\ \A s \in Threads : s # t => pc'[s] = pc[s] /\ idx'[s] = idx[s]
  BY <1>1, <1>3, GotoFacts DEF RInv, Walking
<1>5. ProTypes'
  <2>1. calls' \in 0 .. MaxCalls
    BY <1>1 DEF RInv, ProTypes
  <2> QED
    BY <1>1, <2>1 DEF RInv, ProTypes, Ids
<1>6. LocalTypes'
  <2>1. /\ target' \in [Threads -> Nat] /\ target'[t] = r
        /\ \A s \in Threads : s # t => target'[s] = target[s]
    BY <1>2, <1>3 DEF RInv, LocalTypes
  <2>2. got[t] = {} /\ "seek" \in Places(t)
    BY <1>1, <1>3 DEF RInv, LocalTypes, Places
  <2>3. /\ pc'[t] \in Places(t) /\ got[t] = {} /\ target'[t] # 0 /\ pc'[t] \in {"seek", "remove"}
        /\ idx'[t] >= 1
    BY <1>3, <1>4, <2>1, <2>2
  <2>4. \A s \in Threads :
           /\ pc'[s] \in Places(s)
           /\ got[s] # {} => pc'[s] = "check"
           /\ (target'[s] # 0) = (pc'[s] \in {"seek", "remove"})
           /\ pc'[s] \in Walking => idx'[s] >= 1
    <3> TAKE s \in Threads
    <3>1. CASE s = t
      BY <2>3, <3>1
    <3>2. CASE s # t
      BY <1>4, <2>1, <3>2 DEF RInv, LocalTypes
    <3> QED
      BY <3>1, <3>2
  <2> QED
    BY <1>1, <1>4, <2>1, <2>4 DEF RInv, LocalTypes, Ids, Places
<1>7. Accounted' /\ Walked'
  BY <1>1, <1>3, <1>4, SameAccount, SameWalk DEF RInv
<1>8. Spaced'
  <2>1. pc'[Job] = pc[Job]
    BY <1>3, <1>4 DEF Threads
  <2> QED
    BY <1>1, <2>1, Times, SameNudges DEF RInv
<1> QED
  BY <1>5, <1>6, <1>7, <1>8 DEF RInv

LEMMA CancelFailsStep ==
  ASSUME RInv, NEW t \in Calls, CancelFails(t)
  PROVE  RInv'
<1> USE DEF clockVars, listVars, historyVars
<1>1. /\ pc[t] \in {"seek", "remove"} /\ Goto(t, "idle") /\ target' = [target EXCEPT ![t] = 0]
      /\ UNCHANGED <<calls, clock, quiet, last, reminders, due, fired, now, asof, got,
                     told, cancelled, nudges, moved>>
  BY DEF CancelFails, CancelDone
<1>3. /\ t # Job /\ t \in Threads
  BY DEF Threads
<1>4. /\ pc' \in [Threads -> Walking \cup {"idle", "nudge", "asked", "run"}]
      /\ idx' \in [Threads -> 0 .. MaxReminders + 1]
      /\ pc'[t] = "idle"
      /\ \A s \in Threads : s # t => pc'[s] = pc[s] /\ idx'[s] = idx[s]
  BY <1>1, <1>3, GotoFacts DEF RInv
<1>5. ProTypes'
  BY <1>1 DEF RInv, ProTypes, Ids
<1>6. LocalTypes'
  <2>1. target' \in [Threads -> Nat] /\ target'[t] = 0 /\ \A s \in Threads : s # t => target'[s] = target[s]
    BY <1>1, <1>3 DEF RInv, LocalTypes
  <2> QED
    BY <1>1, <1>3, <1>4, <2>1 DEF RInv, LocalTypes, Ids, Places, Walking
<1>7. Accounted' /\ Walked'
  BY <1>1, <1>3, <1>4, SameAccount, SameWalk DEF RInv
<1>8. Spaced'
  <2>1. pc'[Job] = pc[Job]
    BY <1>3, <1>4 DEF Threads
  <2> QED
    BY <1>1, <2>1, Times, SameNudges DEF RInv
<1> QED
  BY <1>5, <1>6, <1>7, <1>8 DEF RInv

\* A loop takes its next turn.
LEMMA NextTurn ==
  ASSUME RInv, NEW t \in Threads, idx[t] <= Len(reminders), idx' = [idx EXCEPT ![t] = @ + 1]
  PROVE  /\ idx' \in [Threads -> 0 .. MaxReminders + 1]
         /\ idx'[t] = idx[t] + 1 /\ \A s \in Threads : s # t => idx'[s] = idx[s]
<1>1. Len(reminders) \in Nat /\ Len(reminders) <= MaxReminders /\ idx[t] \in Nat
  BY DEF RInv, ProTypes, LocalTypes
<1>2. idx[t] + 1 \in 0 .. MaxReminders + 1
  BY <1>1
<1> QED
  BY <1>2 DEF RInv, LocalTypes

\* A thread that seeks its reminder, in the list or to remove it.
LEMMA SeekTurn ==
  ASSUME RInv, NEW t \in Calls, pc[t] \in {"seek", "remove"}, idx[t] <= Len(reminders),
         \/ idx' = [idx EXCEPT ![t] = @ + 1] /\ pc' = pc
         \/ Goto(t, "remove"),
         UNCHANGED <<calls, clock, quiet, last, reminders, due, fired, now, asof, got, target,
                     told, cancelled, nudges, moved>>
  PROVE  RInv'
<1>1. t # Job /\ t \in Threads /\ idx[t] \in Nat
  BY DEF Threads, RInv, LocalTypes
<1>2. /\ pc' \in [Threads -> Walking \cup {"idle", "nudge", "asked", "run"}]
      /\ idx' \in [Threads -> 0 .. MaxReminders + 1]
      /\ pc'[t] \in {"seek", "remove"} /\ idx'[t] >= 1
      /\ \A s \in Threads : s # t => pc'[s] = pc[s] /\ idx'[s] = idx[s]
  <2>1. CASE idx' = [idx EXCEPT ![t] = @ + 1] /\ pc' = pc
    <3>1. idx[t] >= 1
      BY <1>1 DEF RInv, LocalTypes, Walking
    <3>2. /\ idx' \in [Threads -> 0 .. MaxReminders + 1]
          /\ idx'[t] = idx[t] + 1 /\ \A s \in Threads : s # t => idx'[s] = idx[s]
      BY <1>1, <2>1, NextTurn
    <3>3. /\ pc' \in [Threads -> Walking \cup {"idle", "nudge", "asked", "run"}]
          /\ pc'[t] \in {"seek", "remove"} /\ \A s \in Threads : pc'[s] = pc[s]
      BY <2>1 DEF RInv, LocalTypes
    <3> QED
      BY <1>1, <3>1, <3>2, <3>3
  <2>2. CASE Goto(t, "remove")
    BY <1>1, <2>2, GotoFacts DEF RInv, Walking
  <2> QED
    BY <2>1, <2>2
<1>3. ProTypes'
  BY DEF RInv, ProTypes, Ids
<1>4. LocalTypes'
  BY <1>1, <1>2, SMTT(30) DEF RInv, LocalTypes, Ids, Places, Walking
<1>5. Accounted' /\ Walked'
  BY <1>1, <1>2, SameAccount, SameWalk DEF RInv
<1>6. Spaced'
  <2>1. pc'[Job] = pc[Job]
    BY <1>1, <1>2 DEF Threads
  <2> QED
    BY <2>1, Times, SameNudges DEF RInv
<1> QED
  BY <1>3, <1>4, <1>5, <1>6 DEF RInv

LEMMA SeekStep ==
  ASSUME RInv, NEW t \in Calls, Seek(t)
  PROVE  RInv'
BY SeekTurn DEF Seek, clockVars, listVars, historyVars

-----------------------------------------------------------------------------
(***************************************************************************)
(* The walk of check_due, and list.remove.                                 *)
(***************************************************************************)

LEMMA CheckStartStep ==
  ASSUME RInv, NEW t \in Threads, CheckStart(t)
  PROVE  RInv'
<1> USE DEF clockVars, listVars, historyVars
<1>1. /\ pc[t] = IF t = Job THEN "nudge" ELSE "idle"
      /\ Goto(t, "check") /\ asof' = [asof EXCEPT ![t] = clock]
      /\ UNCHANGED <<clock, quiet, last, reminders, due, fired, now, got, target,
                     told, cancelled, nudges, moved>>
      /\ calls' = calls \/ (calls < MaxCalls /\ calls' = calls + 1)
  BY Zenon DEF CheckStart, Called
<1>2. /\ pc' \in [Threads -> Walking \cup {"idle", "nudge", "asked", "run"}]
      /\ idx' \in [Threads -> 0 .. MaxReminders + 1]
      /\ pc'[t] = "check" /\ idx'[t] = 1
      /\ \A s \in Threads : s # t => pc'[s] = pc[s] /\ idx'[s] = idx[s]
  BY <1>1, GotoFacts DEF RInv, Walking
<1>3. /\ asof' \in [Threads -> 0 .. Horizon]
      /\ \A s \in Threads : s # t => asof'[s] = asof[s]
  <2>1. clock \in 0 .. Horizon /\ asof \in [Threads -> 0 .. Horizon]
    BY DEF RInv, ProTypes, LocalTypes
  <2> QED
    BY <1>1, <2>1
<1>4. ProTypes'
  <2>1. calls' \in 0 .. MaxCalls
    BY <1>1 DEF RInv, ProTypes
  <2> QED
    BY <1>1, <2>1 DEF RInv, ProTypes, Ids
<1>5. LocalTypes'
  <2>1. /\ pc'[t] \in Places(t) /\ target[t] = 0 /\ idx'[t] >= 1
    BY <1>1, <1>2 DEF RInv, LocalTypes, Places
  <2>2. \A s \in Threads :
           /\ pc'[s] \in Places(s)
           /\ got[s] # {} => pc'[s] = "check"
           /\ (target[s] # 0) = (pc'[s] \in {"seek", "remove"})
           /\ pc'[s] \in Walking => idx'[s] >= 1
    <3> TAKE s \in Threads
    <3>1. CASE s = t
      BY <1>2, <2>1, <3>1
    <3>2. CASE s # t
      BY <1>2, <3>2 DEF RInv, LocalTypes
    <3> QED
      BY <3>1, <3>2
  <2> QED
    BY <1>1, <1>2, <1>3, <2>2 DEF RInv, LocalTypes, Ids, Places
<1>6. Accounted'
  BY <1>1, SameAccount DEF RInv
<1>7. Walked'
  <2> SUFFICES ASSUME NEW s \in Threads, pc'[s] = "check", moved[s] = FALSE
               PROVE  /\ idx'[s] <= Len(reminders) + 1
                      /\ \A i \in 1 .. Len(reminders) :
                           i < idx'[s] /\ due[reminders[i]] <= asof'[s] => reminders[i] \in fired
    BY <1>1 DEF Walked
  <2>1. CASE s = t
    <3>1. Len(reminders) \in Nat
      BY DEF RInv, ProTypes
    <3> QED
      BY <1>2, <2>1, <3>1
  <2>2. CASE s # t
    BY <1>2, <1>3, <2>2 DEF RInv, Walked
  <2> QED
    BY <2>1, <2>2
<1>8. Spaced'
  <2>1. pc'[Job] \in {"nudge", "check"} => pc[Job] \in {"nudge", "check"}
    BY <1>1, <1>2 DEF Threads
  <2> QED
    BY <1>1, <2>1, Times, SameNudges DEF RInv
<1> QED
  BY <1>4, <1>5, <1>6, <1>7, <1>8 DEF RInv

LEMMA VisitStep ==
  ASSUME RInv, NEW t \in Threads, Visit(t)
  PROVE  RInv'
<1> USE DEF clockVars, listVars, historyVars
<1>0. pc[t] = "check" /\ t \in Threads /\ idx[t] <= Len(reminders)
  BY DEF Visit
<1>3. Len(reminders) \in Nat /\ idx[t] \in 1 .. Len(reminders) /\ reminders[idx[t]] \in Ids
  <2>1. idx[t] \in Nat /\ idx[t] >= 1
    BY <1>0 DEF RInv, LocalTypes, Walking
  <2>2. Len(reminders) \in Nat /\ idx[t] \in 1 .. Len(reminders)
    BY <1>0, <2>1 DEF RInv, ProTypes
  <2> QED
    BY <2>2 DEF RInv, ProTypes
<1>10. PICK r \in Ids : r = reminders[idx[t]]
  BY <1>3
<1>1. /\ pc[t] = "check" /\ idx[t] <= Len(reminders) /\ idx' = [idx EXCEPT ![t] = @ + 1]
      /\ UNCHANGED <<calls, clock, quiet, last, reminders, due, pc, now, asof, target,
                     told, cancelled, nudges, moved>>
      /\ IF r \notin fired /\ due[r] <= asof[t]
         THEN fired' = fired \cup {r} /\ got' = [got EXCEPT ![t] = @ \cup {r}]
         ELSE UNCHANGED <<fired, got>>
  BY <1>10 DEF Visit
<1>2. /\ idx' \in [Threads -> 0 .. MaxReminders + 1]
      /\ idx'[t] = idx[t] + 1 /\ \A s \in Threads : s # t => idx'[s] = idx[s]
  BY <1>1, NextTurn
<1>4. /\ fired \subseteq fired' /\ fired' \subseteq Ids /\ got' \in [Threads -> SUBSET Ids]
      /\ \A s \in Threads : s # t => got'[s] = got[s]
  <2>1. fired \subseteq Ids /\ got \in [Threads -> SUBSET Ids]
    BY DEF RInv, ProTypes, LocalTypes
  <2> QED
    BY <1>1, <2>1
<1>5. ProTypes'
  BY <1>1, <1>4 DEF RInv, ProTypes, Ids
<1>6. LocalTypes'
  <2>1. \A s \in Threads : pc[s] \in Walking => idx'[s] >= 1
    <3>1. \A s \in Threads : pc[s] \in Walking => idx[s] >= 1
      BY DEF RInv, LocalTypes
    <3>2. idx'[t] >= 1
      BY <1>2, <1>3
    <3> QED
      BY <1>2, <3>1, <3>2
  <2>2. \A s \in Threads : got'[s] # {} => pc[s] = "check"
    BY <1>1, <1>4 DEF RInv, LocalTypes
  <2> QED
    BY <1>1, <1>2, <1>4, <2>1, <2>2 DEF RInv, LocalTypes, Ids, Places
<1>7. Accounted'
  <2>1. CASE r \notin fired /\ due[r] <= asof[t]
    <3>1. fired' = fired \cup {r} /\ got'[t] = got[t] \cup {r} /\ r \notin fired
      BY <1>1, <2>1 DEF RInv, LocalTypes
    <3>2. told[r] = 0 /\ ~ Held(r) /\ r \notin cancelled
      <4>1. Listed(r)
        BY <1>3, <1>10 DEF Listed
      <4> QED
        BY <2>1, <4>1 DEF RInv, Accounted, Listed
    <3>3. Held(r)' /\ \A s \in Threads : r \in got'[s] => s = t
      BY <1>4, <3>1, <3>2 DEF Held
    <3>4. ASSUME NEW q \in Ids, q # r
          PROVE  Held(q)' = Held(q) /\ (q \in fired' <=> q \in fired)
                 /\ \A s \in Threads : q \in got'[s] <=> q \in got[s]
      <4>1. \A s \in Threads : q \in got'[s] <=> q \in got[s]
        BY <1>4, <3>1, <3>4
      <4> QED
        BY <3>1, <3>4, <4>1 DEF Held
    <3>5. \A q : Listed(q)' = Listed(q)
      BY <1>1 DEF Listed
    <3>6. ASSUME NEW q \in Ids
          PROVE  /\ q \in fired' => told[q] = (IF Held(q)' THEN 0 ELSE 1)
                 /\ q \notin fired' => told[q] = 0 /\ ~ Held(q)' /\ (Listed(q)' # (q \in cancelled))
                 /\ \A s, u \in Threads : q \in got'[s] /\ q \in got'[u] => s = u
      <4>1. CASE q = r
        BY <3>1, <3>2, <3>3, <4>1
      <4>2. CASE q # r
        <5>1. /\ q \in fired => told[q] = (IF Held(q) THEN 0 ELSE 1)
              /\ q \notin fired => told[q] = 0 /\ ~ Held(q) /\ (Listed(q) # (q \in cancelled))
              /\ \A s, u \in Threads : q \in got[s] /\ q \in got[u] => s = u
          BY Zenon DEF RInv, Accounted
        <5>2. Held(q)' = Held(q) /\ Listed(q)' = Listed(q) /\ (q \in fired' <=> q \in fired)
          BY <3>4, <3>5, <4>2
        <5>3. \A s \in Threads : q \in got'[s] <=> q \in got[s]
          BY <3>4, <4>2
        <5> QED
          BY <5>1, <5>2, <5>3
      <4> QED
        BY <4>1, <4>2
    <3>7. cancelled \cap fired' = {}
      BY <3>1, <3>2 DEF RInv, Accounted
    <3>8. Ids' = Ids
      BY <1>1 DEF Ids
    <3>9. \A q \in 1 .. MaxReminders : q \notin Ids => told[q] = 0
      BY DEF RInv, Accounted
    <3> QED
      BY <1>1, <3>6, <3>7, <3>8, <3>9 DEF Accounted
  <2>2. CASE ~ (r \notin fired /\ due[r] <= asof[t])
    BY <1>1, <2>2, SameAccount DEF RInv
  <2> QED
    BY <2>1, <2>2
<1>8. Walked'
  <2> SUFFICES ASSUME NEW s \in Threads, pc[s] = "check", moved[s] = FALSE
               PROVE  /\ idx'[s] <= Len(reminders) + 1
                      /\ \A i \in 1 .. Len(reminders) :
                           i < idx'[s] /\ due[reminders[i]] <= asof[s] => reminders[i] \in fired'
    BY <1>1 DEF Walked
  <2>1. /\ idx[s] <= Len(reminders) + 1
        /\ \A i \in 1 .. Len(reminders) :
             i < idx[s] /\ due[reminders[i]] <= asof[s] => reminders[i] \in fired
    BY DEF RInv, Walked
  <2>2. CASE s = t
    <3>1. due[reminders[idx[t]]] <= asof[t] => reminders[idx[t]] \in fired'
      BY <1>1, <1>4, <1>10
    <3>2. \A i \in 1 .. Len(reminders) : i < idx'[s] => i < idx[s] \/ i = idx[t]
      BY <1>2, <1>3, <2>2
    <3>3. idx'[s] <= Len(reminders) + 1
      BY <1>1, <1>2, <1>3, <2>2
    <3> QED
      BY <1>4, <2>1, <2>2, <3>1, <3>2, <3>3
  <2>3. CASE s # t
    BY <1>2, <1>4, <2>1, <2>3
  <2> QED
    BY <2>2, <2>3
<1>9. Spaced'
  BY <1>1, Times, SameNudges DEF RInv
<1> QED
  BY <1>5, <1>6, <1>7, <1>8, <1>9 DEF RInv

LEMMA RemoveStep ==
  ASSUME RInv, NEW t \in Calls, Remove(t)
  PROVE  RInv'
<1> USE DEF clockVars, listVars, historyVars
<1> DEFINE i == idx[t]
           x == reminders[i]
<1>1. /\ pc[t] = "remove" /\ i <= Len(reminders)
      /\ UNCHANGED <<calls, clock, quiet, last, due, fired, now, asof, got, told, nudges>>
  BY DEF Remove
<1>2. CASE x # target[t]
  BY <1>1, <1>2, SeekTurn DEF Remove
<1>3. CASE x = target[t]
  <2>1. /\ reminders' = Without(i) /\ moved' = Disturbed
        /\ cancelled' = cancelled \cup ({x} \ fired)
        /\ Goto(t, "idle") /\ target' = [target EXCEPT ![t] = 0]
    BY <1>3 DEF Remove, CancelDone
  <2>2. t # Job /\ t \in Threads /\ Len(reminders) \in Nat /\ i \in 1 .. Len(reminders)
    <3>1. t # Job /\ t \in Threads
      BY DEF Threads
    <3>2. i \in Nat /\ i >= 1
      BY <1>1, <3>1 DEF RInv, LocalTypes, Walking
    <3> QED
      BY <1>1, <3>1, <3>2 DEF RInv, ProTypes
  <2> DEFINE n == Len(reminders)
  <2>3. /\ reminders' \in Seq(Nat) /\ Len(reminders') = n - 1
        /\ \A j \in 1 .. n - 1 : reminders'[j] = IF j < i THEN reminders[j] ELSE reminders[j + 1]
    BY <2>1, <2>2, WithoutFacts DEF RInv
  <2>4. /\ \A j \in 1 .. n : reminders[j] \in Ids
        /\ \A j, k \in 1 .. n : reminders[j] = reminders[k] => j = k
        /\ x \in Ids
    BY <2>2 DEF RInv, ProTypes
  <2>5. /\ pc' \in [Threads -> Walking \cup {"idle", "nudge", "asked", "run"}]
        /\ idx' \in [Threads -> 0 .. MaxReminders + 1]
        /\ pc'[t] = "idle"
        /\ \A s \in Threads : s # t => pc'[s] = pc[s] /\ idx'[s] = idx[s]
    BY <2>1, <2>2, GotoFacts DEF RInv
  <2> HIDE DEF n, i, x
  <2>6. Ids' = Ids
    BY <1>1 DEF Ids
  <2>7. ProTypes'
    <3>1. \A j \in 1 .. Len(reminders') : reminders'[j] \in Ids'
      BY <2>2, <2>3, <2>4, <2>6 DEF n
    <3>2. ASSUME NEW j \in 1 .. Len(reminders'), NEW k \in 1 .. Len(reminders'),
                 reminders'[j] = reminders'[k]
          PROVE  j = k
      <4> DEFINE place(m) == IF m < i THEN m ELSE m + 1
      <4>1. /\ place(j) \in 1 .. n /\ reminders'[j] = reminders[place(j)]
            /\ place(k) \in 1 .. n /\ reminders'[k] = reminders[place(k)]
        <5>1. j \in 1 .. n - 1 /\ k \in 1 .. n - 1 /\ n \in Nat /\ i \in Nat
          BY <2>2, <2>3 DEF n
        <5>2. place(j) \in 1 .. n /\ place(k) \in 1 .. n
          BY <5>1
        <5>3. reminders'[j] = reminders[place(j)]
          BY <2>3, <5>1
        <5>4. reminders'[k] = reminders[place(k)]
          BY <2>3, <5>1
        <5> QED
          BY <5>2, <5>3, <5>4
      <4>2. place(j) = place(k)
        BY <2>4, <3>2, <4>1
      <4>3. j \in Nat /\ k \in Nat /\ i \in Nat
        BY <2>2, <2>3
      <4> QED
        BY <4>2, <4>3
    <3>3. cancelled' \subseteq Ids' /\ fired' \subseteq Ids'
      BY <1>1, <2>1, <2>4, <2>6 DEF RInv, ProTypes
    <3>4. Len(reminders') <= Len(due')
      BY <1>1, <2>2, <2>3 DEF RInv, ProTypes, n
    <3> QED
      BY <1>1, <2>3, <3>1, <3>2, <3>3, <3>4 DEF RInv, ProTypes
  <2>8. LocalTypes'
    <3>1. /\ target' \in [Threads -> Nat] /\ target'[t] = 0
          /\ \A s \in Threads : s # t => target'[s] = target[s]
      BY <2>1, <2>2 DEF RInv, LocalTypes
    <3>2. moved' \in [Threads -> BOOLEAN]
      BY <2>1, Zenon DEF RInv, LocalTypes, Disturbed
    <3>3. got[t] = {} /\ "idle" \in Places(t)
      BY <1>1, <2>2 DEF RInv, LocalTypes, Places
    <3>4. \A s \in Threads :
             /\ pc'[s] \in Places(s)
             /\ got[s] # {} => pc'[s] = "check"
             /\ (target'[s] # 0) = (pc'[s] \in {"seek", "remove"})
             /\ pc'[s] \in Walking => idx'[s] >= 1
      <4> TAKE s \in Threads
      <4>1. CASE s = t
        BY <2>5, <3>1, <3>3, <4>1 DEF Walking
      <4>2. CASE s # t
        BY <2>5, <3>1, <4>2 DEF RInv, LocalTypes
      <4> QED
        BY <4>1, <4>2
    <3> QED
      BY <1>1, <2>5, <2>6, <3>1, <3>2, <3>4 DEF RInv, LocalTypes, Places
  <2>9. Accounted'
    <3>1. ASSUME NEW q \in Ids PROVE Listed(q)' = (Listed(q) /\ q # x)
      <4>1. Listed(q)' => Listed(q) /\ q # x
        <5> SUFFICES ASSUME NEW j \in 1 .. Len(reminders'), reminders'[j] = q
                     PROVE  Listed(q) /\ q # x
          BY DEF Listed
        <5> DEFINE k == IF j < i THEN j ELSE j + 1
        <5>1. k \in 1 .. n /\ k # i /\ reminders[k] = q
          BY <2>2, <2>3 DEF n
        <5> HIDE DEF k
        <5> QED
          BY <2>2, <2>4, <5>1 DEF Listed, x, n
      <4>2. Listed(q) /\ q # x => Listed(q)'
        <5> SUFFICES ASSUME NEW j \in 1 .. n, reminders[j] = q, q # x
                     PROVE  \E k \in 1 .. Len(reminders') : reminders'[k] = q
          BY DEF Listed, n
        <5> DEFINE k == IF j < i THEN j ELSE j - 1
        <5>1. j # i
          BY DEF x
        <5>2. k \in 1 .. n - 1 /\ reminders'[k] = q
          BY <2>2, <2>3, <5>1 DEF n
        <5> QED
          BY <2>3, <5>2
      <4> QED
        BY <4>1, <4>2 DEF Listed
    <3>2. \A q : Held(q)' = Held(q)
      BY <1>1 DEF Held
    <3>3. Listed(x)
      BY <2>2 DEF Listed, x, n
    <3>4. ASSUME NEW q \in Ids
          PROVE  /\ q \in fired => told[q] = (IF Held(q) THEN 0 ELSE 1)
                 /\ q \notin fired => told[q] = 0 /\ ~ Held(q) /\ (Listed(q)' # (q \in cancelled'))
                 /\ \A s, u \in Threads : q \in got[s] /\ q \in got[u] => s = u
      <4>1. /\ q \in fired => told[q] = (IF Held(q) THEN 0 ELSE 1)
            /\ q \notin fired => told[q] = 0 /\ ~ Held(q) /\ (Listed(q) # (q \in cancelled))
            /\ \A s, u \in Threads : q \in got[s] /\ q \in got[u] => s = u
        BY Zenon DEF RInv, Accounted
      <4>2. CASE q = x
        <5>1. Listed(q)' = FALSE
          BY <3>1, <4>2
        <5> QED
          BY <2>1, <4>1, <4>2, <5>1
      <4>3. CASE q # x
        <5>1. Listed(q)' = Listed(q)
          BY <3>1, <4>3 DEF Listed
        <5>2. q \in cancelled' <=> q \in cancelled
          BY <2>1, <4>3
        <5> QED
          BY <4>1, <5>1, <5>2
      <4> QED
        BY <4>2, <4>3
    <3>5. cancelled' \cap fired = {}
      BY <2>1 DEF RInv, Accounted
    <3>6. \A q \in 1 .. MaxReminders : q \notin Ids => told[q] = 0
      BY DEF RInv, Accounted
    <3> QED
      BY <1>1, <2>6, <3>2, <3>4, <3>5, <3>6 DEF Accounted
  <2>10. Walked'
    <3>1. \A s \in Threads : pc'[s] = "check" => pc[s] = "check"
      BY <2>2, <2>5
    <3>2. \A s \in Threads : pc[s] = "check" => moved'[s] = TRUE
      BY <2>1, Zenon DEF Disturbed
    <3> QED
      BY <3>1, <3>2 DEF Walked
  <2>11. Spaced'
    <3>1. pc'[Job] = pc[Job]
      BY <2>2, <2>5 DEF Threads
    <3> QED
      BY <1>1, <3>1, Times, SameNudges DEF RInv
  <2> QED
    BY <2>7, <2>8, <2>9, <2>10, <2>11 DEF RInv
<1> QED
  BY <1>2, <1>3

-----------------------------------------------------------------------------
(***************************************************************************)
(* The ends of a check, and the nudge.                                     *)
(***************************************************************************)

\* What the thread held has been delivered, and it starts over.
LEMMA DeliverFacts ==
  ASSUME RInv, NEW t \in Threads, pc[t] = "check", Deliver(t), now' \in [Threads -> 0 .. Horizon],
         told' = [r \in DOMAIN told |-> told[r] + IF r \in got[t] THEN 1 ELSE 0],
         UNCHANGED <<reminders, due, fired, target, cancelled>>
  PROVE  LocalTypes' /\ Accounted' /\ Walked' /\ told' \in [1 .. MaxReminders -> Nat]
         /\ pc'[t] = "idle" /\ \A s \in Threads : s # t => pc'[s] = pc[s]
<1> USE DEF Deliver
<1>1. /\ pc' \in [Threads -> Walking \cup {"idle", "nudge", "asked", "run"}]
      /\ idx' \in [Threads -> 0 .. MaxReminders + 1]
      /\ pc'[t] = "idle"
      /\ \A s \in Threads : s # t => pc'[s] = pc[s] /\ idx'[s] = idx[s]
  BY GotoFacts DEF RInv
<1>2. /\ asof' \in [Threads -> 0 .. Horizon]
      /\ \A s \in Threads : s # t => asof'[s] = asof[s]
  BY DEF RInv, LocalTypes
<1>3. /\ got' \in [Threads -> SUBSET Ids] /\ got'[t] = {}
      /\ \A s \in Threads : s # t => got'[s] = got[s]
  BY DEF RInv, LocalTypes
<1>4. moved' \in [Threads -> BOOLEAN] /\ \A s \in Threads : s # t => moved'[s] = moved[s]
  BY Zenon DEF RInv, LocalTypes
<1>5. Ids' = Ids
  BY DEF Ids
<1>6. target[t] = 0 /\ "idle" \in Places(t)
  BY DEF RInv, LocalTypes, Places
<1>7. /\ told' \in [1 .. MaxReminders -> Nat]
      /\ \A r \in 1 .. MaxReminders : told'[r] = told[r] + IF r \in got[t] THEN 1 ELSE 0
  <2>1. told \in [1 .. MaxReminders -> Nat]
    BY DEF RInv, ProTypes
  <2> QED
    BY <2>1
<1>8. LocalTypes'
  <2>1. \A s \in Threads :
           /\ pc'[s] \in Places(s)
           /\ got'[s] # {} => pc'[s] = "check"
           /\ (target[s] # 0) = (pc'[s] \in {"seek", "remove"})
           /\ pc'[s] \in Walking => idx'[s] >= 1
    <3> TAKE s \in Threads
    <3>1. CASE s = t
      BY <1>1, <1>3, <1>6, <3>1 DEF Walking
    <3>2. CASE s # t
      BY <1>1, <1>3, <3>2 DEF RInv, LocalTypes
    <3> QED
      BY <3>1, <3>2
  <2> QED
    BY <1>1, <1>2, <1>3, <1>4, <1>5, <2>1 DEF RInv, LocalTypes, Places
<1>9. Accounted'
  <2>1. \A q : Listed(q)' = Listed(q)
    BY DEF Listed
  <2>2. Ids \subseteq 1 .. MaxReminders
    BY DEF RInv, ProTypes, Ids
  <2>3. ASSUME NEW q \in Ids
        PROVE  /\ q \in fired => told'[q] = (IF Held(q)' THEN 0 ELSE 1)
               /\ q \notin fired => told'[q] = 0 /\ ~ Held(q)' /\ (Listed(q)' # (q \in cancelled))
               /\ \A s, u \in Threads : q \in got'[s] /\ q \in got'[u] => s = u
    <3>1. /\ q \in fired => told[q] = (IF Held(q) THEN 0 ELSE 1)
          /\ q \notin fired => told[q] = 0 /\ ~ Held(q) /\ (Listed(q) # (q \in cancelled))
          /\ \A s, u \in Threads : q \in got[s] /\ q \in got[u] => s = u
      BY Zenon DEF RInv, Accounted
    <3>2. told[q] \in Nat /\ told'[q] = told[q] + IF q \in got[t] THEN 1 ELSE 0
      BY <1>7, <2>2 DEF RInv, ProTypes
    <3>3. \A s, u \in Threads : q \in got'[s] /\ q \in got'[u] => s = u
      BY <1>3, <3>1
    <3>4. CASE q \in got[t]
      <4>1. Held(q) /\ q \in fired
        BY <3>1, <3>4 DEF Held
      <4>2. ~ Held(q)'
        BY <1>3, <3>1, <3>4 DEF Held
      <4> QED
        BY <3>1, <3>2, <3>3, <3>4, <4>1, <4>2
    <3>5. CASE q \notin got[t]
      <4>1. Held(q)' = Held(q)
        BY <1>3, <3>5 DEF Held
      <4>2. told'[q] = told[q]
        BY <3>2, <3>5
      <4> QED
        BY <2>1, <3>1, <3>3, <4>1, <4>2
    <3> QED
      BY <3>4, <3>5
  <2>4. \A q \in 1 .. MaxReminders : q \notin Ids => told'[q] = 0
    <3>1. \A q \in 1 .. MaxReminders : q \notin Ids => told[q] = 0 /\ q \notin got[t]
      BY DEF RInv, Accounted, LocalTypes
    <3> QED
      BY <1>7, <3>1
  <2> QED
    BY <1>5, <2>3, <2>4 DEF RInv, Accounted
<1>10. Walked'
  <2> SUFFICES ASSUME NEW s \in Threads, pc'[s] = "check", moved'[s] = FALSE
               PROVE  /\ idx'[s] <= Len(reminders) + 1
                      /\ \A i \in 1 .. Len(reminders) :
                           i < idx'[s] /\ due[reminders[i]] <= asof'[s] => reminders[i] \in fired
    BY DEF Walked
  <2>1. s # t
    BY <1>1
  <2> QED
    BY <1>1, <1>2, <1>4, <2>1 DEF RInv, Walked
<1> QED
  BY <1>1, <1>7, <1>8, <1>9, <1>10

LEMMA CheckEndStep ==
  ASSUME RInv, NEW t \in Threads, CheckEnd(t)
  PROVE  RInv'
<1> USE DEF clockVars, listVars
<1>1. /\ t \in Calls /\ pc[t] = "check" /\ Deliver(t)
      /\ told' = [r \in DOMAIN told |-> told[r] + IF r \in got[t] THEN 1 ELSE 0]
      /\ UNCHANGED <<calls, clock, quiet, last, reminders, due, fired, now, target, cancelled, nudges>>
  BY DEF CheckEnd
<1>2. LocalTypes' /\ Accounted' /\ Walked' /\ told' \in [1 .. MaxReminders -> Nat]
      /\ \A s \in Threads : s # t => pc'[s] = pc[s]
  <2>1. now' \in [Threads -> 0 .. Horizon]
    BY <1>1 DEF RInv, LocalTypes
  <2> QED
    BY <1>1, <2>1, DeliverFacts
<1>3. ProTypes'
  BY <1>1, <1>2 DEF RInv, ProTypes, Ids
<1>4. Spaced'
  <2>1. pc'[Job] = pc[Job]
    BY <1>1, <1>2 DEF Threads
  <2> QED
    BY <1>1, <2>1, Times, SameNudges DEF RInv
<1> QED
  BY <1>2, <1>3, <1>4 DEF RInv

LEMMA NudgeStartStep ==
  ASSUME RInv, NudgeStart
  PROVE  RInv'
<1> USE DEF clockVars, listVars, historyVars
<1>1. /\ pc[Job] = "idle" /\ can_send(clock) /\ now' = [now EXCEPT ![Job] = clock]
      /\ Goto(Job, "nudge")
      /\ UNCHANGED <<calls, clock, quiet, last, reminders, due, fired, asof, got, target,
                     told, cancelled, nudges, moved>>
  BY DEF NudgeStart
<1>2. /\ pc' \in [Threads -> Walking \cup {"idle", "nudge", "asked", "run"}]
      /\ idx' \in [Threads -> 0 .. MaxReminders + 1]
      /\ pc'[Job] = "nudge"
      /\ \A s \in Threads : s # Job => pc'[s] = pc[s] /\ idx'[s] = idx[s]
  BY <1>1, GotoFacts DEF RInv, Threads
<1>3. now' \in [Threads -> 0 .. Horizon] /\ now'[Job] = clock
  BY <1>1 DEF RInv, LocalTypes, ProTypes, Threads
<1>4. ProTypes'
  BY <1>1 DEF RInv, ProTypes, Ids
<1>5. LocalTypes'
  <2>1. target[Job] = 0 /\ got[Job] = {} /\ "nudge" \in Places(Job) /\ Job \in Threads
    BY <1>1 DEF RInv, LocalTypes, Places, Threads
  <2>2. \A s \in Threads :
           /\ pc'[s] \in Places(s)
           /\ got[s] # {} => pc'[s] = "check"
           /\ (target[s] # 0) = (pc'[s] \in {"seek", "remove"})
           /\ pc'[s] \in Walking => idx'[s] >= 1
    <3> TAKE s \in Threads
    <3>1. CASE s = Job
      BY <1>2, <2>1, <3>1 DEF Walking
    <3>2. CASE s # Job
      BY <1>2, <3>2 DEF RInv, LocalTypes
    <3> QED
      BY <3>1, <3>2
  <2> QED
    BY <1>1, <1>2, <1>3, <2>2 DEF RInv, LocalTypes, Ids, Places
<1>6. Accounted' /\ Walked'
  <2>1. \A s \in Threads : pc'[s] = "check" => s # Job
    BY <1>2
  <2> QED
    BY <1>1, <1>2, <2>1, SameAccount, SameWalk DEF RInv
<1>7. Spaced'
  <2>1. /\ clock \in Nat /\ last \in Int /\ nudges \in Seq(Nat) /\ last <= clock
        /\ Len(nudges) > 0 => nudges[Len(nudges)] <= last
    BY Times DEF RInv, ProTypes, Spaced
  <2>2. ~ is_quiet_hours(clock) /\ (last = -1 \/ clock - last >= Cooldown)
    BY <1>1 DEF can_send, Never
  <2>3. Len(nudges) > 0 => clock - nudges[Len(nudges)] >= Cooldown
    <3> SUFFICES ASSUME Len(nudges) > 0 PROVE clock - nudges[Len(nudges)] >= Cooldown
      OBVIOUS
    <3>1. nudges[Len(nudges)] \in Nat /\ nudges[Len(nudges)] <= last
      BY <2>1
    <3> QED
      BY <2>1, <2>2, <3>1
  <2> QED
    BY <1>1, <1>3, <2>1, <2>2, <2>3 DEF RInv, Spaced, NudgesAreSpaced, is_quiet_hours
<1> QED
  BY <1>4, <1>5, <1>6, <1>7 DEF RInv

LEMMA NudgeEmptyStep ==
  ASSUME RInv, NudgeEmpty
  PROVE  RInv'
<1> USE DEF clockVars, listVars, historyVars
<1>1. /\ pc[Job] = "check" /\ got[Job] = {} /\ Deliver(Job) /\ Job \in Threads
      /\ now' = [now EXCEPT ![Job] = 0]
      /\ UNCHANGED <<calls, clock, quiet, last, reminders, due, fired, target, told, cancelled, nudges>>
  BY DEF NudgeEmpty, Threads
<1>2. now' \in [Threads -> 0 .. Horizon] /\ now'[Job] = 0
  BY <1>1 DEF RInv, LocalTypes
<1>3. told' = [r \in DOMAIN told |-> told[r] + IF r \in got[Job] THEN 1 ELSE 0]
  <2>1. told \in [1 .. MaxReminders -> Nat]
    BY DEF RInv, ProTypes
  <2> QED
    BY <1>1, <2>1
<1>4. LocalTypes' /\ Accounted' /\ Walked' /\ pc'[Job] = "idle"
  BY <1>1, <1>2, <1>3, DeliverFacts
<1>5. ProTypes'
  BY <1>1 DEF RInv, ProTypes, Ids
<1>6. Spaced'
  BY <1>1, <1>2, <1>4, Times DEF RInv, Spaced, NudgesAreSpaced, is_quiet_hours
<1> QED
  BY <1>4, <1>5, <1>6 DEF RInv

LEMMA NudgeSentStep ==
  ASSUME RInv, NudgeSent
  PROVE  RInv'
<1> USE DEF clockVars, listVars
<1>1. /\ pc[Job] = "check" /\ Deliver(Job) /\ Job \in Threads
      /\ last' = now[Job] /\ nudges' = Append(nudges, now[Job])
      /\ told' = [r \in DOMAIN told |-> told[r] + IF r \in got[Job] THEN 1 ELSE 0]
      /\ now' = [now EXCEPT ![Job] = 0]
      /\ UNCHANGED <<calls, clock, quiet, reminders, due, fired, target, cancelled>>
  BY DEF NudgeSent, Threads
<1>2. now' \in [Threads -> 0 .. Horizon] /\ now'[Job] = 0
  BY <1>1 DEF RInv, LocalTypes
<1>3. LocalTypes' /\ Accounted' /\ Walked' /\ told' \in [1 .. MaxReminders -> Nat] /\ pc'[Job] = "idle"
  BY <1>1, <1>2, DeliverFacts
<1>4. /\ now[Job] \in 0 .. Horizon /\ nudges \in Seq(0 .. Horizon) /\ clock \in Nat
  BY <1>1 DEF RInv, ProTypes, LocalTypes
<1>5. /\ nudges' \in Seq(0 .. Horizon) /\ Len(nudges') = Len(nudges) + 1
      /\ \A i \in 1 .. Len(nudges) : nudges'[i] = nudges[i]
      /\ nudges'[Len(nudges) + 1] = now[Job]
  BY <1>1, <1>4, AppendProperties
<1>6. ProTypes'
  <2>1. last' \in -1 .. Horizon
    BY <1>1, <1>4
  <2> QED
    BY <1>1, <1>3, <1>5, <2>1 DEF RInv, ProTypes, Ids
<1>7. Spaced'
  <2> DEFINE n == Len(nudges)
  <2>1. n \in Nat /\ 1 .. Len(nudges') = 1 .. n \cup {n + 1}
    BY <1>4, <1>5
  <2>2. /\ \A i \in 1 .. n : ~ is_quiet_hours(nudges[i])
        /\ \A i \in 2 .. n : nudges[i] - nudges[i - 1] >= Cooldown
        /\ ~ is_quiet_hours(now[Job]) /\ now[Job] <= clock
        /\ n > 0 => now[Job] - nudges[n] >= Cooldown
    BY <1>1 DEF RInv, Spaced, NudgesAreSpaced
  <2>3. \A i \in 1 .. Len(nudges') : ~ is_quiet_hours(nudges'[i])
    BY <1>5, <2>1, <2>2
  <2>4. ASSUME NEW i \in 2 .. Len(nudges')
        PROVE  nudges'[i] - nudges'[i - 1] >= Cooldown
    <3>1. CASE i \in 2 .. n
      <4>1. i \in 1 .. n /\ i - 1 \in 1 .. n
        BY <2>1, <3>1
      <4> QED
        BY <1>5, <2>2, <3>1, <4>1
    <3>2. CASE i = n + 1
      <4>1. n > 0 /\ n \in 1 .. n /\ i - 1 = n
        BY <1>5, <2>1, <2>4, <3>2
      <4> QED
        BY <1>5, <2>2, <3>2, <4>1
    <3> QED
      BY <1>5, <2>1, <3>1, <3>2
  <2>5. /\ last' <= clock' /\ now'[Job] <= clock' /\ nudges'[Len(nudges')] <= last'
    BY <1>1, <1>2, <1>4, <1>5, <2>2
  <2>6. \A time : is_quiet_hours(time)' = is_quiet_hours(time)
    BY <1>1 DEF is_quiet_hours
  <2>7. NudgesAreSpaced'
    BY <1>1, <2>3, <2>4 DEF NudgesAreSpaced, is_quiet_hours
  <2> QED
    BY <1>3, <2>5, <2>7 DEF Spaced
<1> QED
  BY <1>3, <1>6, <1>7 DEF RInv

-----------------------------------------------------------------------------
LEMMA StepReminders == RInv /\ [DeskNext]_vars => RInv'
<1> SUFFICES ASSUME RInv, [DeskNext]_vars PROVE RInv'
  OBVIOUS
<1>1. CASE ProNext
  BY <1>1, TickStep, MarkSentStep, AddReminderStep, NudgeStartStep, NudgeEmptyStep, NudgeSentStep,
     CheckStartStep, VisitStep, CheckEndStep, CancelStartStep, SeekStep, RemoveStep, CancelFailsStep
  DEF ProNext
<1>2. CASE SetReminder
  BY <1>2, AddReminderStep DEF SetReminder
<1>3. CASE \E t \in Calls : Ask(t) \/ Pend(t) \/ Confirm(t) \/ Run(t)
  BY <1>3, DeskStep
<1>4. CASE UNCHANGED vars
  <2>1. /\ UNCHANGED <<calls, clock, quiet, last, reminders, due, fired, pc, now, asof, idx, got,
                       target, told, cancelled, nudges, moved>>
    BY <1>4 DEF vars, proVars
  <2>2. ProTypes'
    BY <2>1 DEF RInv, ProTypes, Ids
  <2>3. LocalTypes'
    BY <2>1 DEF RInv, LocalTypes, Ids, Places
  <2>4. Accounted' /\ Walked'
    BY <2>1, SameAccount, SameWalk DEF RInv
  <2>5. Spaced'
    BY <2>1, Times, SameNudges DEF RInv
  <2> QED
    BY <2>2, <2>3, <2>4, <2>5 DEF RInv
<1> QED
  BY <1>1, <1>2, <1>3, <1>4 DEF DeskNext

LEMMA RemindersInv == Spec => []RInv
BY InitReminders, StepReminders, PTL DEF Spec

\* Whichever threads set, check, cancel and nudge at once, however often: no
\* two nudges are nearer than the cooldown and none is stamped in quiet hours.
THEOREM CooldownHolds == Spec => []NudgesAreSpaced
<1>1. RInv => NudgesAreSpaced
  BY DEF RInv, Spaced
<1> QED
  BY <1>1, RemindersInv, PTL

\* However many threads check, cancel and nudge at once, no reminder is lost
\* or delivered twice, none that was cancelled reaches the user, and a check
\* misses nothing that was due.
THEOREM RemindersAreKept == Spec => []RemindersKept
<1>1. ASSUME RInv PROVE Conserved
  <2> SUFFICES ASSUME NEW r \in Ids
               PROVE  LET listed == \E i \in 1 .. Len(reminders) : reminders[i] = r
                          held == {t \in Threads : r \in got[t]}
                      IN  IF r \in fired THEN told[r] + Cardinality(held) = 1
                          ELSE told[r] = 0 /\ held = {} /\ (listed # (r \in cancelled))
    BY DEF Conserved
  <2> DEFINE held == {t \in Threads : r \in got[t]}
  <2>1. /\ r \in fired => told[r] = (IF Held(r) THEN 0 ELSE 1)
        /\ r \notin fired => told[r] = 0 /\ ~ Held(r) /\ (Listed(r) # (r \in cancelled))
        /\ \A s, t \in Threads : r \in got[s] /\ r \in got[t] => s = t
    BY <1>1, Zenon DEF RInv, Accounted
  <2>2. CASE Held(r)
    <3>1. PICK t \in Threads : held = {t}
      BY <2>1, <2>2 DEF Held
    <3>2. Cardinality(held) = 1
      BY <3>1, FS_Singleton
    <3>3. r \in fired
      BY <2>1, <2>2
    <3> QED
      BY <2>1, <2>2, <3>2, <3>3
  <2>3. CASE ~ Held(r)
    <3>1. held = {}
      BY <2>3 DEF Held
    <3>2. Cardinality(held) = 0
      BY <3>1, FS_EmptySet
    <3>3. CASE r \in fired
      BY <2>1, <2>3, <3>2, <3>3
    <3>4. CASE r \notin fired
      <4>1. (\E i \in 1 .. Len(reminders) : reminders[i] = r) # (r \in cancelled)
        BY <2>1, <3>4 DEF Listed
      <4> QED
        BY <2>1, <3>1, <3>4, <4>1
    <3> QED
      BY <3>3, <3>4
  <2> QED
    BY <2>2, <2>3
<1>2. ASSUME RInv PROVE CancelledStaysQuiet
  BY <1>2 DEF RInv, ProTypes, Accounted, CancelledStaysQuiet
<1>3. ASSUME RInv PROVE CheckIsComplete
  <2> SUFFICES ASSUME NEW t \in Threads, pc[t] = "check", idx[t] > Len(reminders), ~ moved[t],
                      NEW i \in 1 .. Len(reminders), due[reminders[i]] <= asof[t]
               PROVE  reminders[i] \in fired
    BY DEF CheckIsComplete
  <2>1. moved[t] = FALSE
    BY <1>3, Zenon DEF RInv, LocalTypes
  <2>2. i < idx[t]
    BY <1>3 DEF RInv, LocalTypes, ProTypes
  <2> QED
    BY <1>3, <2>1, <2>2 DEF RInv, Walked
<1>4. RInv => RemindersKept
  BY <1>1, <1>2, <1>3 DEF RemindersKept
<1> QED
  BY <1>4, RemindersInv, PTL

-----------------------------------------------------------------------------
(***************************************************************************)
(* Confirmations: the inductive invariant.                                 *)
(***************************************************************************)

DeskTypes ==
  /\ id \in Seq(ConfirmIds) /\ ran \in Seq(Nat) /\ Len(ran) = Len(id)
  /\ hand \in [Calls -> Nat] /\ meant \in [Calls -> Nat]
  /\ settled \subseteq Requests

\* What waits was asked for under its id, and was not taken yet.
Waiting ==
  /\ DOMAIN pending \subseteq ConfirmIds
  /\ \A c \in DOMAIN pending :
       pending[c] \in Requests /\ id[pending[c]] = c /\ pending[c] \notin settled

\* No two threads work on one request. The id of a request that is not in the
\* table yet is nobody else's: its params are alive.
InHand ==
  \A t \in Calls :
    /\ (hand[t] # 0) = (pc[t] \in {"asked", "run"})
    /\ hand[t] # 0 => hand[t] \in Requests
    /\ pc[t] = "asked" =>
         /\ hand[t] \notin settled /\ id[hand[t]] \notin DOMAIN pending
         /\ \A s \in Calls : s # t /\ pc[s] = "asked" => id[hand[s]] # id[hand[t]]
    /\ pc[t] = "run" =>
         /\ hand[t] \in settled /\ ran[hand[t]] = 0
         /\ \A s \in Calls : s # t /\ pc[s] = "run" => hand[s] # hand[t]
         /\ hand[t] # meant[t] => meant[t] \in settled

\* A request that was not taken is on its way to the table or in it.
Unsettled ==
  \A r \in Requests :
    /\ ran[r] <= 1
    /\ r \notin settled =>
         /\ ran[r] = 0
         /\ \/ \E t \in Calls : pc[t] = "asked" /\ hand[t] = r
            \/ id[r] \in DOMAIN pending /\ pending[id[r]] = r

CInv == DeskTypes /\ Waiting /\ InHand /\ Unsettled

-----------------------------------------------------------------------------
LEMMA InitConfirmations == DeskInit => CInv
<1> SUFFICES ASSUME DeskInit PROVE CInv
  OBVIOUS
<1>1. DeskTypes
  BY DEF DeskInit, DeskTypes, Requests
<1>2. DOMAIN pending = {}
  BY DEF DeskInit
<1>3. Waiting
  BY <1>2 DEF Waiting
<1>4. InHand
  <2>1. \A t \in Calls : hand[t] = 0 /\ pc[t] = "idle"
    BY DEF DeskInit, ProInit, Threads
  <2> QED
    BY <2>1 DEF InHand
<1>5. Requests = {}
  BY DEF DeskInit, Requests
<1>6. Unsettled
  BY <1>5 DEF Unsettled
<1> QED
  BY <1>1, <1>3, <1>4, <1>6 DEF CInv

\* A step that leaves the registry alone, and no thread at a request.
LEMMA SameDesk ==
  ASSUME CInv, UNCHANGED deskVars,
         \A t \in Calls : pc[t] \in {"asked", "run"} \/ pc'[t] \in {"asked", "run"} => pc'[t] = pc[t]
  PROVE  CInv'
<1>1. UNCHANGED <<pending, id, hand, meant, ran, settled>>
  BY DEF deskVars
<1>2. Requests' = Requests
  BY <1>1 DEF Requests
<1>3. DeskTypes'
  BY <1>1, <1>2 DEF CInv, DeskTypes
<1>4. Waiting'
  BY <1>1, <1>2 DEF CInv, Waiting
<1>5. InHand'
  <2> SUFFICES ASSUME NEW t \in Calls
               PROVE  /\ (hand[t] # 0) = (pc'[t] \in {"asked", "run"})
                      /\ hand[t] # 0 => hand[t] \in Requests
                      /\ pc'[t] = "asked" =>
                           /\ hand[t] \notin settled /\ id[hand[t]] \notin DOMAIN pending
                           /\ \A s \in Calls : s # t /\ pc'[s] = "asked" => id[hand[s]] # id[hand[t]]
                      /\ pc'[t] = "run" =>
                           /\ hand[t] \in settled /\ ran[hand[t]] = 0
                           /\ \A s \in Calls : s # t /\ pc'[s] = "run" => hand[s] # hand[t]
                           /\ hand[t] # meant[t] => meant[t] \in settled
    BY <1>1, <1>2 DEF InHand
  <2>1. \A s \in Calls : /\ pc'[s] = "asked" <=> pc[s] = "asked"
                         /\ pc'[s] = "run" <=> pc[s] = "run"
    OBVIOUS
  <2> QED
    BY <2>1 DEF CInv, InHand
<1>6. Unsettled'
  BY <1>1, <1>2 DEF CInv, Unsettled
<1> QED
  BY <1>3, <1>4, <1>5, <1>6 DEF CInv

-----------------------------------------------------------------------------
(***************************************************************************)
(* The registry's steps.                                                   *)
(***************************************************************************)

LEMMA AskStep ==
  ASSUME RInv, CInv, NEW t \in Calls, Ask(t)
  PROVE  CInv'
<1>1. PICK name \in External, a \in Addresses \ Live : id' = Append(id, <<name, a>>)
  BY DEF Ask
<1>2. PICK c \in ConfirmIds : c = <<name, a>>
  BY DEF ConfirmIds
<1>3. PICK n \in Nat : n = Len(id) + 1
  BY DEF CInv, DeskTypes
<1>4. /\ pc[t] = "idle" /\ pc' = [pc EXCEPT ![t] = "asked"]
      /\ hand' = [hand EXCEPT ![t] = n] /\ ran' = Append(ran, 0)
      /\ UNCHANGED <<pending, meant, settled>>
  BY <1>3 DEF Ask, At
<1>5. /\ id' \in Seq(ConfirmIds) /\ Len(id') = n /\ id'[n] = c
      /\ \A r \in Requests : id'[r] = id[r]
  BY <1>1, <1>2, <1>3, AppendProperties DEF CInv, DeskTypes, Requests
<1>6. /\ ran' \in Seq(Nat) /\ Len(ran') = n /\ ran'[n] = 0
      /\ \A r \in Requests : ran'[r] = ran[r]
  BY <1>3, <1>4, AppendProperties DEF CInv, DeskTypes, Requests
<1>7. Requests' = Requests \cup {n} /\ n \notin Requests /\ n # 0
  BY <1>3, <1>5 DEF CInv, DeskTypes, Requests
<1>8. /\ hand' \in [Calls -> Nat] /\ hand'[t] = n /\ hand[t] = 0
      /\ \A s \in Calls : s # t => hand'[s] = hand[s]
  BY <1>4 DEF CInv, DeskTypes, InHand
<1>9. pc'[t] = "asked" /\ \A s \in Calls : s # t => pc'[s] = pc[s]
  BY <1>4 DEF RInv, LocalTypes, Threads
<1>10. c \notin DOMAIN pending
  <2> SUFFICES ASSUME c \in DOMAIN pending PROVE FALSE
    OBVIOUS
  <2>1. id[pending[c]][2] \in Live
    BY DEF Live
  <2>2. id[pending[c]] = c
    BY DEF CInv, Waiting
  <2>3. c[2] = a
    BY <1>2
  <2> QED
    BY <2>1, <2>2, <2>3
<1>11. \A s \in Calls : hand[s] # 0 => id[hand[s]] # c
  <2> SUFFICES ASSUME NEW s \in Calls, hand[s] # 0, id[hand[s]] = c PROVE FALSE
    OBVIOUS
  <2>1. id[hand[s]][2] \in Live
    BY DEF Live
  <2>2. c[2] = a
    BY <1>2
  <2> QED
    BY <2>1, <2>2
<1>12. DeskTypes'
  BY <1>4, <1>5, <1>6, <1>7, <1>8 DEF CInv, DeskTypes
<1>13. Waiting'
  BY <1>4, <1>5, <1>7 DEF CInv, Waiting
<1>14. InHand'
  <2>1. n \notin settled
    BY <1>7 DEF CInv, DeskTypes
  <2>2. \A s \in Calls : hand[s] # 0 => hand[s] \in Requests /\ id'[hand[s]] = id[hand[s]]
                                        /\ ran'[hand[s]] = ran[hand[s]]
    BY <1>5, <1>6 DEF CInv, InHand
  <2>3. \A s \in Calls : pc[s] \in {"asked", "run"} => hand[s] # 0
    BY DEF CInv, InHand
  <2>4. \A s \in Calls : s # t /\ pc'[s] = "asked" => id'[hand'[s]] # c
    BY <1>8, <1>9, <1>11, <2>2, <2>3
  <2> SUFFICES ASSUME NEW u \in Calls
               PROVE  /\ (hand'[u] # 0) = (pc'[u] \in {"asked", "run"})
                      /\ hand'[u] # 0 => hand'[u] \in Requests'
                      /\ pc'[u] = "asked" =>
                           /\ hand'[u] \notin settled /\ id'[hand'[u]] \notin DOMAIN pending
                           /\ \A s \in Calls : s # u /\ pc'[s] = "asked" => id'[hand'[s]] # id'[hand'[u]]
                      /\ pc'[u] = "run" =>
                           /\ hand'[u] \in settled /\ ran'[hand'[u]] = 0
                           /\ \A s \in Calls : s # u /\ pc'[s] = "run" => hand'[s] # hand'[u]
                           /\ hand'[u] # meant[u] => meant[u] \in settled
    BY <1>4 DEF InHand
  <2>5. CASE u = t
    BY <1>5, <1>7, <1>8, <1>9, <1>10, <2>1, <2>4, <2>5
  <2>6. CASE u # t
    <3>1. hand'[u] = hand[u] /\ pc'[u] = pc[u]
      BY <1>8, <1>9, <2>6
    <3>2. /\ (hand[u] # 0) = (pc[u] \in {"asked", "run"})
          /\ pc[u] = "asked" =>
               /\ hand[u] \notin settled /\ id[hand[u]] \notin DOMAIN pending
               /\ \A s \in Calls : s # u /\ pc[s] = "asked" => id[hand[s]] # id[hand[u]]
          /\ pc[u] = "run" =>
               /\ hand[u] \in settled /\ ran[hand[u]] = 0
               /\ \A s \in Calls : s # u /\ pc[s] = "run" => hand[s] # hand[u]
               /\ hand[u] # meant[u] => meant[u] \in settled
      BY DEF CInv, InHand
    <3>3. ASSUME pc[u] = "asked", NEW s \in Calls, s # u, pc'[s] = "asked"
          PROVE  id'[hand'[s]] # id'[hand[u]]
      <4>1. id'[hand[u]] = id[hand[u]] /\ id[hand[u]] # c
        BY <1>11, <2>2, <2>3, <3>3
      <4>2. CASE s = t
        BY <1>5, <1>8, <4>1, <4>2
      <4>3. CASE s # t
        <5>1. pc[s] = "asked" /\ hand'[s] = hand[s]
          BY <1>8, <1>9, <3>3, <4>3
        <5> QED
          BY <2>2, <2>3, <3>2, <3>3, <4>1, <5>1
      <4> QED
        BY <4>2, <4>3
    <3>4. ASSUME pc[u] = "run", NEW s \in Calls, s # u, pc'[s] = "run"
          PROVE  hand'[s] # hand[u]
      BY <1>8, <1>9, <3>2, <3>4
    <3> QED
      BY <1>7, <2>2, <2>3, <3>1, <3>2, <3>3, <3>4
  <2> QED
    BY <2>5, <2>6
<1>15. Unsettled'
  <2> SUFFICES ASSUME NEW r \in Requests'
               PROVE  /\ ran'[r] <= 1
                      /\ r \notin settled =>
                           /\ ran'[r] = 0
                           /\ \/ \E s \in Calls : pc'[s] = "asked" /\ hand'[s] = r
                              \/ id'[r] \in DOMAIN pending /\ pending[id'[r]] = r
    BY <1>4 DEF Unsettled
  <2>1. CASE r = n
    BY <1>6, <1>8, <1>9, <2>1
  <2>2. CASE r \in Requests
    <3>1. \A s \in Calls : pc[s] = "asked" => pc'[s] = "asked" /\ hand'[s] = hand[s]
      BY <1>4, <1>8, <1>9
    <3> QED
      BY <1>5, <1>6, <2>2, <3>1 DEF CInv, Unsettled
  <2> QED
    BY <1>7, <2>1, <2>2
<1> QED
  BY <1>12, <1>13, <1>14, <1>15 DEF CInv

LEMMA PendStep ==
  ASSUME RInv, CInv, NEW t \in Calls, Pend(t)
  PROVE  CInv'
<1>1. PICK h \in Requests : h = hand[t] /\ pc[t] = "asked"
  BY DEF Pend, CInv, InHand
<1>2. PICK c \in ConfirmIds : c = id[h]
  BY DEF CInv, DeskTypes, Requests
<1>3. /\ pending' = [d \in DOMAIN pending \cup {c} |-> IF d = c THEN h ELSE pending[d]]
      /\ hand' = [hand EXCEPT ![t] = 0] /\ pc' = [pc EXCEPT ![t] = "idle"]
      /\ UNCHANGED <<id, meant, ran, settled>>
  BY <1>1, <1>2 DEF Pend, At
<1>4. /\ DOMAIN pending' = DOMAIN pending \cup {c} /\ pending'[c] = h
      /\ \A d \in DOMAIN pending : d # c => pending'[d] = pending[d]
  BY <1>3
<1>5. /\ hand' \in [Calls -> Nat] /\ hand'[t] = 0
      /\ \A s \in Calls : s # t => hand'[s] = hand[s]
  BY <1>3 DEF CInv, DeskTypes
<1>6. pc'[t] = "idle" /\ \A s \in Calls : s # t => pc'[s] = pc[s]
  BY <1>3 DEF RInv, LocalTypes, Threads
<1>7. Requests' = Requests
  BY <1>3 DEF Requests
<1>8. /\ h \notin settled /\ c \notin DOMAIN pending
      /\ \A s \in Calls : s # t /\ pc[s] = "asked" => id[hand[s]] # c
  BY <1>1, <1>2 DEF CInv, InHand
<1>9. DeskTypes'
  BY <1>3, <1>5, <1>7 DEF CInv, DeskTypes
<1>10. Waiting'
  BY <1>2, <1>3, <1>4, <1>7, <1>8 DEF CInv, Waiting
<1>11. InHand'
  <2> SUFFICES ASSUME NEW u \in Calls
               PROVE  /\ (hand'[u] # 0) = (pc'[u] \in {"asked", "run"})
                      /\ hand'[u] # 0 => hand'[u] \in Requests
                      /\ pc'[u] = "asked" =>
                           /\ hand'[u] \notin settled /\ id[hand'[u]] \notin DOMAIN pending'
                           /\ \A s \in Calls : s # u /\ pc'[s] = "asked" => id[hand'[s]] # id[hand'[u]]
                      /\ pc'[u] = "run" =>
                           /\ hand'[u] \in settled /\ ran[hand'[u]] = 0
                           /\ \A s \in Calls : s # u /\ pc'[s] = "run" => hand'[s] # hand'[u]
                           /\ hand'[u] # meant[u] => meant[u] \in settled
    BY <1>3, <1>7 DEF InHand
  <2>1. CASE u = t
    BY <1>5, <1>6, <2>1
  <2>2. CASE u # t
    <3>1. \A s \in Calls : pc'[s] \in {"asked", "run"} => s # t /\ pc'[s] = pc[s] /\ hand'[s] = hand[s]
      BY <1>5, <1>6
    <3>2. hand'[u] = hand[u] /\ pc'[u] = pc[u]
      BY <1>5, <1>6, <2>2
    <3> QED
      BY <1>4, <1>8, <2>2, <3>1, <3>2 DEF CInv, InHand
  <2> QED
    BY <2>1, <2>2
<1>12. Unsettled'
  <2> SUFFICES ASSUME NEW r \in Requests
               PROVE  /\ ran[r] <= 1
                      /\ r \notin settled =>
                           /\ ran[r] = 0
                           /\ \/ \E s \in Calls : pc'[s] = "asked" /\ hand'[s] = r
                              \/ id[r] \in DOMAIN pending' /\ pending'[id[r]] = r
    BY <1>3, <1>7 DEF Unsettled
  <2>1. CASE r = h
    BY <1>2, <1>4, <2>1 DEF CInv, Unsettled
  <2>2. CASE r # h
    <3>1. \A s \in Calls : pc[s] = "asked" /\ hand[s] = r => pc'[s] = "asked" /\ hand'[s] = r
      BY <1>1, <1>5, <1>6, <2>2
    <3>2. id[r] \in DOMAIN pending => id[r] \in DOMAIN pending' /\ pending'[id[r]] = pending[id[r]]
      BY <1>4, <1>8
    <3> QED
      BY <3>1, <3>2 DEF CInv, Unsettled
  <2> QED
    BY <2>1, <2>2
<1> QED
  BY <1>9, <1>10, <1>11, <1>12 DEF CInv

LEMMA ConfirmStep ==
  ASSUME RInv, CInv, NEW t \in Calls, Confirm(t)
  PROVE  CInv'
<1>1. PICK r \in Given :
        /\ id[r] \in DOMAIN pending
        /\ pending' = [c \in DOMAIN pending \ {id[r]} |-> pending[c]]
        /\ hand' = [hand EXCEPT ![t] = pending[id[r]]]
        /\ meant' = [meant EXCEPT ![t] = r]
        /\ settled' = settled \cup {pending[id[r]]}
  BY DEF Confirm
<1>2. r \in Requests /\ r \in Nat /\ \A s \in Calls : pc[s] = "asked" => hand[s] # r
  BY DEF Given, Requests
<1>3. PICK c \in ConfirmIds : c = id[r] /\ c \in DOMAIN pending
  BY <1>1 DEF CInv, Waiting
<1>4. PICK q \in Requests : q = pending[c] /\ id[q] = c /\ q \notin settled
  BY <1>3 DEF CInv, Waiting
<1>5. q \in Nat /\ q # 0
  BY DEF Requests
<1>6. pc[t] = "idle" /\ pc' = [pc EXCEPT ![t] = "run"] /\ UNCHANGED <<id, ran>>
  BY DEF Confirm, At
<1>7. /\ DOMAIN pending' = DOMAIN pending \ {c}
      /\ \A d \in DOMAIN pending' : pending'[d] = pending[d]
  BY <1>1, <1>3
<1>8. /\ hand' \in [Calls -> Nat] /\ hand'[t] = q
      /\ \A s \in Calls : s # t => hand'[s] = hand[s]
  BY <1>1, <1>3, <1>4, <1>5 DEF CInv, DeskTypes
<1>9. /\ meant' \in [Calls -> Nat] /\ meant'[t] = r
      /\ \A s \in Calls : s # t => meant'[s] = meant[s]
  BY <1>1, <1>2 DEF CInv, DeskTypes
<1>10. pc'[t] = "run" /\ \A s \in Calls : s # t => pc'[s] = pc[s]
  BY <1>6 DEF RInv, LocalTypes, Threads
<1>11. Requests' = Requests /\ settled' = settled \cup {q}
  BY <1>1, <1>3, <1>4, <1>6 DEF Requests
<1>12. DeskTypes'
  BY <1>6, <1>8, <1>9, <1>11 DEF CInv, DeskTypes
<1>13. Waiting'
  BY <1>4, <1>6, <1>7, <1>11 DEF CInv, Waiting
<1>14. InHand'
  <2> SUFFICES ASSUME NEW u \in Calls
               PROVE  /\ (hand'[u] # 0) = (pc'[u] \in {"asked", "run"})
                      /\ hand'[u] # 0 => hand'[u] \in Requests
                      /\ pc'[u] = "asked" =>
                           /\ hand'[u] \notin settled' /\ id[hand'[u]] \notin DOMAIN pending'
                           /\ \A s \in Calls : s # u /\ pc'[s] = "asked" => id[hand'[s]] # id[hand'[u]]
                      /\ pc'[u] = "run" =>
                           /\ hand'[u] \in settled' /\ ran[hand'[u]] = 0
                           /\ \A s \in Calls : s # u /\ pc'[s] = "run" => hand'[s] # hand'[u]
                           /\ hand'[u] # meant'[u] => meant'[u] \in settled'
    BY <1>6, <1>11 DEF InHand
  <2>1. \A s \in Calls : pc[s] = "run" => hand[s] # q
    BY <1>4 DEF CInv, InHand
  <2>2. \A s \in Calls : pc[s] = "asked" => hand[s] # q
    BY <1>3, <1>4 DEF CInv, InHand
  <2>3. CASE u = t
    <3>1. ran[q] = 0
      BY <1>4 DEF CInv, Unsettled
    <3>2. q # r => r \in settled
      BY <1>2, <1>3, <1>4 DEF CInv, Unsettled
    <3>3. \A s \in Calls : s # t /\ pc'[s] = "run" => hand'[s] # q
      BY <1>8, <1>10, <2>1
    <3> QED
      BY <1>5, <1>8, <1>9, <1>10, <1>11, <2>3, <3>1, <3>2, <3>3
  <2>4. CASE u # t
    <3>1. hand'[u] = hand[u] /\ pc'[u] = pc[u] /\ meant'[u] = meant[u]
      BY <1>8, <1>9, <1>10, <2>4
    <3>2. \A s \in Calls : pc'[s] = "asked" => pc[s] = "asked" /\ hand'[s] = hand[s]
      BY <1>8, <1>10
    <3>3. \A s \in Calls : pc'[s] = "run" =>
            \/ s = t /\ hand'[s] = q
            \/ s # t /\ pc[s] = "run" /\ hand'[s] = hand[s]
      <4> TAKE s \in Calls
      <4>1. CASE s = t
        BY <1>8, <4>1
      <4>2. CASE s # t
        BY <1>8, <1>10, <4>2
      <4> QED
        BY <4>1, <4>2
    <3>4. /\ (hand[u] # 0) = (pc[u] \in {"asked", "run"})
          /\ hand[u] # 0 => hand[u] \in Requests
          /\ pc[u] = "asked" =>
               /\ hand[u] \notin settled /\ id[hand[u]] \notin DOMAIN pending
               /\ \A s \in Calls : s # u /\ pc[s] = "asked" => id[hand[s]] # id[hand[u]]
          /\ pc[u] = "run" =>
               /\ hand[u] \in settled /\ ran[hand[u]] = 0
               /\ \A s \in Calls : s # u /\ pc[s] = "run" => hand[s] # hand[u]
               /\ hand[u] # meant[u] => meant[u] \in settled
      BY DEF CInv, InHand
    <3> QED
      BY <1>7, <1>11, <2>1, <2>2, <3>1, <3>2, <3>3, <3>4
  <2> QED
    BY <2>3, <2>4
<1>15. Unsettled'
  <2> SUFFICES ASSUME NEW x \in Requests
               PROVE  /\ ran[x] <= 1
                      /\ x \notin settled' =>
                           /\ ran[x] = 0
                           /\ \/ \E s \in Calls : pc'[s] = "asked" /\ hand'[s] = x
                              \/ id[x] \in DOMAIN pending' /\ pending'[id[x]] = x
    BY <1>6, <1>11 DEF Unsettled
  <2>1. \A s \in Calls : pc[s] = "asked" => pc'[s] = "asked" /\ hand'[s] = hand[s]
    BY <1>6, <1>8, <1>10
  <2>2. id[x] \in DOMAIN pending /\ pending[id[x]] = x /\ x # q =>
          id[x] \in DOMAIN pending' /\ pending'[id[x]] = x
    BY <1>4, <1>7
  <2> QED
    BY <1>11, <2>1, <2>2 DEF CInv, Unsettled
<1> QED
  BY <1>12, <1>13, <1>14, <1>15 DEF CInv

LEMMA RunStep ==
  ASSUME RInv, CInv, NEW t \in Calls, Run(t)
  PROVE  CInv'
<1>1. PICK h \in Requests : h = hand[t] /\ pc[t] = "run" /\ h \in settled /\ ran[h] = 0
  BY DEF Run, CInv, InHand
<1>2. /\ ran' = [ran EXCEPT ![h] = ran[h] + 1] /\ hand' = [hand EXCEPT ![t] = 0]
      /\ meant' = [meant EXCEPT ![t] = 0] /\ pc' = [pc EXCEPT ![t] = "idle"]
      /\ UNCHANGED <<pending, id, settled>>
  BY <1>1 DEF Run, At
<1>3. /\ ran' \in Seq(Nat) /\ Len(ran') = Len(ran) /\ ran'[h] = 1
      /\ \A r \in Requests : r # h => ran'[r] = ran[r]
  <2>1. h \in 1 .. Len(ran) /\ ran \in Seq(Nat) /\ Requests = 1 .. Len(ran)
    BY DEF CInv, DeskTypes, Requests
  <2> QED
    BY <1>1, <1>2, <2>1
<1>4. /\ hand' \in [Calls -> Nat] /\ hand'[t] = 0
      /\ \A s \in Calls : s # t => hand'[s] = hand[s]
  BY <1>2 DEF CInv, DeskTypes
<1>5. /\ meant' \in [Calls -> Nat]
      /\ \A s \in Calls : s # t => meant'[s] = meant[s]
  BY <1>2 DEF CInv, DeskTypes
<1>6. pc'[t] = "idle" /\ \A s \in Calls : s # t => pc'[s] = pc[s]
  BY <1>2 DEF RInv, LocalTypes, Threads
<1>7. Requests' = Requests
  BY <1>2 DEF Requests
<1>8. DeskTypes'
  BY <1>2, <1>3, <1>4, <1>5, <1>7 DEF CInv, DeskTypes
<1>9. Waiting'
  BY <1>2, <1>7 DEF CInv, Waiting
<1>10. InHand'
  <2> SUFFICES ASSUME NEW u \in Calls
               PROVE  /\ (hand'[u] # 0) = (pc'[u] \in {"asked", "run"})
                      /\ hand'[u] # 0 => hand'[u] \in Requests
                      /\ pc'[u] = "asked" =>
                           /\ hand'[u] \notin settled /\ id[hand'[u]] \notin DOMAIN pending
                           /\ \A s \in Calls : s # u /\ pc'[s] = "asked" => id[hand'[s]] # id[hand'[u]]
                      /\ pc'[u] = "run" =>
                           /\ hand'[u] \in settled /\ ran'[hand'[u]] = 0
                           /\ \A s \in Calls : s # u /\ pc'[s] = "run" => hand'[s] # hand'[u]
                           /\ hand'[u] # meant'[u] => meant'[u] \in settled
    BY <1>2, <1>7 DEF InHand
  <2>1. CASE u = t
    BY <1>4, <1>6, <2>1
  <2>2. CASE u # t
    <3>1. hand'[u] = hand[u] /\ pc'[u] = pc[u] /\ meant'[u] = meant[u]
      BY <1>4, <1>5, <1>6, <2>2
    <3>2. \A s \in Calls : pc'[s] \in {"asked", "run"} => pc'[s] = pc[s] /\ hand'[s] = hand[s]
      BY <1>4, <1>6
    <3>3. /\ (hand[u] # 0) = (pc[u] \in {"asked", "run"})
          /\ hand[u] # 0 => hand[u] \in Requests
          /\ pc[u] = "asked" =>
               /\ hand[u] \notin settled /\ id[hand[u]] \notin DOMAIN pending
               /\ \A s \in Calls : s # u /\ pc[s] = "asked" => id[hand[s]] # id[hand[u]]
          /\ pc[u] = "run" =>
               /\ hand[u] \in settled /\ ran[hand[u]] = 0
               /\ \A s \in Calls : s # u /\ pc[s] = "run" => hand[s] # hand[u]
               /\ hand[u] # meant[u] => meant[u] \in settled
      BY DEF CInv, InHand
    <3>4. pc[u] = "run" => hand[u] # h /\ ran'[hand[u]] = ran[hand[u]]
      BY <1>1, <1>3, <2>2, <3>3
    <3> QED
      BY <3>1, <3>2, <3>3, <3>4
  <2> QED
    BY <2>1, <2>2
<1>11. Unsettled'
  <2> SUFFICES ASSUME NEW r \in Requests
               PROVE  /\ ran'[r] <= 1
                      /\ r \notin settled =>
                           /\ ran'[r] = 0
                           /\ \/ \E s \in Calls : pc'[s] = "asked" /\ hand'[s] = r
                              \/ id[r] \in DOMAIN pending /\ pending[id[r]] = r
    BY <1>2, <1>7 DEF Unsettled
  <2>1. CASE r = h
    BY <1>1, <1>3, <2>1
  <2>2. CASE r # h
    <3>1. \A s \in Calls : pc[s] = "asked" => pc'[s] = "asked" /\ hand'[s] = hand[s]
      BY <1>1, <1>4, <1>6
    <3> QED
      BY <1>3, <2>2, <3>1 DEF CInv, Unsettled
  <2> QED
    BY <2>1, <2>2
<1> QED
  BY <1>8, <1>9, <1>10, <1>11 DEF CInv

-----------------------------------------------------------------------------
\* The service's steps move no thread to a request or from one.
LEMMA ServiceStep ==
  ASSUME RInv, ProNext \/ SetReminder, NEW u \in Calls,
         pc[u] \in {"asked", "run"} \/ pc'[u] \in {"asked", "run"}
  PROVE  pc'[u] = pc[u]
<1>1. pc \in [Threads -> Walking \cup {"idle", "nudge", "asked", "run"}] /\ u \in Threads /\ u # Job
  BY DEF RInv, LocalTypes, Threads
<1>2. CASE UNCHANGED pc
  BY <1>2
<1>3. CASE \E t \in Threads, at \in {"idle", "nudge", "check", "seek", "remove"} :
             pc[t] \notin {"asked", "run"} /\ Goto(t, at)
  BY <1>1, <1>3 DEF Goto
<1>4. CASE Tick \/ MarkSent \/ AddReminder \/ SetReminder
  BY <1>2, <1>4 DEF Tick, MarkSent, AddReminder, SetReminder, localVars
<1>5. CASE NudgeStart \/ NudgeEmpty \/ NudgeSent
  BY <1>3, <1>5 DEF NudgeStart, NudgeEmpty, NudgeSent, Deliver, Threads
<1>6. CASE \E t \in Threads : CheckStart(t) \/ Visit(t) \/ CheckEnd(t)
  BY <1>2, <1>3, <1>6 DEF CheckStart, Visit, CheckEnd, Deliver
<1>7. CASE \E t \in Calls : CancelStart(t) \/ Seek(t) \/ Remove(t) \/ CancelFails(t)
  BY <1>2, <1>3, <1>7 DEF CancelStart, Seek, Remove, CancelFails, CancelDone, Threads
<1> QED
  BY <1>4, <1>5, <1>6, <1>7 DEF ProNext

LEMMA StepConfirmations == RInv /\ CInv /\ [DeskNext]_vars => CInv'
<1> SUFFICES ASSUME RInv, CInv, [DeskNext]_vars PROVE CInv'
  OBVIOUS
<1>1. CASE ProNext /\ UNCHANGED deskVars
  BY <1>1, ServiceStep, SameDesk
<1>2. CASE SetReminder
  BY <1>2, ServiceStep, SameDesk DEF SetReminder
<1>3. CASE \E t \in Calls : Ask(t) \/ Pend(t) \/ Confirm(t) \/ Run(t)
  BY <1>3, AskStep, PendStep, ConfirmStep, RunStep
<1>4. CASE UNCHANGED vars
  BY <1>4, SameDesk DEF vars, proVars
<1> QED
  BY <1>1, <1>2, <1>3, <1>4 DEF DeskNext

\* However many threads ask and confirm at once, and however often the same
\* confirmation is sent: what was confirmed runs once, a request waits until it
\* is taken, and a confirmation runs what its user saw or what took the id of
\* a settled request.
THEOREM ConfirmationsAreKept == Spec => []ConfirmationsKept
<1>1. DeskInit => RInv /\ CInv
  BY InitReminders, InitConfirmations
<1>2. RInv /\ CInv /\ [DeskNext]_vars => RInv' /\ CInv'
  BY StepReminders, StepConfirmations
<1>3. ASSUME RInv, CInv PROVE TypeOK
  <2>1. \A t \in Threads :
          /\ pc[t] \in Places(t)
          /\ idx[t] \in 0 .. MaxReminders + 1
          /\ got[t] # {} => pc[t] = "check"
          /\ (target[t] # 0) = (pc[t] \in {"seek", "remove"})
    BY <1>3 DEF RInv, LocalTypes
  <2>2. /\ \A t \in Calls : (hand[t] # 0) = (pc[t] \in {"asked", "run"})
        /\ DOMAIN pending \subseteq ConfirmIds
        /\ \A c \in DOMAIN pending : id[pending[c]] = c
    BY <1>3 DEF CInv, InHand, Waiting
  <2> QED
    BY <1>3, <2>1, <2>2 DEF RInv, ProTypes, TypeOK
<1>4. ASSUME CInv PROVE RunsOnce /\ PendingIsKept /\ ConfirmsWhatWasSeen
  <2>1. RunsOnce
    BY <1>4 DEF CInv, Unsettled, RunsOnce
  <2>2. PendingIsKept
    BY <1>4 DEF CInv, Unsettled, PendingIsKept, Given
  <2>3. ConfirmsWhatWasSeen
    BY <1>4 DEF CInv, InHand, ConfirmsWhatWasSeen
  <2> QED
    BY <2>1, <2>2, <2>3
<1>5. RInv /\ CInv => ConfirmationsKept
  BY <1>3, <1>4 DEF ConfirmationsKept
<1> QED
  BY <1>1, <1>2, <1>5, PTL DEF Spec
=============================================================================
