----------------------------- MODULE Proactivity -----------------------------
(***************************************************************************)
(* The proactivity service (app/proactivity/service.py), the endpoints     *)
(* that call it (app/main.py) and the background job that nudges the user  *)
(* (app/queue/jobs.py). Endpoints run on a pool of threads and the job on  *)
(* one more; they share the service and no lock guards it.                 *)
(* A thread can be interrupted at the end of a turn of a loop and where    *)
(* Python code is called, which list.remove does for every reminder it     *)
(* compares and finds different.                                           *)
(* The clock counts ticks of Day to a day. A reminder is its number.       *)
(***************************************************************************)
EXTENDS Integers, Sequences, FiniteSets

CONSTANTS
  Calls,        \* threads that serve endpoints
  Job,          \* the thread of the background job
  Day,          \* ticks of a day
  QuietHours,   \* the settings <<quiet_start, quiet_end>> considered
  Cooldown,     \* proactive_cooldown_minutes
  Delays,       \* the minutes a reminder may be set for
  MaxReminders, \* bound on reminders
  MaxCalls,     \* bound on the calls of endpoints
  Horizon       \* bound on the clock

ASSUME ProactivityAssumption ==
  /\ Job \notin Calls
  /\ Day \in Nat \ {0}
  /\ QuietHours \subseteq (0 .. Day - 1) \X (0 .. Day - 1)
  /\ Cooldown \in Nat /\ Delays \subseteq Nat
  /\ MaxReminders \in Nat /\ MaxCalls \in Nat /\ Horizon \in Nat

VARIABLES
  calls,     \* how many calls endpoints took
  clock,
  quiet,     \* <<quiet_start, quiet_end>>
  last,      \* _last_sent_at, or Never
  reminders, \* _reminders
  due,       \* due_at of every reminder that was ever set
  fired,     \* the reminders that have fired
  pc,        \* what a thread does
  now,       \* a nudge's stamp
  asof,      \* the time of check_due
  idx,       \* position of the loop a thread is in
  got,       \* the list check_due builds
  target,    \* the reminder a thread cancels
  told,      \* history: how often a reminder was delivered
  cancelled, \* history: the reminders a caller was told are cancelled
  nudges,    \* history: the stamps of the nudges sent
  moved      \* history: was a reminder removed under a thread's loop

clockVars == <<clock, quiet>>
listVars == <<reminders, due, fired>>
localVars == <<pc, now, asof, idx, got, target>>
historyVars == <<told, cancelled, nudges>>
proVars == <<calls, clock, quiet, last, reminders, due, fired, pc, now, asof, idx, got,
             target, told, cancelled, nudges, moved>>

Threads == Calls \cup {Job}
Never == -1
Ids == 1 .. Len(due)

ProInit ==
  /\ calls = 0 /\ clock = 0 /\ quiet \in QuietHours /\ last = Never
  /\ reminders = << >> /\ due = << >> /\ fired = {}
  /\ pc = [t \in Threads |-> "idle"]
  /\ now = [t \in Threads |-> 0] /\ asof = [t \in Threads |-> 0]
  /\ idx = [t \in Threads |-> 0] /\ got = [t \in Threads |-> {}]
  /\ target = [t \in Threads |-> 0]
  /\ told = [r \in 1 .. MaxReminders |-> 0] /\ cancelled = {} /\ nudges = << >>
  /\ moved = [t \in Threads |-> FALSE]

Called == calls < MaxCalls /\ calls' = calls + 1

-----------------------------------------------------------------------------
(* The gate. *)

is_quiet_hours(time) ==
  LET h == time % Day
  IN  IF quiet[1] > quiet[2]
      THEN h >= quiet[1] \/ h < quiet[2]
      ELSE quiet[1] <= h /\ h < quiet[2]

can_send(time) ==
  /\ ~ is_quiet_hours(time)
  /\ last = Never \/ time - last >= Cooldown

MarkSent ==
  /\ \E t \in Calls : pc[t] = "idle"
  /\ last' = clock
  /\ Called
  /\ UNCHANGED <<clockVars, listVars, localVars, historyVars, moved>>

-----------------------------------------------------------------------------
(* The reminders. A loop over the list walks it by position, whatever       *)
(* happens to the list meanwhile.                                           *)

AddReminder ==
  /\ \E t \in Calls : pc[t] = "idle"
  /\ Len(due) < MaxReminders
  /\ \E d \in Delays : due' = Append(due, clock + d)
  /\ reminders' = Append(reminders, Len(due) + 1)
  /\ Called
  /\ UNCHANGED <<clockVars, last, fired, localVars, historyVars, moved>>

\* A thread starts over, in a loop or, at "idle", with nothing in hand.
Goto(t, at) ==
  /\ pc' = [pc EXCEPT ![t] = at]
  /\ idx' = [idx EXCEPT ![t] = IF at = "idle" THEN 0 ELSE 1]

CancelStart(t) ==
  /\ pc[t] = "idle"
  /\ \E r \in Ids : target' = [target EXCEPT ![t] = r]
  /\ Goto(t, "seek")
  /\ Called
  /\ UNCHANGED <<clockVars, last, listVars, now, asof, got, historyVars, moved>>

Seek(t) ==
  /\ pc[t] = "seek" /\ idx[t] <= Len(reminders)
  /\ IF reminders[idx[t]] = target[t] /\ target[t] \notin fired
     THEN Goto(t, "remove")
     ELSE idx' = [idx EXCEPT ![t] = @ + 1] /\ UNCHANGED pc
  /\ UNCHANGED <<calls, clockVars, last, listVars, now, asof, got, target, historyVars, moved>>

\* Deleting a place of the list disturbs the checks that walk it.
Without(i) == SubSeq(reminders, 1, i - 1) \o SubSeq(reminders, i + 1, Len(reminders))
Disturbed == [t \in Threads |-> moved[t] \/ pc[t] = "check"]

CancelDone(t) ==
  /\ Goto(t, "idle")
  /\ target' = [target EXCEPT ![t] = 0]

\* list.remove compares by value, from the front. The reminder may have fired
\* since it was found: the cancel is then in vain, and answers True as well.
Remove(t) ==
  /\ pc[t] = "remove" /\ idx[t] <= Len(reminders)
  /\ IF reminders[idx[t]] = target[t]
     THEN /\ reminders' = Without(idx[t])
          /\ moved' = Disturbed
          /\ cancelled' = cancelled \cup ({target[t]} \ fired)
          /\ CancelDone(t)
     ELSE /\ idx' = [idx EXCEPT ![t] = @ + 1]
          /\ UNCHANGED <<reminders, moved, cancelled, pc, target>>
  /\ UNCHANGED <<calls, clockVars, last, due, fired, now, asof, got, told, nudges>>

\* cancel_reminder answers False, or list.remove raises, at the end of the list.
CancelFails(t) ==
  /\ pc[t] \in {"seek", "remove"} /\ idx[t] > Len(reminders)
  /\ CancelDone(t)
  /\ UNCHANGED <<calls, clockVars, last, listVars, now, asof, got, historyVars, moved>>

-----------------------------------------------------------------------------
(* check_due, for GET /proactivity/check and for the job.                   *)

CheckStart(t) ==
  /\ pc[t] = IF t = Job THEN "nudge" ELSE "idle"
  /\ Goto(t, "check")
  /\ asof' = [asof EXCEPT ![t] = clock]
  /\ IF t = Job THEN UNCHANGED calls ELSE Called
  /\ UNCHANGED <<clockVars, last, listVars, now, got, target, historyVars, moved>>

\* Mutant: what is due is collected, and marked afterwards.
VisitCollects(t) ==
  /\ pc[t] = "check" /\ idx[t] <= Len(reminders)
  /\ \E r \in {reminders[idx[t]]} :
       IF r \notin fired /\ due[r] <= asof[t]
       THEN got' = [got EXCEPT ![t] = @ \cup {r}]
       ELSE UNCHANGED got
  /\ idx' = [idx EXCEPT ![t] = @ + 1]
  /\ UNCHANGED <<calls, clockVars, last, listVars, pc, now, asof, target, historyVars, moved>>

Visit(t) ==
  /\ pc[t] = "check" /\ idx[t] <= Len(reminders)
  /\ \E r \in {reminders[idx[t]]} :
       IF r \notin fired /\ due[r] <= asof[t]
       THEN /\ fired' = fired \cup {r}
            /\ got' = [got EXCEPT ![t] = @ \cup {r}]
       ELSE UNCHANGED <<fired, got>>
  /\ idx' = [idx EXCEPT ![t] = @ + 1]
  /\ UNCHANGED <<calls, clockVars, last, reminders, due, pc, now, asof, target, historyVars, moved>>

\* The thread's answer names the reminders it holds.
Deliver(t) ==
  /\ Goto(t, "idle")
  /\ asof' = [asof EXCEPT ![t] = 0]
  /\ got' = [got EXCEPT ![t] = {}]
  /\ moved' = [moved EXCEPT ![t] = FALSE]

CheckEnd(t) ==
  /\ t \in Calls /\ pc[t] = "check" /\ idx[t] > Len(reminders)
  /\ told' = [r \in DOMAIN told |-> told[r] + IF r \in got[t] THEN 1 ELSE 0]
  /\ Deliver(t)
  /\ UNCHANGED <<calls, clockVars, last, listVars, now, target, cancelled, nudges>>

-----------------------------------------------------------------------------
(* proactive_nudge. Where the gate is closed it leaves everything as it was. *)

NudgeStart ==
  /\ pc[Job] = "idle"
  /\ can_send(clock)
  /\ now' = [now EXCEPT ![Job] = clock]
  /\ Goto(Job, "nudge")
  /\ UNCHANGED <<calls, clockVars, last, listVars, asof, got, target, historyVars, moved>>

NudgeEmpty ==
  /\ pc[Job] = "check" /\ idx[Job] > Len(reminders) /\ got[Job] = {}
  /\ now' = [now EXCEPT ![Job] = 0]
  /\ Deliver(Job)
  /\ UNCHANGED <<calls, clockVars, last, listVars, target, historyVars>>

\* Mutant: the cooldown counts from a reminder's delivery alone.
NudgeSentUnmarked ==
  /\ pc[Job] = "check" /\ idx[Job] > Len(reminders) /\ got[Job] # {}
  /\ nudges' = Append(nudges, now[Job])
  /\ told' = [r \in DOMAIN told |-> told[r] + IF r \in got[Job] THEN 1 ELSE 0]
  /\ now' = [now EXCEPT ![Job] = 0]
  /\ Deliver(Job)
  /\ UNCHANGED <<calls, clockVars, last, listVars, target, cancelled>>

NudgeSent ==
  /\ pc[Job] = "check" /\ idx[Job] > Len(reminders) /\ got[Job] # {}
  /\ last' = now[Job]
  /\ nudges' = Append(nudges, now[Job])
  /\ told' = [r \in DOMAIN told |-> told[r] + IF r \in got[Job] THEN 1 ELSE 0]
  /\ now' = [now EXCEPT ![Job] = 0]
  /\ Deliver(Job)
  /\ UNCHANGED <<calls, clockVars, listVars, target, cancelled>>

\* External: time passes.
Tick ==
  /\ clock < Horizon
  /\ clock' = clock + 1
  /\ UNCHANGED <<calls, quiet, last, listVars, localVars, historyVars, moved>>

ProNext ==
  \/ Tick \/ MarkSent \/ AddReminder \/ NudgeStart \/ NudgeEmpty \/ NudgeSent
  \/ \E t \in Threads : CheckStart(t) \/ Visit(t) \/ CheckEnd(t)
  \/ \E t \in Calls : CancelStart(t) \/ Seek(t) \/ Remove(t) \/ CancelFails(t)

-----------------------------------------------------------------------------
(* Properties. *)

\* A reminder that was set is never lost and never delivered twice, whichever
\* threads check, nudge and cancel at once: it waits in the list, or a caller
\* was told that it is cancelled, or it fired, and then one thread delivered it
\* or holds it to deliver (check_due and cancel_reminder).
Conserved ==
  \A r \in Ids :
    LET listed == \E i \in 1 .. Len(reminders) : reminders[i] = r
        held == {t \in Threads : r \in got[t]}
    IN  IF r \in fired THEN told[r] + Cardinality(held) = 1
        ELSE told[r] = 0 /\ held = {} /\ (listed # (r \in cancelled))

\* A reminder that was cancelled before it fired never reaches the user, not
\* even through a check that was walking the list when it was removed.
CancelledStaysQuiet == \A r \in cancelled : told[r] = 0 /\ r \notin fired

\* A check that reaches the end of the list leaves nothing behind that was due
\* when it began, unless a cancel moved the list under it.
CheckIsComplete ==
  \A t \in Threads :
    pc[t] = "check" /\ idx[t] > Len(reminders) /\ ~ moved[t] =>
      \A i \in 1 .. Len(reminders) :
        due[reminders[i]] <= asof[t] => reminders[i] \in fired

\* Two nudges are a cooldown apart and none is stamped in the quiet hours,
\* whatever endpoints mark, check and cancel meanwhile (the "anti-annoyance"
\* gate that proactive_nudge's description promises).
NudgesAreSpaced ==
  /\ \A i \in 1 .. Len(nudges) : ~ is_quiet_hours(nudges[i])
  /\ \A i \in 2 .. Len(nudges) : nudges[i] - nudges[i - 1] >= Cooldown
=============================================================================
