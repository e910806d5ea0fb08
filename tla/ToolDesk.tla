------------------------------- MODULE ToolDesk -------------------------------
(***************************************************************************)
(* The tool registry (app/tools/registry.py) with its built-in tools       *)
(* (app/tools/builtins.py), over the reminders of Proactivity.             *)
(* A tool is of the tier "external", and asks for a confirmation before it *)
(* runs, or not. Of the tools that do not ask, set_reminder is the one     *)
(* whose effect is seen here; what a handler of an external tool does, or  *)
(* that it raises, makes no difference to the registry.                    *)
(* The id of a confirmation is made of the tool's name and the address of  *)
(* the params: an address belongs to one object while a thread or the      *)
(* table of pending confirmations refers to it, and to the next one after. *)
(***************************************************************************)
EXTENDS Proactivity

CONSTANTS
  External,  \* the names of external tools
  Addresses, \* where params may be allocated
  MaxAsks    \* bound on the requests that ask for a confirmation

ASSUME DeskAssumption ==
  /\ IsFiniteSet(Addresses)
  /\ MaxAsks \in Nat

VARIABLES
  pending, \* _pending_confirmations: id -> request
  id,      \* confirm_id of every request that was made
  hand,    \* the request a thread works on
  meant,   \* history: the request a thread's confirmation was given for
  ran,     \* history: for every request, the confirmations it ran for
  settled  \* history: the requests that were popped

deskVars == <<pending, id, hand, meant, ran, settled>>
vars == <<proVars, deskVars>>

Requests == 1 .. Len(id)
ConfirmIds == External \X Addresses

DeskInit ==
  /\ ProInit
  /\ pending = << >> /\ id = << >>
  /\ hand = [t \in Calls |-> 0] /\ meant = [t \in Calls |-> 0]
  /\ ran = << >> /\ settled = {}

\* The addresses something refers to.
Live == {id[r][2] : r \in {pending[c] : c \in DOMAIN pending} \cup
                          {hand[t] : t \in {u \in Calls : hand[u] # 0}}}

At(t, place) == pc' = [pc EXCEPT ![t] = place]

-----------------------------------------------------------------------------

\* tool_set_reminder.
SetReminder == AddReminder /\ UNCHANGED deskVars

\* execute, of an external tool: the params exist and the id is made of them.
Ask(t) ==
  /\ pc[t] = "idle" /\ Len(id) < MaxAsks
  /\ \E name \in External, a \in Addresses \ Live : id' = Append(id, <<name, a>>)
  /\ hand' = [hand EXCEPT ![t] = Len(id) + 1]
  /\ ran' = Append(ran, 0)
  /\ At(t, "asked")
  /\ Called
  /\ UNCHANGED <<clockVars, last, listVars, now, asof, idx, got, target, historyVars,
                 moved, pending, meant, settled>>

Pend(t) ==
  /\ pc[t] = "asked"
  /\ pending' = [c \in DOMAIN pending \cup {id[hand[t]]} |->
                   IF c = id[hand[t]] THEN hand[t] ELSE pending[c]]
  /\ hand' = [hand EXCEPT ![t] = 0]
  /\ At(t, "idle")
  /\ UNCHANGED <<calls, clockVars, last, listVars, now, asof, idx, got, target, historyVars,
                 moved, id, meant, ran, settled>>

\* What the user was asked to confirm.
Given == Requests \ {hand[t] : t \in {u \in Calls : pc[u] = "asked"}}

\* Mutant: the entry goes when the tool has run.
ConfirmGets(t) ==
  /\ pc[t] = "idle"
  /\ \E r \in Given :
       /\ id[r] \in DOMAIN pending
       /\ hand' = [hand EXCEPT ![t] = pending[id[r]]]
       /\ meant' = [meant EXCEPT ![t] = r]
       /\ settled' = settled \cup {pending[id[r]]}
  /\ At(t, "run")
  /\ Called
  /\ UNCHANGED <<clockVars, last, listVars, now, asof, idx, got, target, historyVars,
                 moved, pending, id, ran>>

\* confirm, of an id that was handed out before, once or more often: pop takes
\* the entry in one step. Where there is none, nothing changes.
Confirm(t) ==
  /\ pc[t] = "idle"
  /\ \E r \in Given :
       /\ id[r] \in DOMAIN pending
       /\ pending' = [c \in DOMAIN pending \ {id[r]} |-> pending[c]]
       /\ hand' = [hand EXCEPT ![t] = pending[id[r]]]
       /\ meant' = [meant EXCEPT ![t] = r]
       /\ settled' = settled \cup {pending[id[r]]}
  /\ At(t, "run")
  /\ Called
  /\ UNCHANGED <<clockVars, last, listVars, now, asof, idx, got, target, historyVars,
                 moved, id, ran>>

\* execute, with user_confirmed: the handler runs.
Run(t) ==
  /\ pc[t] = "run"
  /\ ran' = [ran EXCEPT ![hand[t]] = @ + 1]
  /\ hand' = [hand EXCEPT ![t] = 0]
  /\ meant' = [meant EXCEPT ![t] = 0]
  /\ At(t, "idle")
  /\ UNCHANGED <<calls, clockVars, last, listVars, now, asof, idx, got, target, historyVars,
                 moved, pending, id, settled>>

DeskNext ==
  \/ ProNext /\ UNCHANGED deskVars
  \/ SetReminder
  \/ \E t \in Calls : Ask(t) \/ Pend(t) \/ Confirm(t) \/ Run(t)

Spec == DeskInit /\ [][DeskNext]_vars

-----------------------------------------------------------------------------
(* Properties. *)

Places(t) ==
  IF t = Job THEN {"idle", "nudge", "check"}
  ELSE {"idle", "check", "seek", "remove", "asked", "run"}

TypeOK ==
  /\ calls \in 0 .. MaxCalls /\ clock \in 0 .. Horizon /\ quiet \in QuietHours /\ last \in -1 .. Horizon
  /\ \A i \in 1 .. Len(reminders) : reminders[i] \in Ids
  /\ \A i, j \in 1 .. Len(reminders) : reminders[i] = reminders[j] => i = j
  /\ fired \subseteq Ids /\ cancelled \subseteq Ids
  /\ \A t \in Threads :
       /\ pc[t] \in Places(t)
       /\ idx[t] \in 0 .. MaxReminders + 1
       /\ got[t] # {} => pc[t] = "check"
       /\ (target[t] # 0) = (pc[t] \in {"seek", "remove"})
  /\ \A t \in Calls : (hand[t] # 0) = (pc[t] \in {"asked", "run"})
  /\ DOMAIN pending \subseteq ConfirmIds
  /\ \A c \in DOMAIN pending : id[pending[c]] = c

\* What the user confirms runs once, though the confirmation may be sent again
\* while the first one is still running.
RunsOnce == \A r \in Requests : ran[r] <= 1

\* A request waits under the id that was handed out for it until a
\* confirmation takes it: no other request, of the same tool or with params
\* at an address used before, takes its place.
PendingIsKept ==
  \A r \in Given : r \notin settled => id[r] \in DOMAIN pending /\ pending[id[r]] = r

\* A confirmation runs the request the user saw, unless that one had been
\* confirmed before: the id of a request that is settled may have been given
\* to a new one.
ConfirmsWhatWasSeen ==
  \A t \in Calls : pc[t] = "run" /\ hand[t] # meant[t] => meant[t] \in settled

\* Reminders are kept, cancelled and delivered as their callers were told.
RemindersKept == Conserved /\ CancelledStaysQuiet /\ CheckIsComplete

\* A confirmation does what its user saw, and once.
ConfirmationsKept == TypeOK /\ RunsOnce /\ PendingIsKept /\ ConfirmsWhatWasSeen
=============================================================================
