----------------------------- MODULE JobLedger -----------------------------
(***************************************************************************)
(* What app/queue promises about a background job, with no broker, no      *)
(* worker and no retries in sight: a job that entered the queue stays in   *)
(* it until its handler has returned or it has been dead-lettered.         *)
(* It may be executed more than once, and a job that succeeded may also    *)
(* end up in the dead-letter queue: delivery is at least once, not exactly *)
(* once.  TaskQueue implements this specification.                         *)
(***************************************************************************)
CONSTANT Jobs

VARIABLES
  submitted,  \* jobs that entered the work queue
  accepted,   \* jobs whose enqueue() returned True
  held,       \* jobs the queue is still responsible for
  done,       \* jobs whose handler has returned at least once
  dead        \* jobs in the dead-letter queue

ledgerVars == <<submitted, accepted, held, done, dead>>

LedgerInit ==
  /\ submitted = {} /\ accepted = {} /\ held = {} /\ done = {} /\ dead = {}

\* A job enters the queue; the caller may or may not learn of it.
Submit(j) ==
  /\ j \notin submitted
  /\ submitted' = submitted \cup {j}
  /\ held' = held \cup {j}
  /\ accepted' \in {accepted, accepted \cup {j}}
  /\ UNCHANGED <<done, dead>>

\* The handler returns; at-least-once delivery lets this happen again, and
\* even after the queue has let go of the job.
Complete(j) ==
  /\ j \in submitted
  /\ done' = done \cup {j}
  /\ UNCHANGED <<submitted, accepted, held, dead>>

\* The job is dead-lettered, with or without leaving the work queue at once.
Bury(j) ==
  /\ j \in held
  /\ dead' = dead \cup {j}
  /\ held' \in {held, held \ {j}}
  /\ UNCHANGED <<submitted, accepted, done>>

\* The queue forgets a job only when it is done or dead-lettered.
Release(j) ==
  /\ j \in held
  /\ j \in done \cup dead
  /\ held' = held \ {j}
  /\ UNCHANGED <<submitted, accepted, done, dead>>

LedgerNext ==
  \E j \in Jobs : Submit(j) \/ Complete(j) \/ Bury(j) \/ Release(j)

LedgerSpec == LedgerInit /\ [][LedgerNext]_ledgerVars
=============================================================================
