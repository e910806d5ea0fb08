--------------------------- MODULE MCMemoryStore ---------------------------
(***************************************************************************)
(* Small instances of MemoryStore.                                         *)
(***************************************************************************)
EXTENDS MemoryStore, TLC

CONSTANTS app, worker, t1, t2, t3, a, b, c, d, n1, n2, k1, k2, day, v1, v2, v3

\* One process; the app and the worker; two threads of the app; all three.
OneThread == t1 :> app
TwoThreads == t1 :> app @@ t2 :> app
AppAndWorker == t1 :> app @@ t2 :> worker
ThreeThreads == t1 :> app @@ t2 :> app @@ t3 :> worker

\* Items of different keys; c updates a, and d repeats it; two summaries of one
\* day.
TwoKeys == a :> k1 @@ b :> k2
ThreeKeys == a :> k1 @@ b :> k2 @@ c :> k1
NoteKeys == a :> k1 @@ d :> k1 @@ b :> k2 @@ n1 :> day @@ n2 :> day
TwoValues == a :> v1 @@ b :> v2
ThreeValues == a :> v1 @@ b :> v2 @@ c :> v3
NoteValues == a :> v1 @@ d :> v1 @@ b :> v2 @@ n1 :> v1 @@ n2 :> v3
=============================================================================
