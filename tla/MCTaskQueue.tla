---------------------------- MODULE MCTaskQueue ----------------------------
(***************************************************************************)
(* Small instances of TaskQueue.                                           *)
(***************************************************************************)
EXTENDS TaskQueue, TLC

CONSTANTS j1, j2, j3, j4, w1, w2

\* One task with a handler.
OneJob == j1 :> "registered"

\* A task with a handler and one of a type nobody handles.
RegisteredAndUnknown == j1 :> "registered" @@ j2 :> "unknown"

\* Every kind of body.
AllKinds == j1 :> "registered" @@ j2 :> "unknown" @@ j3 :> "garbage" @@ j4 :> "nonobject"

\* A task and a JSON body that is not an object.
NonObjectFirst == j1 :> "registered" @@ j4 :> "nonobject"
=============================================================================
