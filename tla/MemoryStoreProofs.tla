-------------------------- MODULE MemoryStoreProofs --------------------------
(***************************************************************************)
(* Theorems about MemoryStore. Types, and what a removal promises of the   *)
(* database, hold for any number of threads and processes; what the file,  *)
(* the list and the index promise holds for one thread that calls.         *)
(***************************************************************************)
EXTENDS MemoryStore, FiniteSetTheorems, TLAPS

-----------------------------------------------------------------------------
(***************************************************************************)
(* Any number of callers: types, and what has left the database.           *)
(***************************************************************************)

\* Where a call goes once its item is in, or out of, the database and the index.
Flushing == {"dump", "open", "write", "replace", "return"}

\* What a thread has at each place of the code: an item is being written in write()
\* only, a file is open while it is written, and only a delete or an erase that was
\* asked for by a request owes anything.
ControlAt(t) ==
  /\ pc[t] \in {"mirror", "index"} => arg[t] \in Items
  /\ arg[t] # NoItem =>
       pc[t] \in {"mirror", "index"} \cup Flushing /\ job[t] # "curate" /\ owed[t] = {}
  /\ arg[t] \in used \cup {NoItem}
  /\ pc[t] = "write" => fd[t] # NoFile
  /\ pc[t] = "idle" => job[t] = "none"
  /\ pc[t] = "curate" => job[t] = "curate"
  /\ pc[t] = "note" => job[t] = "summary"
  /\ job[t] # "none" \/ pc[t] = "idle" => owed[t] = {}
  /\ owed[t] \subseteq used

Control == \A t \in Threads : ControlAt(t)

\* The item that a call of write is at work on was not acknowledged, by it or by
\* anybody, and nobody else writes it: no removal has promised anything of it.
Fresh ==
  \A t \in Threads : arg[t] # NoItem =>
    /\ arg[t] \notin kept \cup gone
    /\ \A u \in Threads : arg[t] \notin owed[u] /\ (u # t => arg[u] # arg[t])

\* What a removal owes is among its victims until they are out of the database, and
\* out of the database from then on.
Dropped ==
  \A t \in Threads :
    /\ pc[t] \in {"unindex", "wipeindex"} \cup Flushing => owed[t] \cap db = {}
    /\ pc[t] \in {"rebind", "unmirror"} => owed[t] \subseteq victims[t]

\* The inductive invariant.
Ledger == TypeOK /\ Control /\ Fresh /\ Dropped /\ MirrorForgets

\* A file that is not there is none of the files there are.
LEMMA NoFileIsNoInode == NoFile \notin Inodes
<1>1. Cardinality(Threads) \in Nat
  BY FS_CardinalityType, MemoryAssumption
<1> QED
  BY <1>1, MemoryAssumption DEF Inodes

\* A new temporary file is another file than the one in place.
LEMMA FreeInodeExists ==
  ASSUME TypeOK, tmp = NoFile
  PROVE  FreeInode \in Inodes \ {file}
<1> DEFINE held == {fd[t] : t \in Threads}
           taken == {file} \cup held
<1>1. IsFiniteSet(held) /\ Cardinality(held) <= Cardinality(Threads)
  <2>1. fd \in [Threads -> held]
    BY DEF TypeOK
  <2>2. fd \in Surjection(Threads, held)
    BY <2>1 DEF Surjection
  <2> QED
    BY <2>2, FS_Surjection, MemoryAssumption
<1>2. IsFiniteSet(taken) /\ Cardinality(taken) <= Cardinality(Threads) + 1
  <2>1. taken = held \cup {file}
    OBVIOUS
  <2>2. /\ IsFiniteSet(taken)
        /\ Cardinality(taken) = IF file \in held THEN Cardinality(held)
                                ELSE Cardinality(held) + 1
    BY <1>1, <2>1, FS_AddElement
  <2> QED
    BY <2>2, <1>1, FS_CardinalityType, MemoryAssumption
<1>3. Cardinality(Threads) \in Nat
  BY FS_CardinalityType, MemoryAssumption
<1>4. Cardinality(Inodes) = Cardinality(Threads) + 2
  BY <1>3, FS_Interval DEF Inodes
<1>5. ~(Inodes \subseteq taken)
  <2> SUFFICES ASSUME Inodes \subseteq taken PROVE FALSE OBVIOUS
  <2>1. Cardinality(Inodes) <= Cardinality(taken)
    BY <1>2, FS_Subset
  <2> QED BY <1>2, <1>3, <1>4, <2>1, FS_CardinalityType
<1>6. PICK n \in Inodes : n \notin taken
  BY <1>5
<1>7. NoFile \notin Inodes
  BY <1>3, MemoryAssumption DEF Inodes
<1>8. n \notin {file, tmp} \cup {fd[t] : t \in Threads}
  BY <1>6, <1>7
<1> QED
  BY <1>8 DEF FreeInode

\* Nothing is stored, and nobody is at work.
LEMMA TypesInit == Init => TypeOK
<1> SUFFICES ASSUME Init PROVE TypeOK
  OBVIOUS
<1> USE MemoryAssumption DEF Init
<1>1. up \in [Procs -> BOOLEAN]
  BY Zenon
<1>2. content \in [Inodes -> (SUBSET Items) \cup {Torn}]
  OBVIOUS
<1>3. /\ pc \in [Threads -> {"idle"}] /\ job \in [Threads -> {"none"}]
      /\ fd \in [Threads -> {NoFile}] /\ arg \in [Threads -> {NoItem}]
      /\ todo \in [Threads -> SUBSET {Key[i] : i \in Items}]
  OBVIOUS
<1> QED
  BY <1>1, <1>2, <1>3 DEF TypeOK

\* Every step keeps the types.
LEMMA TypesStep ==
  ASSUME TypeOK, Control, [Next]_vars
  PROVE  TypeOK'
<1> USE MemoryAssumption DEF GoTo, End, Raise, diskVars, dataVars, localVars, jobVars,
        historyVars, boundVars
<1>1. ASSUME NEW p \in Procs, Start(p) PROVE TypeOK'
  <2>1. up' \in [Procs -> BOOLEAN]
    BY <1>1, Zenon DEF Start, TypeOK
  <2>2. OnDisk \subseteq Items
    BY DEF OnDisk, TypeOK
  <2> QED
    BY <1>1, <2>1, <2>2 DEF Start, TypeOK
<1>2. ASSUME NEW p \in Procs, Crash(p) PROVE TypeOK'
  <2>1. up' \in [Procs -> BOOLEAN]
    BY <1>2, Zenon DEF Crash, TypeOK
  <2> QED
    BY <1>2, <2>1 DEF Crash, TypeOK
<1>3. ASSUME NEW t \in Threads, NEW i \in Items, WriteFiltered(t, i) PROVE TypeOK'
  BY <1>3 DEF WriteFiltered, Called, TypeOK
<1>4. ASSUME NEW t \in Threads, NEW i \in Items, WriteAppend(t, i) PROVE TypeOK'
  BY <1>4 DEF WriteAppend, Called, Bind, List, TypeOK
<1>5. ASSUME NEW t \in Threads, NEW k \in {Key[i] : i \in Items}, Delete(t,
           k) PROVE TypeOK'
  BY <1>5 DEF Delete, DeleteRead, Begin, Promise, Counted, List, TypeOK
<1>6. ASSUME NEW t \in Threads, Erase(t) PROVE TypeOK'
  BY <1>6 DEF Erase, Begin, Promise, Counted, Bind, TypeOK
<1>7. ASSUME NEW t \in Threads, CurateStart(t) PROVE TypeOK'
  BY <1>7 DEF CurateStart, Prunable, Counted, TypeOK
<1>8. ASSUME NEW t \in Threads, SummaryStart(t) PROVE TypeOK'
  BY <1>8 DEF SummaryStart, DeleteRead, Begin, Counted, List, TypeOK
<1>9. ASSUME NEW t \in Threads, WriteMirror(t) PROVE TypeOK'
  <2>1. db' \subseteq Items
    BY <1>9 DEF WriteMirror, Control, ControlAt, TypeOK
  <2>2. UNCHANGED <<up, items, vec, content, file, tmp>>
    BY <1>9 DEF WriteMirror
  <2>3. CASE Raise(t)
    BY <2>1, <2>2, <2>3 DEF TypeOK
  <2>4. CASE /\ GoTo(t, "index")
             /\ UNCHANGED <<arg, localVars, jobVars, historyVars, boundVars>>
    BY <2>1, <2>2, <2>4 DEF TypeOK
  <2> QED
    BY <1>9, <2>3, <2>4, Zenon DEF WriteMirror
<1>10. ASSUME NEW t \in Threads, WriteIndex(t) PROVE TypeOK'
  BY <1>10 DEF WriteIndex, Control, ControlAt, TypeOK
<1>11. ASSUME NEW t \in Threads, Dump(t) PROVE TypeOK'
  BY <1>11 DEF Dump, List, TypeOK
<1>12. ASSUME NEW t \in Threads, OpenTmp(t) PROVE TypeOK'
  BY <1>12, FreeInodeExists DEF OpenTmp, TypeOK
<1>13. ASSUME NEW t \in Threads, WriteTmp(t) PROVE TypeOK'
  BY <1>13 DEF WriteTmp, Written, Control, ControlAt, TypeOK
<1>14. ASSUME NEW t \in Threads, Replace(t) PROVE TypeOK'
  BY <1>14 DEF Replace, TypeOK
<1>15. ASSUME NEW t \in Threads, DeleteRebind(t) PROVE TypeOK'
  BY <1>15 DEF DeleteRebind, Bind, TypeOK
<1>16. ASSUME NEW t \in Threads, DeleteMirror(t) PROVE TypeOK'
  <2>1. db' \subseteq Items
    BY <1>16 DEF DeleteMirror, TypeOK
  <2>2. UNCHANGED <<up, items, vec, content, file, tmp>>
    BY <1>16 DEF DeleteMirror
  <2>3. CASE Raise(t)
    BY <2>1, <2>2, <2>3 DEF TypeOK
  <2>4. CASE /\ GoTo(t, "unindex")
             /\ UNCHANGED <<arg, localVars, jobVars, historyVars, boundVars>>
    BY <2>1, <2>2, <2>4 DEF TypeOK
  <2> QED
    BY <1>16, <2>3, <2>4, Zenon DEF DeleteMirror
<1>17. ASSUME NEW t \in Threads, DeleteIndex(t) PROVE TypeOK'
  BY <1>17 DEF DeleteIndex, TypeOK
<1>18. ASSUME NEW t \in Threads, EraseMirror(t) PROVE TypeOK'
  <2>1. db' \subseteq Items
    BY <1>18 DEF EraseMirror, TypeOK
  <2>2. UNCHANGED <<up, items, vec, content, file, tmp>>
    BY <1>18 DEF EraseMirror
  <2>3. CASE Raise(t)
    BY <2>1, <2>2, <2>3 DEF TypeOK
  <2>4. CASE /\ GoTo(t, "wipeindex")
             /\ UNCHANGED <<arg, localVars, jobVars, historyVars, boundVars>>
    BY <2>1, <2>2, <2>4 DEF TypeOK
  <2> QED
    BY <1>18, <2>3, <2>4, Zenon DEF EraseMirror
<1>19. ASSUME NEW t \in Threads, EraseIndex(t) PROVE TypeOK'
  BY <1>19 DEF EraseIndex, TypeOK
<1>20. ASSUME NEW t \in Threads, Return(t) PROVE TypeOK'
  <2>1. kept' \subseteq used /\ gone' \subseteq used
    BY <1>20 DEF Return, Control, ControlAt, TypeOK
  <2>2. UNCHANGED <<up, dataVars, diskVars, fd, used, doomed, boundVars>>
    BY <1>20 DEF Return
  <2>3. CASE End(t)
    BY <2>1, <2>2, <2>3 DEF TypeOK
  <2>4. CASE /\ GoTo(t, IF job[t] = "curate" THEN "curate" ELSE "note")
             /\ UNCHANGED <<arg, snap, victims, removed, jobVars, owed>>
    <3>1. UNCHANGED <<arg, snap, victims, removed, job, todo, owed>>
      BY <2>4
    <3>2. PICK w \in {"curate", "note"} : pc' = [pc EXCEPT ![t] = w]
      BY <2>4
    <3> QED
      BY <2>1, <2>2, <3>1, <3>2 DEF TypeOK
  <2> QED
    BY <1>20, <2>3, <2>4 DEF Return
<1>21. ASSUME NEW t \in Threads, CurateNext(t) PROVE TypeOK'
  BY <1>21 DEF CurateNext, DeleteRead, Begin, List, TypeOK
<1>22. ASSUME NEW t \in Threads, CurateEnd(t) PROVE TypeOK'
  BY <1>22 DEF CurateEnd, TypeOK
<1>23. CASE UNCHANGED vars
  BY <1>23 DEF vars, TypeOK
<1> QED
  BY <1>1, <1>2, <1>3, <1>4, <1>5, <1>6, <1>7, <1>8, <1>9, <1>10, <1>11, <1>12, <1>13,
     <1>14, <1>15, <1>16, <1>17, <1>18, <1>19, <1>20, <1>21, <1>22, <1>23 DEF Next,
     Call, Step

\* Whatever the inodes in use, one is free for a temporary file.

\* Every step leaves each thread with what its place requires.
LEMMA ControlStep ==
  ASSUME TypeOK, Control, [Next]_vars
  PROVE  Control'
<1> USE MemoryAssumption DEF GoTo, End, Raise, diskVars, dataVars, localVars, jobVars,
        historyVars, boundVars
<1>1. ASSUME NEW p \in Procs, Start(p) PROVE Control'
  BY <1>1 DEF Start, Control, ControlAt
<1>2. ASSUME NEW p \in Procs, Crash(p) PROVE Control'
  BY <1>2 DEF Crash, Control, ControlAt
<1>3. ASSUME NEW t \in Threads, NEW i \in Items, WriteFiltered(t, i) PROVE Control'
  BY <1>3 DEF WriteFiltered, Called, TypeOK, Control, ControlAt, Flushing
<1>4. ASSUME NEW t \in Threads, NEW i \in Items, WriteAppend(t, i) PROVE Control'
  <2>1. i # NoItem /\ used' = used \cup {i} /\ arg' = [arg EXCEPT ![t] = i]
        /\ pc' = [pc EXCEPT ![t] = "mirror"] /\ UNCHANGED <<fd, job, owed>>
    BY <1>4 DEF WriteAppend, Called
  <2>2. job[t] # "curate" /\ owed[t] = {}
    BY <1>4 DEF WriteAppend, Called, Request, Idle, Control, ControlAt
  <2> QED
    BY <2>1, <2>2 DEF TypeOK, Control, ControlAt
<1>5. ASSUME NEW t \in Threads, NEW k \in {Key[i] : i \in Items}, Delete(t,
           k) PROVE Control'
  BY <1>5 DEF Delete, DeleteRead, Begin, Promise, Request, Idle, TypeOK, Control,
     ControlAt, Flushing
<1>6. ASSUME NEW t \in Threads, Erase(t) PROVE Control'
  BY <1>6 DEF Erase, Begin, Promise, Request, Idle, TypeOK, Control, ControlAt,
     Flushing
<1>7. ASSUME NEW t \in Threads, CurateStart(t) PROVE Control'
  BY <1>7 DEF CurateStart, Idle, TypeOK, Control, ControlAt, Flushing
<1>8. ASSUME NEW t \in Threads, SummaryStart(t) PROVE Control'
  BY <1>8 DEF SummaryStart, DeleteRead, Begin, Idle, TypeOK, Control, ControlAt,
     Flushing
<1>9. ASSUME NEW t \in Threads, WriteMirror(t) PROVE Control'
  BY <1>9 DEF WriteMirror, TypeOK, Control, ControlAt
<1>10. ASSUME NEW t \in Threads, WriteIndex(t) PROVE Control'
  BY <1>10 DEF WriteIndex, Control, ControlAt, Flushing
<1>11. ASSUME NEW t \in Threads, Dump(t) PROVE Control'
  BY <1>11 DEF Dump, Control, ControlAt, Flushing
<1>12. ASSUME NEW t \in Threads, OpenTmp(t) PROVE Control'
  <2>1. PICK n \in Inodes : fd' = [fd EXCEPT ![t] = n]
    BY <1>12, FreeInodeExists DEF OpenTmp, TypeOK
  <2>2. n # NoFile
    BY NoFileIsNoInode
  <2>3. /\ pc[t] = "open" /\ pc' = [pc EXCEPT ![t] = "write"]
        /\ UNCHANGED <<arg, job, owed, used>>
    BY <1>12 DEF OpenTmp
  <2> QED
    BY <2>1, <2>2, <2>3 DEF TypeOK, Control, ControlAt, Flushing
<1>13. ASSUME NEW t \in Threads, WriteTmp(t) PROVE Control'
  BY <1>13 DEF WriteTmp, Written, TypeOK, Control, ControlAt, Flushing
<1>14. ASSUME NEW t \in Threads, Replace(t) PROVE Control'
  BY <1>14 DEF Replace, TypeOK, Control, ControlAt, Flushing
<1>15. ASSUME NEW t \in Threads, DeleteRebind(t) PROVE Control'
  BY <1>15 DEF DeleteRebind, Control, ControlAt, Flushing
<1>16. ASSUME NEW t \in Threads, DeleteMirror(t) PROVE Control'
  BY <1>16 DEF DeleteMirror, TypeOK, Control, ControlAt, Flushing
<1>17. ASSUME NEW t \in Threads, DeleteIndex(t) PROVE Control'
  BY <1>17 DEF DeleteIndex, Control, ControlAt, Flushing
<1>18. ASSUME NEW t \in Threads, EraseMirror(t) PROVE Control'
  BY <1>18 DEF EraseMirror, TypeOK, Control, ControlAt, Flushing
<1>19. ASSUME NEW t \in Threads, EraseIndex(t) PROVE Control'
  BY <1>19 DEF EraseIndex, Control, ControlAt, Flushing
<1>20. ASSUME NEW t \in Threads, Return(t) PROVE Control'
  BY <1>20 DEF Return, TypeOK, Control, ControlAt
<1>21. ASSUME NEW t \in Threads, CurateNext(t) PROVE Control'
  BY <1>21 DEF CurateNext, DeleteRead, Begin, Control, ControlAt
<1>22. ASSUME NEW t \in Threads, CurateEnd(t) PROVE Control'
  BY <1>22 DEF CurateEnd, TypeOK, Control, ControlAt
<1>23. CASE UNCHANGED vars
  BY <1>23 DEF vars, Control, ControlAt
<1> QED
  BY <1>1, <1>2, <1>3, <1>4, <1>5, <1>6, <1>7, <1>8, <1>9, <1>10, <1>11, <1>12, <1>13,
     <1>14, <1>15, <1>16, <1>17, <1>18, <1>19, <1>20, <1>21, <1>22, <1>23 DEF Next,
     Call, Step

\* An item becomes promised, or owed, when its write has returned.
LEMMA FreshStep ==
  ASSUME TypeOK, Control, Fresh, [Next]_vars
  PROVE  Fresh'
<1> USE MemoryAssumption DEF GoTo, End, Raise, diskVars, dataVars, localVars, jobVars,
        historyVars, boundVars
<1>1. ASSUME NEW p \in Procs, Start(p) PROVE Fresh'
  BY <1>1 DEF Start, Fresh
<1>2. ASSUME NEW p \in Procs, Crash(p) PROVE Fresh'
  BY <1>2 DEF Crash, Fresh
<1>3. ASSUME NEW t \in Threads, NEW i \in Items, WriteFiltered(t, i) PROVE Fresh'
  BY <1>3 DEF WriteFiltered, Called, TypeOK, Control, ControlAt, Fresh
<1>4. ASSUME NEW t \in Threads, NEW i \in Items, WriteAppend(t, i) PROVE Fresh'
  BY <1>4 DEF WriteAppend, Called, TypeOK, Control, ControlAt, Fresh
<1>5. ASSUME NEW t \in Threads, NEW k \in {Key[i] : i \in Items}, Delete(t,
           k) PROVE Fresh'
  BY <1>5 DEF Delete, DeleteRead, Begin, Promise, Fresh
<1>6. ASSUME NEW t \in Threads, Erase(t) PROVE Fresh'
  BY <1>6 DEF Erase, Begin, Promise, Fresh
<1>7. ASSUME NEW t \in Threads, CurateStart(t) PROVE Fresh'
  BY <1>7 DEF CurateStart, Fresh
<1>8. ASSUME NEW t \in Threads, SummaryStart(t) PROVE Fresh'
  BY <1>8 DEF SummaryStart, DeleteRead, Begin, Fresh
<1>9. ASSUME NEW t \in Threads, WriteMirror(t) PROVE Fresh'
  BY <1>9 DEF WriteMirror, TypeOK, Fresh
<1>10. ASSUME NEW t \in Threads, WriteIndex(t) PROVE Fresh'
  BY <1>10 DEF WriteIndex, Fresh
<1>11. ASSUME NEW t \in Threads, Dump(t) PROVE Fresh'
  BY <1>11 DEF Dump, Fresh
<1>12. ASSUME NEW t \in Threads, OpenTmp(t) PROVE Fresh'
  BY <1>12 DEF OpenTmp, Fresh
<1>13. ASSUME NEW t \in Threads, WriteTmp(t) PROVE Fresh'
  BY <1>13 DEF WriteTmp, Written, Fresh
<1>14. ASSUME NEW t \in Threads, Replace(t) PROVE Fresh'
  BY <1>14 DEF Replace, TypeOK, Fresh
<1>15. ASSUME NEW t \in Threads, DeleteRebind(t) PROVE Fresh'
  BY <1>15 DEF DeleteRebind, Fresh
<1>16. ASSUME NEW t \in Threads, DeleteMirror(t) PROVE Fresh'
  BY <1>16 DEF DeleteMirror, TypeOK, Fresh
<1>17. ASSUME NEW t \in Threads, DeleteIndex(t) PROVE Fresh'
  BY <1>17 DEF DeleteIndex, Fresh
<1>18. ASSUME NEW t \in Threads, EraseMirror(t) PROVE Fresh'
  BY <1>18 DEF EraseMirror, TypeOK, Fresh
<1>19. ASSUME NEW t \in Threads, EraseIndex(t) PROVE Fresh'
  BY <1>19 DEF EraseIndex, Fresh
<1>20. ASSUME NEW t \in Threads, Return(t) PROVE Fresh'
  <2>1. kept' = kept \cup ((Items \cap {arg[t]}) \ doomed)
        /\ gone' \subseteq gone \cup owed[t]
    BY <1>20 DEF Return
  <2>2. \A u \in Threads : arg[u] # NoItem => arg[u] \notin gone'
    BY <2>1 DEF Fresh
  <2>3. \A u \in Threads : u # t /\ arg[u] # NoItem => arg[u] \notin kept'
    BY <2>1 DEF Fresh
  <2>4. CASE End(t)
    <3>1. arg'[t] = NoItem /\ owed'[t] = {}
      BY <2>4 DEF TypeOK
    <3>2. \A u \in Threads : u # t => arg'[u] = arg[u] /\ owed'[u] = owed[u]
      BY <2>4
    <3> QED
      BY <2>2, <2>3, <3>1, <3>2 DEF Fresh
  <2>5. CASE UNCHANGED <<arg, owed>> /\ arg[t] = NoItem
    BY <2>2, <2>3, <2>5 DEF Fresh
  <2> QED
    BY <1>20, <2>4, <2>5 DEF Return, Control, ControlAt
<1>21. ASSUME NEW t \in Threads, CurateNext(t) PROVE Fresh'
  BY <1>21 DEF CurateNext, DeleteRead, Begin, Fresh
<1>22. ASSUME NEW t \in Threads, CurateEnd(t) PROVE Fresh'
  BY <1>22 DEF CurateEnd, Fresh
<1>23. CASE UNCHANGED vars
  BY <1>23 DEF vars, Fresh
<1> QED
  BY <1>1, <1>2, <1>3, <1>4, <1>5, <1>6, <1>7, <1>8, <1>9, <1>10, <1>11, <1>12, <1>13,
     <1>14, <1>15, <1>16, <1>17, <1>18, <1>19, <1>20, <1>21, <1>22, <1>23 DEF Next,
     Call, Step

\* What was removed from the database comes back through no write.
LEMMA DroppedStep ==
  ASSUME TypeOK, Control, Fresh, Dropped, MirrorForgets, [Next]_vars
  PROVE  (Dropped /\ MirrorForgets)'
<1> USE MemoryAssumption DEF GoTo, End, Raise, diskVars, dataVars, localVars, jobVars,
        historyVars, boundVars
<1>1. ASSUME NEW p \in Procs, Start(p) PROVE (Dropped /\ MirrorForgets)'
  BY <1>1 DEF Start, Dropped, MirrorForgets
<1>2. ASSUME NEW p \in Procs, Crash(p) PROVE (Dropped /\ MirrorForgets)'
  BY <1>2 DEF Crash, Dropped, MirrorForgets
<1>3. ASSUME NEW t \in Threads, NEW i \in Items, WriteFiltered(t,
           i) PROVE (Dropped /\ MirrorForgets)'
  BY <1>3 DEF WriteFiltered, Called, TypeOK, Control, ControlAt, Fresh, Dropped,
        MirrorForgets, Flushing
<1>4. ASSUME NEW t \in Threads, NEW i \in Items, WriteAppend(t,
           i) PROVE (Dropped /\ MirrorForgets)'
  BY <1>4 DEF WriteAppend, Dropped, MirrorForgets, Flushing
<1>5. ASSUME NEW t \in Threads, NEW k \in {Key[i] : i \in Items}, Delete(t,
           k) PROVE (Dropped /\ MirrorForgets)'
  BY <1>5 DEF Delete, DeleteRead, Begin, Promise, TypeOK, Dropped, MirrorForgets,
     Flushing
<1>6. ASSUME NEW t \in Threads, Erase(t) PROVE (Dropped /\ MirrorForgets)'
  BY <1>6 DEF Erase, Begin, Promise, Request, Idle, Dropped, MirrorForgets, Flushing
<1>7. ASSUME NEW t \in Threads, CurateStart(t) PROVE (Dropped /\ MirrorForgets)'
  BY <1>7 DEF CurateStart, Dropped, MirrorForgets, Flushing
<1>8. ASSUME NEW t \in Threads, SummaryStart(t) PROVE (Dropped /\ MirrorForgets)'
  BY <1>8 DEF SummaryStart, DeleteRead, Begin, Idle, Control, ControlAt, Dropped,
     MirrorForgets
<1>9. ASSUME NEW t \in Threads, WriteMirror(t) PROVE (Dropped /\ MirrorForgets)'
  BY <1>9 DEF WriteMirror, TypeOK, Fresh, Dropped, MirrorForgets, Flushing
<1>10. ASSUME NEW t \in Threads, WriteIndex(t) PROVE (Dropped /\ MirrorForgets)'
  BY <1>10 DEF WriteIndex, Control, ControlAt, Dropped, MirrorForgets
<1>11. ASSUME NEW t \in Threads, Dump(t) PROVE (Dropped /\ MirrorForgets)'
  BY <1>11 DEF Dump, Dropped, MirrorForgets, Flushing
<1>12. ASSUME NEW t \in Threads, OpenTmp(t) PROVE (Dropped /\ MirrorForgets)'
  BY <1>12 DEF OpenTmp, Dropped, MirrorForgets, Flushing
<1>13. ASSUME NEW t \in Threads, WriteTmp(t) PROVE (Dropped /\ MirrorForgets)'
  BY <1>13 DEF WriteTmp, Written, Dropped, MirrorForgets, Flushing
<1>14. ASSUME NEW t \in Threads, Replace(t) PROVE (Dropped /\ MirrorForgets)'
  BY <1>14 DEF Replace, TypeOK, Dropped, MirrorForgets, Flushing
<1>15. ASSUME NEW t \in Threads, DeleteRebind(t) PROVE (Dropped /\ MirrorForgets)'
  BY <1>15 DEF DeleteRebind, Dropped, MirrorForgets, Flushing
<1>16. ASSUME NEW t \in Threads, DeleteMirror(t) PROVE (Dropped /\ MirrorForgets)'
  BY <1>16 DEF DeleteMirror, TypeOK, Dropped, MirrorForgets
<1>17. ASSUME NEW t \in Threads, DeleteIndex(t) PROVE (Dropped /\ MirrorForgets)'
  BY <1>17 DEF DeleteIndex, Dropped, MirrorForgets
<1>18. ASSUME NEW t \in Threads, EraseMirror(t) PROVE (Dropped /\ MirrorForgets)'
  <2>1. pc[t] = "wipe" /\ db' \in {db, {}} /\ UNCHANGED <<items, content, file>>
    BY <1>18 DEF EraseMirror
  <2>2. CASE Raise(t)
    <3>1. pc' = [pc EXCEPT ![t] = "idle"] /\ owed' = [owed EXCEPT ![t] = {}] /\ gone' = gone
      BY <2>2
    <3>2. victims' = [victims EXCEPT ![t] = {}]
      BY <2>2
    <3> QED
      BY <2>1, <3>1, <3>2 DEF TypeOK, Dropped, MirrorForgets, Flushing
  <2>3. CASE /\ db' = {} /\ GoTo(t, "wipeindex")
             /\ UNCHANGED <<arg, localVars, jobVars, historyVars, boundVars>>
    BY <2>3 DEF TypeOK, Dropped, MirrorForgets, Flushing
  <2> QED
    BY <1>18, <2>2, <2>3, Zenon DEF EraseMirror
<1>19. ASSUME NEW t \in Threads, EraseIndex(t) PROVE (Dropped /\ MirrorForgets)'
  BY <1>19 DEF EraseIndex, Dropped, MirrorForgets
<1>20. ASSUME NEW t \in Threads, Return(t) PROVE (Dropped /\ MirrorForgets)'
  BY <1>20 DEF Return, TypeOK, Dropped, MirrorForgets, Flushing
<1>21. ASSUME NEW t \in Threads, CurateNext(t) PROVE (Dropped /\ MirrorForgets)'
  BY <1>21 DEF CurateNext, DeleteRead, Begin, Control, ControlAt, Dropped,
     MirrorForgets
<1>22. ASSUME NEW t \in Threads, CurateEnd(t) PROVE (Dropped /\ MirrorForgets)'
  BY <1>22 DEF CurateEnd, Dropped, MirrorForgets, Flushing
<1>23. CASE UNCHANGED vars
  BY <1>23 DEF vars, Dropped, MirrorForgets
<1> QED
  BY <1>1, <1>2, <1>3, <1>4, <1>5, <1>6, <1>7, <1>8, <1>9, <1>10, <1>11, <1>12, <1>13,
     <1>14, <1>15, <1>16, <1>17, <1>18, <1>19, <1>20, <1>21, <1>22, <1>23 DEF Next,
     Call, Step

\* The invariant holds.
LEMMA LedgerInvariant == Spec => []Ledger
<1>1. Init => Ledger
  <2> SUFFICES ASSUME Init PROVE Ledger
    OBVIOUS
  <2>1. Control /\ Fresh /\ Dropped /\ MirrorForgets
    BY DEF Init, Control, ControlAt, Fresh, Dropped, MirrorForgets
  <2> QED
    BY <2>1, TypesInit DEF Ledger
<1>2. Ledger /\ [Next]_vars => Ledger'
  BY TypesStep, ControlStep, FreshStep, DroppedStep DEF Ledger
<1> QED
  BY <1>1, <1>2, PTL DEF Spec

\* The state of the service, of its files and of its callers is always well formed
\* (MemoryService, app/memory/service.py).
THEOREM TypesHold == Spec => []TypeOK
<1>1. Ledger => TypeOK
  BY DEF Ledger
<1> QED
  BY <1>1, LedgerInvariant, PTL

\* What a removal was acknowledged for stays out of the database, however many
\* threads and processes write, delete, erase, fail and crash meanwhile
\* (delete and erase_all, app/memory/service.py).
THEOREM ForgottenForGood == Spec => []MirrorForgets
<1>1. Ledger => MirrorForgets
  BY DEF Ledger
<1> QED
  BY <1>1, LedgerInvariant, PTL

-----------------------------------------------------------------------------
(***************************************************************************)
(* One caller: what the file, the list and the summaries promise. With two *)
(* threads the list may be rebound over what the other appended, and two   *)
(* processes flush their own lists over each other's.                      *)
(***************************************************************************)

\* One thread calls: its calls do not meet others.
OneCaller == \A t, u \in Threads : t = u

\* Nobody but the summary job writes under the key of a day's summary, and apart
\* from the summaries a stale item shares its key with stale items only, so that
\* pruning by key prunes what is stale (curate_memories deletes by key).
Tidy ==
  /\ \A i \in Notes, j \in Items : Key[i] = Key[j] => j \in Notes
  /\ \A i \in Stale, j \in Items \ Stale : Key[i] = Key[j] => i \in Notes

\* The file keeps what was promised to stay, and nothing that was promised to go;
\* it is never the one that is being written.
Disk ==
  /\ Tidy => kept \subseteq OnDisk
  /\ gone \cap OnDisk = {}
  /\ file = tmp => file = NoFile

\* The file that is flushed has the list, from its serialisation to the end of the
\* call, unless the call had nothing to flush.
FlushAt(t) ==
  /\ ~up[ProcOf[t]] => pc[t] = "idle"
  /\ pc[t] \in {"open", "write", "replace"} => snap[t] = List(t)
  /\ fd[t] = IF pc[t] = "write" THEN tmp ELSE NoFile
  /\ pc[t] = "write" => content[tmp] = Torn
  /\ pc[t] = "replace" => tmp # NoFile /\ content[tmp] = List(t)
  /\ pc[t] = "return" => OnDisk = List(t) \/ (removed[t] = {} /\ arg[t] = NoItem)

Flushed == \A t \in Threads : FlushAt(t)

\* The list has what was promised to stay, and nothing that is owed or gone, at the
\* latest once a removal has rebound it; a curation has only stale keys to delete.
ListAt(t) ==
  /\ up[ProcOf[t]] => gone \cap List(t) = {}
  /\ pc[t] = "rebind" =>
       snap[t] = List(t) \ victims[t] /\ removed[t] = List(t) \cap victims[t]
  /\ arg[t] # NoItem => arg[t] \in List(t)
  /\ pc[t] # "rebind" => owed[t] \cap List(t) = {}
  /\ Tidy =>
       /\ up[ProcOf[t]] => kept \subseteq List(t)
       /\ pc[t] = "rebind" => kept \subseteq snap[t]
       /\ job[t] = "curate" => \A j \in kept : Key[j] \in todo[t] => j \in Stale

Listed == \A t \in Threads : ListAt(t)

\* The job of the day's summary: its victims are the notes of the day, and apart
\* from the one it writes they leave the list first and then the database.
SummaryAt(t) ==
  /\ arg[t] \in Notes => job[t] = "summary"
  /\ job[t] = "summary" =>
       /\ victims[t] = {i \in Items : Key[i] \in todo[t]}
       /\ kept \cap victims[t] = {}
       /\ arg[t] \in victims[t] \cup {NoItem}
       /\ \A i, j \in victims[t] : Key[i] = Key[j]
       /\ pc[t] # "rebind" => victims[t] \cap List(t) \subseteq {arg[t]}
       /\ pc[t] \notin {"rebind", "unmirror"} => victims[t] \cap db \subseteq {arg[t]}

Summaries == \A t \in Threads : SummaryAt(t)

\* A note that was acknowledged is the only one of its day, in the file, in the
\* database and in the list: a curation that finds a stale note finds that one.
LastNote ==
  \A i, j \in Notes : j \in kept /\ Key[i] = Key[j] /\ i # j =>
    /\ i \notin OnDisk \cup db
    /\ \A t \in Threads : i \notin List(t)

\* The inductive invariant, on top of Ledger.
Solo == Disk /\ Flushed /\ Listed /\ Summaries /\ LastNote

\* What a restart loads depends on the file alone.
LEMMA DiskStill == UNCHANGED <<content, file>> => OnDisk' = OnDisk
BY DEF OnDisk

\* The temporary file is another file.
LEMMA DiskUntouched ==
  ASSUME Ledger, Disk, Flushed, NEW t \in Threads, OpenTmp(t) \/ WriteTmp(t)
  PROVE  OnDisk' = OnDisk
<1>1. PICK n, c : content' = [content EXCEPT ![n] = c] /\ n # file
  <2>1. CASE OpenTmp(t)
    <3>1. CASE tmp = NoFile
      BY <2>1, <3>1, FreeInodeExists DEF OpenTmp, Ledger
    <3>2. CASE tmp # NoFile
      BY <2>1, <3>2 DEF OpenTmp, Disk
    <3> QED
      BY <3>1, <3>2
  <2>2. CASE WriteTmp(t)
    <3>1. fd[t] = tmp /\ tmp # NoFile
      BY <2>2 DEF WriteTmp, Ledger, Control, ControlAt, Flushed, FlushAt
    <3>2. tmp # file
      BY <3>1 DEF Disk
    <3> QED
      BY <2>2, <3>1, <3>2 DEF WriteTmp
  <2> QED
    BY <2>1, <2>2
<1>2. file' = file
  BY DEF OpenTmp, WriteTmp
<1>3. file # NoFile => content'[file] = content[file]
  BY <1>1
<1> QED
  BY <1>2, <1>3 DEF OnDisk

\* The rename puts the whole list in place; it cannot fail.
LEMMA DiskReplaced ==
  ASSUME Ledger, Flushed, NEW t \in Threads, Replace(t)
  PROVE  /\ OnDisk' = List(t) /\ file' = tmp /\ tmp' = NoFile /\ tmp # NoFile
         /\ pc[t] = "replace" /\ pc' = [pc EXCEPT ![t] = "return"]
         /\ UNCHANGED <<up, dataVars, content, arg, localVars, jobVars, historyVars,
                        boundVars>>
<1>1. pc[t] = "replace" /\ tmp # NoFile /\ content[tmp] = List(t)
  BY DEF Replace, Flushed, FlushAt
<1>2. /\ file' = tmp /\ tmp' = NoFile /\ pc' = [pc EXCEPT ![t] = "return"]
      /\ UNCHANGED <<up, dataVars, content, arg, localVars, jobVars, historyVars,
                     boundVars>>
  BY <1>1 DEF Replace, GoTo, End
<1>3. List(t) \subseteq Items /\ NoItem \notin Items
  BY MemoryAssumption DEF Ledger, TypeOK, List
<1>4. OnDisk' = List(t)
  BY <1>1, <1>2, <1>3 DEF OnDisk, Torn
<1> QED
  BY <1>1, <1>2, <1>4

\* Every step keeps the files and the list together.
LEMMA FlushStep ==
  ASSUME OneCaller, Ledger, Solo, [Next]_vars
  PROVE  (Disk /\ Flushed)'
<1> USE MemoryAssumption DEF GoTo, End, Raise, diskVars, dataVars, localVars, jobVars,
        historyVars, boundVars
<1>1. ASSUME NEW p \in Procs, Start(p) PROVE (Disk /\ Flushed)'
  BY <1>1 DEF Start, OnDisk, Solo, Disk, Flushed, FlushAt, List
<1>2. ASSUME NEW p \in Procs, Crash(p) PROVE (Disk /\ Flushed)'
  BY <1>2, DiskStill DEF Crash, Solo, Disk, Flushed, FlushAt, List
<1>3. ASSUME NEW t \in Threads, NEW i \in Items, WriteFiltered(t,
           i) PROVE (Disk /\ Flushed)'
  <2>1. Flushed /\ Disk /\ \A u \in Threads : u = t
    BY DEF Solo, OneCaller
  <2>2. /\ pc[t] \in {"idle", "note"} /\ up[ProcOf[t]]
        /\ pc' = [pc EXCEPT ![t] = "idle"]
        /\ UNCHANGED <<up, content, file, tmp, fd, kept, gone>>
    BY <1>3, <2>1 DEF WriteFiltered, Called, Request, Idle, Flushed, FlushAt
  <2>3. pc'[t] = "idle" /\ fd[t] = NoFile
    BY <2>1, <2>2 DEF Ledger, TypeOK, Flushed, FlushAt
  <2>4. Disk' /\ FlushAt(t)'
    BY <2>1, <2>2, <2>3, DiskStill DEF Disk, FlushAt
  <2> QED
    BY <2>1, <2>4 DEF Flushed
<1>4. ASSUME NEW t \in Threads, NEW i \in Items, WriteAppend(t,
           i) PROVE (Disk /\ Flushed)'
  <2>1. Flushed /\ Disk /\ \A u \in Threads : u = t
    BY DEF Solo, OneCaller
  <2>2. /\ pc[t] \in {"idle", "note"} /\ up[ProcOf[t]]
        /\ pc' = [pc EXCEPT ![t] = "mirror"]
        /\ UNCHANGED <<up, content, file, tmp, fd, kept, gone>>
    BY <1>4, <2>1 DEF WriteAppend, Called, Request, Idle, Flushed, FlushAt
  <2>3. pc'[t] = "mirror" /\ fd[t] = NoFile
    BY <2>1, <2>2 DEF Ledger, TypeOK, Flushed, FlushAt
  <2>4. Disk' /\ FlushAt(t)'
    BY <2>1, <2>2, <2>3, DiskStill DEF Disk, FlushAt
  <2> QED
    BY <2>1, <2>4 DEF Flushed
<1>5. ASSUME NEW t \in Threads, NEW k \in {Key[i] : i \in Items}, Delete(t,
           k) PROVE (Disk /\ Flushed)'
  BY <1>5, DiskStill DEF Delete, DeleteRead, Begin, Request, Idle, OneCaller, Solo,
     Disk, Flushed, FlushAt
<1>6. ASSUME NEW t \in Threads, Erase(t) PROVE (Disk /\ Flushed)'
  BY <1>6, DiskStill DEF Erase, Begin, Request, Idle, OneCaller, Solo, Disk, Flushed,
     FlushAt
<1>7. ASSUME NEW t \in Threads, CurateStart(t) PROVE (Disk /\ Flushed)'
  BY <1>7, DiskStill DEF CurateStart, Idle, OneCaller, Solo, Disk, Flushed, FlushAt
<1>8. ASSUME NEW t \in Threads, SummaryStart(t) PROVE (Disk /\ Flushed)'
  BY <1>8, DiskStill DEF SummaryStart, DeleteRead, Begin, Idle, OneCaller, Solo, Disk,
     Flushed, FlushAt
<1>9. ASSUME NEW t \in Threads, WriteMirror(t) PROVE (Disk /\ Flushed)'
  BY <1>9, DiskStill DEF WriteMirror, Ledger, TypeOK, OneCaller, Solo, Disk, Flushed,
     FlushAt
<1>10. ASSUME NEW t \in Threads, WriteIndex(t) PROVE (Disk /\ Flushed)'
  BY <1>10, DiskStill DEF WriteIndex, OneCaller, Solo, Disk, Flushed, FlushAt
<1>11. ASSUME NEW t \in Threads, Dump(t) PROVE (Disk /\ Flushed)'
  BY <1>11, DiskStill DEF Dump, List, Ledger, TypeOK, Solo, Disk, Flushed, FlushAt,
     List
<1>12. ASSUME NEW t \in Threads, OpenTmp(t) PROVE (Disk /\ Flushed)'
  <2>1. Flushed /\ Disk /\ \A u \in Threads : u = t
    BY DEF Solo, OneCaller
  <2>2. PICK n : /\ tmp' = n /\ content' = [content EXCEPT ![n] = Torn]
                 /\ fd' = [fd EXCEPT ![t] = n] /\ n \in Inodes /\ n # file
    <3>1. CASE tmp = NoFile
      BY <1>12, <3>1, FreeInodeExists DEF OpenTmp, Ledger
    <3>2. CASE tmp # NoFile
      BY <1>12, <2>1, <3>2 DEF OpenTmp, Disk, Ledger, TypeOK
    <3> QED
      BY <3>1, <3>2
  <2>3. /\ pc[t] = "open" /\ up[ProcOf[t]] /\ snap[t] = List(t)
        /\ pc' = [pc EXCEPT ![t] = "write"]
        /\ UNCHANGED <<up, items, snap, file, kept, gone>>
    BY <1>12, <2>1 DEF OpenTmp, Flushed, FlushAt
  <2>4. /\ pc'[t] = "write" /\ fd'[t] = tmp' /\ content'[tmp'] = Torn
        /\ tmp' # file' /\ List(t)' = List(t)
    BY <2>2, <2>3 DEF Ledger, TypeOK, List
  <2>5. Disk' /\ FlushAt(t)'
    BY <1>12, <2>1, <2>3, <2>4, DiskUntouched DEF Disk, FlushAt
  <2> QED
    BY <2>1, <2>5 DEF Flushed
<1>13. ASSUME NEW t \in Threads, WriteTmp(t) PROVE (Disk /\ Flushed)'
  <2>1. Flushed /\ Disk /\ \A u \in Threads : u = t
    BY DEF Solo, OneCaller
  <2>2. /\ pc[t] = "write" /\ up[ProcOf[t]] /\ fd[t] = tmp /\ content[tmp] = Torn
        /\ tmp \in Inodes
    BY <1>13, <2>1 DEF WriteTmp, Flushed, FlushAt, Ledger, TypeOK, Control, ControlAt
  <2>3. Written(t) = {snap[t]}
    BY <2>1, <2>2 DEF Written
  <2>4. /\ content' = [content EXCEPT ![tmp] = snap[t]]
        /\ fd' = [fd EXCEPT ![t] = NoFile]
        /\ pc' = [pc EXCEPT ![t] = "replace"]
        /\ UNCHANGED <<up, items, file, tmp, snap, kept, gone>>
    BY <1>13, <2>2, <2>3 DEF WriteTmp
  <2>5. /\ pc'[t] = "replace" /\ fd'[t] = NoFile /\ content'[tmp'] = snap[t]
        /\ List(t)' = List(t)
    BY <2>2, <2>4 DEF Ledger, TypeOK, List
  <2>6. snap[t] = List(t) /\ tmp # NoFile
    BY <2>1, <2>2, NoFileIsNoInode DEF Flushed, FlushAt
  <2>7. Disk' /\ FlushAt(t)'
    BY <1>13, <2>1, <2>2, <2>4, <2>5, <2>6, DiskUntouched DEF Disk, FlushAt
  <2> QED
    BY <2>1, <2>7 DEF Flushed
<1>14. ASSUME NEW t \in Threads, Replace(t) PROVE (Disk /\ Flushed)'
  <2>1. Flushed /\ Disk /\ Listed
    BY DEF Solo
  <2>2. List(t)' = List(t)
    BY <1>14, <2>1, DiskReplaced DEF List
  <2>3. (Tidy => kept \subseteq List(t)) /\ gone \cap List(t) = {}
    BY <1>14, <2>1, DiskReplaced DEF Listed, ListAt, Flushed, FlushAt
  <2>4. \A u \in Threads : u = t
    BY DEF OneCaller
  <2>5. pc'[t] = "return" /\ fd[t] = NoFile
    BY <1>14, <2>1, DiskReplaced DEF Ledger, TypeOK, Flushed, FlushAt
  <2>6. up[ProcOf[t]]
    BY <1>14, <2>1, DiskReplaced DEF Flushed, FlushAt
  <2>7. Disk'
    BY <1>14, <2>1, <2>3, DiskReplaced DEF Disk
  <2>8. FlushAt(t)'
    BY <1>14, <2>1, <2>2, <2>5, <2>6, DiskReplaced DEF FlushAt
  <2> QED
    BY <2>4, <2>7, <2>8 DEF Flushed
<1>15. ASSUME NEW t \in Threads, DeleteRebind(t) PROVE (Disk /\ Flushed)'
  BY <1>15, DiskStill DEF DeleteRebind, OneCaller, Solo, Disk, Flushed, FlushAt
<1>16. ASSUME NEW t \in Threads, DeleteMirror(t) PROVE (Disk /\ Flushed)'
  BY <1>16, DiskStill DEF DeleteMirror, Ledger, TypeOK, OneCaller, Solo, Disk,
     Flushed, FlushAt
<1>17. ASSUME NEW t \in Threads, DeleteIndex(t) PROVE (Disk /\ Flushed)'
  BY <1>17, DiskStill DEF DeleteIndex, Ledger, Control, ControlAt, OneCaller, Solo,
     Disk, Flushed, FlushAt, Flushing
<1>18. ASSUME NEW t \in Threads, EraseMirror(t) PROVE (Disk /\ Flushed)'
  BY <1>18, DiskStill DEF EraseMirror, Ledger, TypeOK, OneCaller, Solo, Disk, Flushed,
     FlushAt
<1>19. ASSUME NEW t \in Threads, EraseIndex(t) PROVE (Disk /\ Flushed)'
  BY <1>19, DiskStill DEF EraseIndex, OneCaller, Solo, Disk, Flushed, FlushAt
<1>20. ASSUME NEW t \in Threads, Return(t) PROVE (Disk /\ Flushed)'
  BY <1>20, DiskStill DEF Return, Ledger, TypeOK, OneCaller, Solo, Disk, Flushed,
     FlushAt, Listed, ListAt
<1>21. ASSUME NEW t \in Threads, CurateNext(t) PROVE (Disk /\ Flushed)'
  BY <1>21, DiskStill DEF CurateNext, DeleteRead, Begin, OneCaller, Solo, Disk,
     Flushed, FlushAt
<1>22. ASSUME NEW t \in Threads, CurateEnd(t) PROVE (Disk /\ Flushed)'
  BY <1>22, DiskStill DEF CurateEnd, OneCaller, Solo, Disk, Flushed, FlushAt
<1>23. CASE UNCHANGED vars
  BY <1>23, DiskStill DEF vars, Solo, Disk, Flushed, FlushAt, List
<1> QED
  BY <1>1, <1>2, <1>3, <1>4, <1>5, <1>6, <1>7, <1>8, <1>9, <1>10, <1>11, <1>12, <1>13,
     <1>14, <1>15, <1>16, <1>17, <1>18, <1>19, <1>20, <1>21, <1>22, <1>23 DEF Next,
     Call, Step

\* Every step keeps what the list promises.
LEMMA ListStep ==
  ASSUME OneCaller, Ledger, Solo, [Next]_vars
  PROVE  Listed'
<1> USE MemoryAssumption DEF GoTo, End, Raise, diskVars, dataVars, localVars, jobVars,
        historyVars, boundVars
<1>1. ASSUME NEW p \in Procs, Start(p) PROVE Listed'
  BY <1>1 DEF Start, Ledger, TypeOK, Control, ControlAt, Solo, Disk, Flushed, FlushAt,
     Flushing, List, Listed, ListAt
<1>2. ASSUME NEW p \in Procs, Crash(p) PROVE Listed'
  BY <1>2 DEF Crash, Ledger, TypeOK, Solo, List, Listed, ListAt
<1>3. ASSUME NEW t \in Threads, NEW i \in Items, WriteFiltered(t, i) PROVE Listed'
  BY <1>3 DEF WriteFiltered, Called, Ledger, TypeOK, Control, ControlAt, OneCaller,
        Solo, Disk, Flushed, FlushAt, Flushing, List, Listed, ListAt, Tidy
<1>4. ASSUME NEW t \in Threads, NEW i \in Items, WriteAppend(t, i) PROVE Listed'
  <2>1. \A u \in Threads : u = t
    BY DEF OneCaller
  <2>2. /\ pc[t] \in {"idle", "note"} /\ pc'[t] = "mirror" /\ arg'[t] = i
        /\ items' = [items EXCEPT ![ProcOf[t]] = List(t) \cup {i}]
        /\ i \notin used
        /\ UNCHANGED <<up, snap, victims, removed, owed, kept, gone, job, todo>>
    BY <1>4 DEF WriteAppend, Called, Request, Idle, Bind, Ledger, TypeOK
  <2>3. List(t)' = List(t) \cup {i}
    BY <2>2 DEF List, Ledger, TypeOK
  <2>4. i \notin gone /\ i \notin owed[t] /\ job[t] # "curate"
    BY <2>2 DEF Ledger, TypeOK, Control, ControlAt
  <2>5. ListAt(t)'
    BY <2>2, <2>3, <2>4 DEF Solo, Listed, ListAt
  <2> QED
    BY <2>1, <2>5 DEF Listed
<1>5. ASSUME NEW t \in Threads, NEW k \in {Key[i] : i \in Items}, Delete(t,
           k) PROVE Listed'
  BY <1>5 DEF Delete, DeleteRead, Begin, Promise, Request, Idle, List, Ledger, TypeOK,
     Control, ControlAt, Solo, List, Listed, ListAt
<1>6. ASSUME NEW t \in Threads, Erase(t) PROVE Listed'
  BY <1>6 DEF Erase, Begin, Request, Idle, Bind, Ledger, TypeOK, Control, ControlAt,
     OneCaller, Flushing, List, Listed, ListAt
<1>7. ASSUME NEW t \in Threads, CurateStart(t) PROVE Listed'
  <2>1. \A u \in Threads : u = t
    BY DEF OneCaller
  <2>2. /\ up[ProcOf[t]] /\ pc[t] = "idle" /\ pc'[t] = "curate" /\ todo'[t] = Prunable(t)
        /\ UNCHANGED <<up, items, arg, snap, victims, removed, owed, kept, gone>>
    BY <1>7 DEF CurateStart, Idle, Ledger, TypeOK
  <2>3. ASSUME Tidy, NEW j \in kept, Key[j] \in Prunable(t) PROVE j \in Stale
    <3>1. PICK i \in (List(t) \cup db) \cap Stale : Key[i] = Key[j]
      BY <2>3 DEF Prunable
    <3>2. SUFFICES ASSUME j \notin Stale PROVE FALSE
      OBVIOUS
    <3>3. j \in Items /\ i \in Items
      BY DEF Ledger, TypeOK
    <3>4. i \in Notes /\ j \in Notes /\ i # j
      BY <2>3, <3>1, <3>2, <3>3 DEF Tidy
    <3> QED
      BY <3>1, <3>4 DEF Solo, LastNote
  <2>4. ListAt(t)'
    BY <2>2, <2>3 DEF Solo, Listed, ListAt, List
  <2> QED
    BY <2>1, <2>4 DEF Listed
<1>8. ASSUME NEW t \in Threads, SummaryStart(t) PROVE Listed'
  BY <1>8 DEF SummaryStart, DeleteRead, Begin, Idle, List, Ledger, TypeOK, Control,
     ControlAt, Solo, List, Listed, ListAt
<1>9. ASSUME NEW t \in Threads, WriteMirror(t) PROVE Listed'
  BY <1>9 DEF WriteMirror, Ledger, TypeOK, Solo, List, Listed, ListAt
<1>10. ASSUME NEW t \in Threads, WriteIndex(t) PROVE Listed'
  BY <1>10 DEF WriteIndex, Solo, List, Listed, ListAt
<1>11. ASSUME NEW t \in Threads, Dump(t) PROVE Listed'
  BY <1>11 DEF Dump, List, Solo, List, Listed, ListAt
<1>12. ASSUME NEW t \in Threads, OpenTmp(t) PROVE Listed'
  BY <1>12 DEF OpenTmp, Solo, List, Listed, ListAt
<1>13. ASSUME NEW t \in Threads, WriteTmp(t) PROVE Listed'
  BY <1>13 DEF WriteTmp, Written, Solo, List, Listed, ListAt
<1>14. ASSUME NEW t \in Threads, Replace(t) PROVE Listed'
  BY <1>14 DEF Replace, Ledger, TypeOK, Solo, List, Listed, ListAt
<1>15. ASSUME NEW t \in Threads, DeleteRebind(t) PROVE Listed'
  <2>1. \A u \in Threads : u = t
    BY DEF OneCaller
  <2>2. /\ pc[t] = "rebind" /\ pc'[t] = "unmirror"
        /\ items' = [items EXCEPT ![ProcOf[t]] = snap[t]]
        /\ UNCHANGED <<up, arg, victims, removed, owed, kept, gone, job, todo>>
    BY <1>15 DEF DeleteRebind, Bind, Ledger, TypeOK
  <2>3. List(t)' = snap[t]
    BY <2>2 DEF List, Ledger, TypeOK
  <2>4. owed[t] \subseteq victims[t] /\ arg[t] = NoItem
    BY <2>2 DEF Ledger, Dropped, Control, ControlAt, Flushing
  <2>5. /\ up[ProcOf[t]] /\ snap[t] = List(t) \ victims[t]
        /\ Tidy => kept \subseteq snap[t]
    BY <2>2 DEF Solo, Flushed, FlushAt, Listed, ListAt
  <2>6. ListAt(t)'
    BY <2>2, <2>3, <2>4, <2>5 DEF Solo, Listed, ListAt
  <2> QED
    BY <2>1, <2>6 DEF Listed
<1>16. ASSUME NEW t \in Threads, DeleteMirror(t) PROVE Listed'
  BY <1>16 DEF DeleteMirror, Ledger, TypeOK, Solo, List, Listed, ListAt
<1>17. ASSUME NEW t \in Threads, DeleteIndex(t) PROVE Listed'
  BY <1>17 DEF DeleteIndex, Solo, List, Listed, ListAt
<1>18. ASSUME NEW t \in Threads, EraseMirror(t) PROVE Listed'
  BY <1>18 DEF EraseMirror, Ledger, TypeOK, Solo, List, Listed, ListAt
<1>19. ASSUME NEW t \in Threads, EraseIndex(t) PROVE Listed'
  BY <1>19 DEF EraseIndex, Solo, List, Listed, ListAt
<1>20. ASSUME NEW t \in Threads, Return(t) PROVE Listed'
  BY <1>20 DEF Return, Ledger, TypeOK, Control, ControlAt, OneCaller, Solo, List,
     Listed, ListAt
<1>21. ASSUME NEW t \in Threads, CurateNext(t) PROVE Listed'
  BY <1>21 DEF CurateNext, DeleteRead, Begin, List, Ledger, TypeOK, Solo, Flushed,
     FlushAt, List, Listed, ListAt
<1>22. ASSUME NEW t \in Threads, CurateEnd(t) PROVE Listed'
  BY <1>22 DEF CurateEnd, Solo, List, Listed, ListAt
<1>23. CASE UNCHANGED vars
  BY <1>23 DEF vars, Solo, List, Listed, ListAt
<1> QED
  BY <1>1, <1>2, <1>3, <1>4, <1>5, <1>6, <1>7, <1>8, <1>9, <1>10, <1>11, <1>12, <1>13,
     <1>14, <1>15, <1>16, <1>17, <1>18, <1>19, <1>20, <1>21, <1>22, <1>23 DEF Next,
     Call, Step

\* Every step keeps what the job of the day's summary is about.
LEMMA SummaryStep ==
  ASSUME OneCaller, Ledger, Solo, [Next]_vars
  PROVE  Summaries'
<1> USE MemoryAssumption DEF GoTo, End, Raise, diskVars, dataVars, localVars, jobVars,
        historyVars, boundVars
<1>1. ASSUME NEW p \in Procs, Start(p) PROVE Summaries'
  <2>1. \A t \in Threads : List(t)' = List(t) \/ ~up[ProcOf[t]]
    BY <1>1 DEF Start, List
  <2>2. \A t \in Threads : ~up[ProcOf[t]] => job[t] = "none" /\ arg[t] = NoItem
    BY DEF Ledger, Control, ControlAt, Solo, Flushed, FlushAt, Flushing
  <2>3. UNCHANGED <<pc, arg, job, victims, todo, kept, db>>
    BY <1>1 DEF Start
  <2> QED
    BY <2>1, <2>2, <2>3 DEF Solo, Summaries, SummaryAt
<1>2. ASSUME NEW p \in Procs, Crash(p) PROVE Summaries'
  BY <1>2 DEF Crash, Solo, List, Summaries, SummaryAt
<1>3. ASSUME NEW t \in Threads, NEW i \in Items, WriteFiltered(t, i) PROVE Summaries'
  BY <1>3 DEF WriteFiltered, Called, Ledger, TypeOK, Control, ControlAt, Flushing,
        OneCaller, Solo, List, Listed, ListAt, Summaries, SummaryAt
<1>4. ASSUME NEW t \in Threads, NEW i \in Items, WriteAppend(t, i) PROVE Summaries'
  <2>1. \A u \in Threads : u = t
    BY DEF OneCaller
  <2>2. /\ pc[t] \in {"idle", "note"} /\ pc'[t] = "mirror" /\ arg'[t] = i
        /\ i \in Notes => pc[t] = "note" /\ Key[i] \in todo[t]
        /\ i \notin Notes => pc[t] = "idle"
        /\ items' = [items EXCEPT ![ProcOf[t]] = List(t) \cup {i}]
        /\ UNCHANGED <<db, victims, kept, job, todo>>
    BY <1>4 DEF WriteAppend, Called, Request, Idle, Bind, Ledger, TypeOK
  <2>3. List(t)' = List(t) \cup {i}
    BY <2>2 DEF List, Ledger, TypeOK
  <2>4. /\ pc[t] = "idle" => job[t] = "none"
        /\ pc[t] = "note" => job[t] = "summary"
        /\ arg[t] = NoItem
    BY <2>2 DEF Ledger, Control, ControlAt, Flushing
  <2>5. SummaryAt(t)'
    BY <2>2, <2>3, <2>4 DEF Solo, Summaries, SummaryAt
  <2> QED
    BY <2>1, <2>5 DEF Summaries
<1>5. ASSUME NEW t \in Threads, NEW k \in {Key[i] : i \in Items}, Delete(t,
           k) PROVE Summaries'
  BY <1>5 DEF Delete, DeleteRead, Request, Idle, Ledger, Control, ControlAt, Flushing,
     OneCaller, Summaries, SummaryAt
<1>6. ASSUME NEW t \in Threads, Erase(t) PROVE Summaries'
  BY <1>6 DEF Erase, Request, Idle, Ledger, Control, ControlAt, Flushing, OneCaller,
     Summaries, SummaryAt
<1>7. ASSUME NEW t \in Threads, CurateStart(t) PROVE Summaries'
  BY <1>7 DEF CurateStart, Idle, Ledger, Control, ControlAt, Flushing, OneCaller,
     Summaries, SummaryAt
<1>8. ASSUME NEW t \in Threads, SummaryStart(t) PROVE Summaries'
  <2>1. \A u \in Threads : u = t
    BY DEF OneCaller
  <2>2. PICK i \in Notes : DeleteRead(t, Key[i]) /\ todo' = [todo EXCEPT ![t] = {Key[i]}]
    BY <1>8 DEF SummaryStart
  <2> DEFINE covered == {x \in Items : Key[x] = Key[i]}
  <2>3. /\ pc'[t] = "rebind" /\ victims'[t] = covered /\ todo'[t] = {Key[i]}
        /\ arg' = arg /\ UNCHANGED <<db, items>>
    BY <2>2 DEF DeleteRead, Ledger, TypeOK
  <2>4. pc[t] = "idle" /\ job[t] = "none" /\ job'[t] = "summary" /\ arg[t] = NoItem
    BY <1>8 DEF SummaryStart, Idle, Ledger, TypeOK, Control, ControlAt, Flushing
  <2>5. kept' = kept \ covered
    BY <2>2, <2>4 DEF DeleteRead, Begin
  <2>6. SummaryAt(t)'
    BY <2>3, <2>4, <2>5 DEF SummaryAt
  <2> QED
    BY <2>1, <2>6 DEF Summaries
<1>9. ASSUME NEW t \in Threads, WriteMirror(t) PROVE Summaries'
  BY <1>9 DEF WriteMirror, Ledger, TypeOK, OneCaller, Solo, List, Summaries, SummaryAt
<1>10. ASSUME NEW t \in Threads, WriteIndex(t) PROVE Summaries'
  BY <1>10 DEF WriteIndex, Solo, List, Summaries, SummaryAt
<1>11. ASSUME NEW t \in Threads, Dump(t) PROVE Summaries'
  BY <1>11 DEF Dump, List, Solo, List, Summaries, SummaryAt
<1>12. ASSUME NEW t \in Threads, OpenTmp(t) PROVE Summaries'
  BY <1>12 DEF OpenTmp, Solo, List, Summaries, SummaryAt
<1>13. ASSUME NEW t \in Threads, WriteTmp(t) PROVE Summaries'
  BY <1>13 DEF WriteTmp, Written, Solo, List, Summaries, SummaryAt
<1>14. ASSUME NEW t \in Threads, Replace(t) PROVE Summaries'
  BY <1>14 DEF Replace, Ledger, TypeOK, Solo, List, Summaries, SummaryAt
<1>15. ASSUME NEW t \in Threads, DeleteRebind(t) PROVE Summaries'
  BY <1>15 DEF DeleteRebind, Bind, Ledger, TypeOK, Solo, List, Listed, ListAt,
     Summaries, SummaryAt
<1>16. ASSUME NEW t \in Threads, DeleteMirror(t) PROVE Summaries'
  BY <1>16 DEF DeleteMirror, Ledger, TypeOK, Solo, List, Summaries, SummaryAt
<1>17. ASSUME NEW t \in Threads, DeleteIndex(t) PROVE Summaries'
  BY <1>17 DEF DeleteIndex, Solo, List, Summaries, SummaryAt
<1>18. ASSUME NEW t \in Threads, EraseMirror(t) PROVE Summaries'
  BY <1>18 DEF EraseMirror, Ledger, TypeOK, Solo, List, Summaries, SummaryAt
<1>19. ASSUME NEW t \in Threads, EraseIndex(t) PROVE Summaries'
  BY <1>19 DEF EraseIndex, Solo, List, Summaries, SummaryAt
<1>20. ASSUME NEW t \in Threads, Return(t) PROVE Summaries'
  BY <1>20 DEF Return, Ledger, TypeOK, OneCaller, Solo, List, Summaries, SummaryAt
<1>21. ASSUME NEW t \in Threads, CurateNext(t) PROVE Summaries'
  BY <1>21 DEF CurateNext, DeleteRead, Ledger, Control, ControlAt, OneCaller,
     Summaries, SummaryAt
<1>22. ASSUME NEW t \in Threads, CurateEnd(t) PROVE Summaries'
  BY <1>22 DEF CurateEnd, OneCaller, Solo, Summaries, SummaryAt
<1>23. CASE UNCHANGED vars
  BY <1>23 DEF vars, Solo, List, Summaries, SummaryAt
<1> QED
  BY <1>1, <1>2, <1>3, <1>4, <1>5, <1>6, <1>7, <1>8, <1>9, <1>10, <1>11, <1>12, <1>13,
     <1>14, <1>15, <1>16, <1>17, <1>18, <1>19, <1>20, <1>21, <1>22, <1>23 DEF Next,
     Call, Step

\* A step that shows nothing new and promises nothing new.
LEMMA LastNoteIf ==
  ASSUME LastNote, kept' \subseteq kept,
         OnDisk' \cup db' \subseteq
           OnDisk \cup db \cup {i \in Items : \E t \in Threads : i \in List(t)},
         \A t \in Threads : List(t)' \subseteq List(t) \cup OnDisk
  PROVE  LastNote'
BY DEF LastNote

\* Every step keeps an acknowledged note the only one of its day.
LEMMA LastNoteStep ==
  ASSUME OneCaller, Ledger, Solo, [Next]_vars
  PROVE  LastNote'
<1> USE MemoryAssumption DEF GoTo, End, Raise, diskVars, dataVars, localVars, jobVars,
        historyVars, boundVars
<1>1. ASSUME NEW p \in Procs, Start(p) PROVE LastNote'
  <2>1. /\ UNCHANGED <<kept, db, content, file>>
        /\ \A u \in Threads : List(u)' \subseteq List(u) \cup OnDisk
    BY <1>1 DEF Start, List
  <2> QED
    BY <2>1, DiskStill, LastNoteIf DEF Solo
<1>2. ASSUME NEW p \in Procs, Crash(p) PROVE LastNote'
  <2>1. /\ kept' \subseteq kept /\ db' \subseteq db /\ UNCHANGED <<content, file>>
        /\ \A u \in Threads : List(u)' \subseteq List(u)
    BY <1>2 DEF Crash, List
  <2> QED
    BY <2>1, DiskStill, LastNoteIf DEF Solo
<1>3. ASSUME NEW t \in Threads, NEW i \in Items, WriteFiltered(t, i) PROVE LastNote'
  <2>1. /\ kept' \subseteq kept /\ db' \subseteq db /\ UNCHANGED <<content, file>>
        /\ \A u \in Threads : List(u)' \subseteq List(u)
    BY <1>3 DEF WriteFiltered, Called, List, Ledger, TypeOK
  <2> QED
    BY <2>1, DiskStill, LastNoteIf DEF Solo
<1>4. ASSUME NEW t \in Threads, NEW i \in Items, WriteAppend(t, i) PROVE LastNote'
  <2>1. \A u \in Threads : u = t
    BY DEF OneCaller
  <2>2. /\ i \in Notes => pc[t] = "note" /\ Key[i] \in todo[t]
        /\ i \notin Notes => pc[t] = "idle"
        /\ pc[t] = "note" \/ up[ProcOf[t]]
        /\ items' = [items EXCEPT ![ProcOf[t]] = List(t) \cup {i}]
        /\ UNCHANGED <<db, kept, content, file>>
    BY <1>4 DEF WriteAppend, Called, Request, Idle, Bind
  <2>3. List(t)' = List(t) \cup {i}
    BY <2>2 DEF List, Ledger, TypeOK
  <2>4. ASSUME i \in Notes, NEW j \in Notes, j \in kept, Key[i] = Key[j] PROVE FALSE
    <3>1. /\ arg[t] = NoItem /\ job[t] = "summary" /\ pc[t] = "note"
      BY <2>2, <2>4 DEF Ledger, Control, ControlAt, Flushing
    <3>2. i \in victims[t] /\ kept \cap victims[t] = {}
      BY <2>2, <2>4, <3>1 DEF Solo, Summaries, SummaryAt
    <3>3. j \in victims[t]
      BY <2>2, <2>4, <3>1 DEF Solo, Summaries, SummaryAt
    <3> QED
      BY <2>4, <3>2, <3>3
  <2> QED
    BY <2>1, <2>2, <2>3, <2>4, DiskStill DEF Solo, LastNote
<1>5. ASSUME NEW t \in Threads, NEW k \in {Key[i] : i \in Items}, Delete(t,
           k) PROVE LastNote'
  <2>1. /\ kept' \subseteq kept /\ db' \subseteq db /\ UNCHANGED <<content, file>>
        /\ \A u \in Threads : List(u)' \subseteq List(u)
    BY <1>5 DEF Delete, DeleteRead, Begin, List, List
  <2> QED
    BY <2>1, DiskStill, LastNoteIf DEF Solo
<1>6. ASSUME NEW t \in Threads, Erase(t) PROVE LastNote'
  <2>1. /\ kept' \subseteq kept /\ db' \subseteq db /\ UNCHANGED <<content, file>>
        /\ \A u \in Threads : List(u)' \subseteq List(u)
    BY <1>6 DEF Erase, Begin, Bind, List
  <2> QED
    BY <2>1, DiskStill, LastNoteIf DEF Solo
<1>7. ASSUME NEW t \in Threads, CurateStart(t) PROVE LastNote'
  <2>1. /\ kept' \subseteq kept /\ db' \subseteq db /\ UNCHANGED <<content, file>>
        /\ \A u \in Threads : List(u)' \subseteq List(u)
    BY <1>7 DEF CurateStart, List
  <2> QED
    BY <2>1, DiskStill, LastNoteIf DEF Solo
<1>8. ASSUME NEW t \in Threads, SummaryStart(t) PROVE LastNote'
  <2>1. /\ kept' \subseteq kept /\ db' \subseteq db /\ UNCHANGED <<content, file>>
        /\ \A u \in Threads : List(u)' \subseteq List(u)
    BY <1>8 DEF SummaryStart, DeleteRead, Begin, List, List
  <2> QED
    BY <2>1, DiskStill, LastNoteIf DEF Solo
<1>9. ASSUME NEW t \in Threads, WriteMirror(t) PROVE LastNote'
  <2>1. /\ UNCHANGED <<kept, items, content, file>> /\ db' \subseteq db \cup {arg[t]}
        /\ pc[t] = "mirror"
    BY <1>9 DEF WriteMirror
  <2>2. arg[t] \in List(t)
    BY <2>1 DEF Ledger, Control, ControlAt, Solo, Listed, ListAt
  <2>3. db' \subseteq db \cup {i \in Items : \E u \in Threads : i \in List(u)}
    BY <2>1, <2>2 DEF Ledger, Control, ControlAt
  <2> QED
    BY <2>1, <2>3, DiskStill, LastNoteIf DEF Solo, List
<1>10. ASSUME NEW t \in Threads, WriteIndex(t) PROVE LastNote'
  <2>1. /\ kept' \subseteq kept /\ db' \subseteq db /\ UNCHANGED <<content, file>>
        /\ \A u \in Threads : List(u)' \subseteq List(u)
    BY <1>10 DEF WriteIndex, List
  <2> QED
    BY <2>1, DiskStill, LastNoteIf DEF Solo
<1>11. ASSUME NEW t \in Threads, Dump(t) PROVE LastNote'
  <2>1. /\ kept' \subseteq kept /\ db' \subseteq db /\ UNCHANGED <<content, file>>
        /\ \A u \in Threads : List(u)' \subseteq List(u)
    BY <1>11 DEF Dump, List, List
  <2> QED
    BY <2>1, DiskStill, LastNoteIf DEF Solo
<1>12. ASSUME NEW t \in Threads, OpenTmp(t) PROVE LastNote'
  <2>1. UNCHANGED <<kept, db, items>> /\ OnDisk' = OnDisk
    BY <1>12, DiskUntouched DEF OpenTmp, Solo
  <2> QED
    BY <2>1, LastNoteIf DEF Solo, List
<1>13. ASSUME NEW t \in Threads, WriteTmp(t) PROVE LastNote'
  <2>1. UNCHANGED <<kept, db, items>> /\ OnDisk' = OnDisk
    BY <1>13, DiskUntouched DEF WriteTmp, Solo
  <2> QED
    BY <2>1, LastNoteIf DEF Solo, List
<1>14. ASSUME NEW t \in Threads, Replace(t) PROVE LastNote'
  <2>1. UNCHANGED <<kept, db, items>> /\ OnDisk' = List(t)
    BY <1>14, DiskReplaced DEF Solo
  <2>2. List(t) \subseteq {i \in Items : \E u \in Threads : i \in List(u)}
    BY DEF List, Ledger, TypeOK
  <2> QED
    BY <2>1, <2>2, LastNoteIf DEF Solo, List
<1>15. ASSUME NEW t \in Threads, DeleteRebind(t) PROVE LastNote'
  <2>1. /\ UNCHANGED <<kept, db, content, file>> /\ pc[t] = "rebind"
        /\ items' = [items EXCEPT ![ProcOf[t]] = snap[t]]
    BY <1>15 DEF DeleteRebind, Bind
  <2>2. snap[t] \subseteq List(t) /\ \A u \in Threads : u = t
    BY <2>1 DEF Solo, Listed, ListAt, OneCaller
  <2>3. \A u \in Threads : List(u)' \subseteq List(u)
    BY <2>1, <2>2 DEF List
  <2> QED
    BY <2>1, <2>3, DiskStill, LastNoteIf DEF Solo
<1>16. ASSUME NEW t \in Threads, DeleteMirror(t) PROVE LastNote'
  <2>1. /\ kept' \subseteq kept /\ db' \subseteq db /\ UNCHANGED <<content, file>>
        /\ \A u \in Threads : List(u)' \subseteq List(u)
    BY <1>16 DEF DeleteMirror, List
  <2> QED
    BY <2>1, DiskStill, LastNoteIf DEF Solo
<1>17. ASSUME NEW t \in Threads, DeleteIndex(t) PROVE LastNote'
  <2>1. /\ kept' \subseteq kept /\ db' \subseteq db /\ UNCHANGED <<content, file>>
        /\ \A u \in Threads : List(u)' \subseteq List(u)
    BY <1>17 DEF DeleteIndex, List
  <2> QED
    BY <2>1, DiskStill, LastNoteIf DEF Solo
<1>18. ASSUME NEW t \in Threads, EraseMirror(t) PROVE LastNote'
  <2>1. /\ kept' \subseteq kept /\ db' \subseteq db /\ UNCHANGED <<content, file>>
        /\ \A u \in Threads : List(u)' \subseteq List(u)
    BY <1>18 DEF EraseMirror, List
  <2> QED
    BY <2>1, DiskStill, LastNoteIf DEF Solo
<1>19. ASSUME NEW t \in Threads, EraseIndex(t) PROVE LastNote'
  <2>1. /\ kept' \subseteq kept /\ db' \subseteq db /\ UNCHANGED <<content, file>>
        /\ \A u \in Threads : List(u)' \subseteq List(u)
    BY <1>19 DEF EraseIndex, List
  <2> QED
    BY <2>1, DiskStill, LastNoteIf DEF Solo
<1>20. ASSUME NEW t \in Threads, Return(t) PROVE LastNote'
  <2>1. /\ UNCHANGED <<items, db, content, file>> /\ pc[t] = "return"
        /\ kept' = kept \cup ((Items \cap {arg[t]}) \ doomed)
    BY <1>20 DEF Return
  <2>2. CASE arg[t] \in Notes
    <3>1. arg[t] # NoItem /\ arg[t] \in Items
      BY <2>2
    <3>2. OnDisk = List(t)
      BY <2>1, <3>1 DEF Solo, Flushed, FlushAt
    <3>3. job[t] = "summary"
      BY <2>2 DEF Solo, Summaries, SummaryAt
    <3>4. /\ victims[t] = {i \in Items : Key[i] \in todo[t]} /\ arg[t] \in victims[t]
          /\ victims[t] \cap (List(t) \cup db) \subseteq {arg[t]}
      BY <2>1, <3>1, <3>3 DEF Solo, Summaries, SummaryAt
    <3>5. \A i \in Notes : Key[i] = Key[arg[t]] /\ i # arg[t] => i \notin List(t) \cup db
      BY <3>4
    <3>6. \A u \in Threads : u = t
      BY DEF OneCaller
    <3> QED
      BY <2>1, <3>2, <3>5, <3>6, DiskStill DEF Solo, LastNote, List
  <2>3. CASE arg[t] \notin Notes
    BY <2>1, <2>3, DiskStill DEF Solo, LastNote, List
  <2> QED
    BY <2>2, <2>3
<1>21. ASSUME NEW t \in Threads, CurateNext(t) PROVE LastNote'
  <2>1. /\ kept' \subseteq kept /\ db' \subseteq db /\ UNCHANGED <<content, file>>
        /\ \A u \in Threads : List(u)' \subseteq List(u)
    BY <1>21 DEF CurateNext, DeleteRead, Begin, List, List
  <2> QED
    BY <2>1, DiskStill, LastNoteIf DEF Solo
<1>22. ASSUME NEW t \in Threads, CurateEnd(t) PROVE LastNote'
  <2>1. /\ kept' \subseteq kept /\ db' \subseteq db /\ UNCHANGED <<content, file>>
        /\ \A u \in Threads : List(u)' \subseteq List(u)
    BY <1>22 DEF CurateEnd, List
  <2> QED
    BY <2>1, DiskStill, LastNoteIf DEF Solo
<1>23. CASE UNCHANGED vars
  BY <1>23, DiskStill, LastNoteIf DEF vars, Solo, List
<1> QED
  BY <1>1, <1>2, <1>3, <1>4, <1>5, <1>6, <1>7, <1>8, <1>9, <1>10, <1>11, <1>12, <1>13,
     <1>14, <1>15, <1>16, <1>17, <1>18, <1>19, <1>20, <1>21, <1>22, <1>23 DEF Next,
     Call, Step

\* The invariant holds for one caller.
LEMMA SoloInvariant == ASSUME OneCaller PROVE Spec => [](Ledger /\ Solo)
<1>1. Init => Solo
  <2> SUFFICES ASSUME Init PROVE Solo
    OBVIOUS
  <2>1. Disk /\ Flushed
    BY DEF Init, Disk, Flushed, FlushAt
  <2>2. Listed /\ Summaries /\ LastNote
    BY MemoryAssumption DEF Init, Listed, ListAt, Summaries, SummaryAt, LastNote
  <2> QED
    BY <2>1, <2>2 DEF Solo
<1>2. Ledger /\ Solo /\ [Next]_vars => Solo'
  BY FlushStep, ListStep, SummaryStep, LastNoteStep DEF Solo
<1> QED
  BY <1>1, <1>2, LedgerInvariant, PTL DEF Spec

\* One caller loses nothing that was acknowledged: whatever fails, and wherever the
\* process dies, the file has every such item whose removal has not begun
\* (_flush_persisted writes a temporary file and renames it).
THEOREM AcknowledgedIsDurable == ASSUME OneCaller, Tidy PROVE Spec => []Durable
<1>1. Ledger /\ Solo => Durable
  BY DEF Solo, Disk, Durable
<1> QED
  BY <1>1, SoloInvariant, PTL

\* For one caller, what was acknowledged as deleted or erased comes back from neither
\* the file nor the database, after any crash.
THEOREM ErasedForGood == ASSUME OneCaller PROVE Spec => []EraseFinal
<1>1. Ledger /\ Solo => EraseFinal
  BY DEF Ledger, MirrorForgets, Solo, Disk, EraseFinal
<1> QED
  BY <1>1, SoloInvariant, PTL

-----------------------------------------------------------------------------
(***************************************************************************)
(* One caller, as long as no call of the database has failed.              *)
(***************************************************************************)

OneProcess == \A p, q \in Procs : p = q

\* Between two flushes the file has the list; a removal that finds nothing in the
\* list has nothing to flush.
Settled ==
  \A t \in Threads :
    \/ pc[t] \in {"idle", "curate", "note", "return", "rebind"} /\ up[ProcOf[t]]
    \/ pc[t] \in {"unmirror", "unindex"} /\ removed[t] = {}
    => OnDisk = List(t)

\* What a search or a restart may find.
Seen == OnDisk \cup db \cup {i \in Items : \E p \in Procs : i \in items[p]}

\* Of each day there is one note anywhere.
Singles == \A i, j \in Notes : i \in Seen /\ j \in Seen /\ Key[i] = Key[j] => i = j

Writing == {"mirror", "index"}
Removing == {"unmirror", "unindex"}
Erasing == {"wipe", "wipeindex"}

\* The index differs from the list by what the call at work has still to do.
IndexTracks ==
  Semantic =>
    /\ \A p \in Procs :
         (\A t \in Threads : ProcOf[t] = p => pc[t] \notin Writing \cup Removing \cup Erasing)
         => vec[p] = items[p]
    /\ \A t \in Threads :
         /\ pc[t] \in Writing => List(t) = vec[ProcOf[t]] \cup {arg[t]}
         /\ pc[t] \in Removing => List(t) = vec[ProcOf[t]] \ removed[t]
         /\ pc[t] \in Erasing => List(t) = {}

\* The inductive invariant, on top of Ledger and Solo.
Smooth == raised = 0 => Settled /\ IndexTracks /\ (OneProcess => Singles)

\* A call that returns has flushed what it changed.
LEMMA SettledStep ==
  ASSUME OneCaller, Ledger, Solo, raised = 0, Settled, IndexTracks, [Next]_vars,
  raised' = 0
  PROVE  Settled'
<1> USE MemoryAssumption DEF GoTo, End, Raise, diskVars, dataVars, localVars, jobVars,
        historyVars, boundVars
<1>1. ASSUME NEW p \in Procs, Start(p) PROVE Settled'
  <2>1. \A t \in Threads : ~up[ProcOf[t]] => pc[t] = "idle"
    BY DEF Solo, Flushed, FlushAt
  <2>2. \A t \in Threads :
          (List(t)' = List(t) /\ up'[ProcOf[t]] = up[ProcOf[t]]) \/ List(t)' = OnDisk
    BY <1>1 DEF Start, List, Ledger, TypeOK
  <2>3. UNCHANGED <<pc, removed, content, file>>
    BY <1>1 DEF Start
  <2> QED
    BY <2>1, <2>2, <2>3, DiskStill DEF Settled
<1>2. ASSUME NEW p \in Procs, Crash(p) PROVE Settled'
  BY <1>2, DiskStill DEF Crash, Ledger, TypeOK, Settled, List
<1>3. ASSUME NEW t \in Threads, NEW i \in Items, WriteFiltered(t, i) PROVE Settled'
  <2>1. \A u \in Threads : u = t
    BY DEF OneCaller
  <2>2. /\ pc[t] \in {"idle", "note"} /\ up[ProcOf[t]] /\ pc'[t] = "idle"
        /\ UNCHANGED <<items, content, file>>
    BY <1>3 DEF WriteFiltered, Called, Request, Idle, Ledger, TypeOK, Solo, Flushed,
          FlushAt
  <2>3. OnDisk = List(t)
    BY <2>2 DEF Settled
  <2> QED
    BY <2>1, <2>2, <2>3, DiskStill DEF Settled, List
<1>4. ASSUME NEW t \in Threads, NEW i \in Items, WriteAppend(t, i) PROVE Settled'
  BY <1>4 DEF WriteAppend, Ledger, TypeOK, OneCaller, Settled
<1>5. ASSUME NEW t \in Threads, NEW k \in {Key[i] : i \in Items}, Delete(t,
           k) PROVE Settled'
  BY <1>5, DiskStill DEF Delete, DeleteRead, Request, Idle, List, Settled, List
<1>6. ASSUME NEW t \in Threads, Erase(t) PROVE Settled'
  BY <1>6 DEF Erase, Ledger, TypeOK, OneCaller, Settled
<1>7. ASSUME NEW t \in Threads, CurateStart(t) PROVE Settled'
  BY <1>7, DiskStill DEF CurateStart, Idle, Settled, List
<1>8. ASSUME NEW t \in Threads, SummaryStart(t) PROVE Settled'
  BY <1>8, DiskStill DEF SummaryStart, DeleteRead, Idle, List, Settled, List
<1>9. ASSUME NEW t \in Threads, WriteMirror(t) PROVE Settled'
  BY <1>9 DEF WriteMirror, Ledger, TypeOK, OneCaller, Settled
<1>10. ASSUME NEW t \in Threads, WriteIndex(t) PROVE Settled'
  BY <1>10 DEF WriteIndex, OneCaller, Settled
<1>11. ASSUME NEW t \in Threads, Dump(t) PROVE Settled'
  BY <1>11 DEF Dump, OneCaller, Settled
<1>12. ASSUME NEW t \in Threads, OpenTmp(t) PROVE Settled'
  <2>1. \A u \in Threads : u = t
    BY DEF OneCaller
  <2> QED
    BY <1>12, <2>1 DEF OpenTmp, Settled
<1>13. ASSUME NEW t \in Threads, WriteTmp(t) PROVE Settled'
  <2>1. \A u \in Threads : u = t
    BY DEF OneCaller
  <2> QED
    BY <1>13, <2>1 DEF WriteTmp, Settled
<1>14. ASSUME NEW t \in Threads, Replace(t) PROVE Settled'
  <2>1. (\A u \in Threads : u = t) /\ OnDisk' = List(t) /\ items' = items
    BY <1>14, DiskReplaced DEF OneCaller, Solo
  <2> QED
    BY <2>1 DEF Settled, List
<1>15. ASSUME NEW t \in Threads, DeleteRebind(t) PROVE Settled'
  <2>1. \A u \in Threads : u = t
    BY DEF OneCaller
  <2>2. /\ pc[t] = "rebind" /\ pc'[t] = "unmirror"
        /\ items' = [items EXCEPT ![ProcOf[t]] = snap[t]]
        /\ UNCHANGED <<content, file, removed>>
    BY <1>15 DEF DeleteRebind, Bind, Ledger, TypeOK
  <2>3. /\ up[ProcOf[t]] /\ snap[t] = List(t) \ victims[t]
        /\ removed[t] = List(t) \cap victims[t]
    BY <2>2 DEF Solo, Flushed, FlushAt, Listed, ListAt
  <2>4. OnDisk = List(t) /\ List(t)' = snap[t]
    BY <2>2, <2>3 DEF Settled, List, Ledger, TypeOK
  <2> QED
    BY <2>1, <2>2, <2>3, <2>4, DiskStill DEF Settled
<1>16. ASSUME NEW t \in Threads, DeleteMirror(t) PROVE Settled'
  BY <1>16, DiskStill DEF DeleteMirror, Ledger, TypeOK, Settled, List
<1>17. ASSUME NEW t \in Threads, DeleteIndex(t) PROVE Settled'
  BY <1>17, DiskStill DEF DeleteIndex, Settled, List
<1>18. ASSUME NEW t \in Threads, EraseMirror(t) PROVE Settled'
  BY <1>18 DEF EraseMirror, Ledger, TypeOK, OneCaller, Settled
<1>19. ASSUME NEW t \in Threads, EraseIndex(t) PROVE Settled'
  BY <1>19 DEF EraseIndex, OneCaller, Settled
<1>20. ASSUME NEW t \in Threads, Return(t) PROVE Settled'
  BY <1>20, DiskStill DEF Return, OneCaller, Settled, List, Solo, Flushed, FlushAt
<1>21. ASSUME NEW t \in Threads, CurateNext(t) PROVE Settled'
  BY <1>21, DiskStill DEF CurateNext, DeleteRead, List, Settled, List
<1>22. ASSUME NEW t \in Threads, CurateEnd(t) PROVE Settled'
  BY <1>22, DiskStill DEF CurateEnd, Settled, List
<1>23. CASE UNCHANGED vars
  BY <1>23, DiskStill DEF vars, Settled, List
<1> QED
  BY <1>1, <1>2, <1>3, <1>4, <1>5, <1>6, <1>7, <1>8, <1>9, <1>10, <1>11, <1>12, <1>13,
     <1>14, <1>15, <1>16, <1>17, <1>18, <1>19, <1>20, <1>21, <1>22, <1>23 DEF Next,
     Call, Step

\* A step that shows nothing new.
LEMMA SinglesIf == Singles /\ Seen' \subseteq Seen => Singles'
BY DEF Singles

\* A second note of a day is written when the first is gone everywhere.
LEMMA SinglesStep ==
  ASSUME OneCaller, OneProcess, Ledger, Solo, raised = 0, Settled, Singles,
  [Next]_vars, raised' = 0
  PROVE  Singles'
<1> USE MemoryAssumption DEF GoTo, End, Raise, diskVars, dataVars, localVars, jobVars,
        historyVars, boundVars
<1>1. ASSUME NEW p \in Procs, Start(p) PROVE Singles'
  <2>1. /\ UNCHANGED <<db, content, file>>
        /\ \A q \in Procs : items'[q] \subseteq items[q] \cup OnDisk
    BY <1>1 DEF Start
  <2> QED
    BY <2>1, DiskStill, SinglesIf DEF Seen
<1>2. ASSUME NEW p \in Procs, Crash(p) PROVE Singles'
  <2>1. /\ db' \subseteq db /\ UNCHANGED <<content, file>>
        /\ \A q \in Procs : items'[q] \subseteq items[q]
    BY <1>2 DEF Crash
  <2> QED
    BY <2>1, DiskStill, SinglesIf DEF Seen
<1>3. ASSUME NEW t \in Threads, NEW i \in Items, WriteFiltered(t, i) PROVE Singles'
  <2>1. /\ db' \subseteq db /\ UNCHANGED <<content, file>>
        /\ \A q \in Procs : items'[q] \subseteq items[q]
    BY <1>3 DEF WriteFiltered, Called, List, Ledger, TypeOK
  <2> QED
    BY <2>1, DiskStill, SinglesIf DEF Seen
<1>4. ASSUME NEW t \in Threads, NEW i \in Items, WriteAppend(t, i) PROVE Singles'
  <2>1. /\ i \in Notes => pc[t] = "note" /\ Key[i] \in todo[t]
        /\ items' = [items EXCEPT ![ProcOf[t]] = List(t) \cup {i}]
        /\ UNCHANGED <<db, content, file>>
    BY <1>4 DEF WriteAppend, Called, Bind
  <2>2. Seen' \subseteq Seen \cup {i}
    BY <2>1, DiskStill DEF List, Seen
  <2>3. CASE i \notin Notes
    BY <2>2, <2>3 DEF Singles
  <2>4. CASE i \in Notes
    <3>1. /\ arg[t] = NoItem /\ job[t] = "summary" /\ pc[t] = "note" /\ up[ProcOf[t]]
      BY <2>1, <2>4 DEF Ledger, Control, ControlAt, Flushing, Solo, Flushed, FlushAt
    <3>2. OnDisk = List(t)
      BY <3>1 DEF Settled
    <3>3. /\ victims[t] = {x \in Items : Key[x] \in todo[t]}
          /\ \A x, y \in victims[t] : Key[x] = Key[y]
          /\ victims[t] \cap (List(t) \cup db) \subseteq {NoItem}
      BY <3>1 DEF Solo, Summaries, SummaryAt
    <3>4. \A j \in Notes : Key[j] = Key[i] => j \notin List(t) \cup db
      BY <2>1, <2>4, <3>3
    <3>5. \A j \in Notes : Key[j] = Key[i] => j \notin Seen
      BY <3>2, <3>4 DEF Seen, List, OneProcess
    <3> QED
      BY <2>2, <3>5 DEF Singles
  <2> QED
    BY <2>3, <2>4
<1>5. ASSUME NEW t \in Threads, NEW k \in {Key[i] : i \in Items}, Delete(t,
           k) PROVE Singles'
  <2>1. /\ db' \subseteq db /\ UNCHANGED <<content, file>>
        /\ \A q \in Procs : items'[q] \subseteq items[q]
    BY <1>5 DEF Delete, DeleteRead
  <2> QED
    BY <2>1, DiskStill, SinglesIf DEF Seen
<1>6. ASSUME NEW t \in Threads, Erase(t) PROVE Singles'
  <2>1. /\ db' \subseteq db /\ UNCHANGED <<content, file>>
        /\ \A q \in Procs : items'[q] \subseteq items[q]
    BY <1>6 DEF Erase, Bind
  <2> QED
    BY <2>1, DiskStill, SinglesIf DEF Seen
<1>7. ASSUME NEW t \in Threads, CurateStart(t) PROVE Singles'
  <2>1. /\ db' \subseteq db /\ UNCHANGED <<content, file>>
        /\ \A q \in Procs : items'[q] \subseteq items[q]
    BY <1>7 DEF CurateStart
  <2> QED
    BY <2>1, DiskStill, SinglesIf DEF Seen
<1>8. ASSUME NEW t \in Threads, SummaryStart(t) PROVE Singles'
  <2>1. /\ db' \subseteq db /\ UNCHANGED <<content, file>>
        /\ \A q \in Procs : items'[q] \subseteq items[q]
    BY <1>8 DEF SummaryStart, DeleteRead
  <2> QED
    BY <2>1, DiskStill, SinglesIf DEF Seen
<1>9. ASSUME NEW t \in Threads, WriteMirror(t) PROVE Singles'
  <2>1. /\ UNCHANGED <<items, content, file>>
        /\ db' \subseteq db \cup {arg[t]} /\ pc[t] = "mirror"
    BY <1>9 DEF WriteMirror
  <2>2. arg[t] \in Items /\ arg[t] \in List(t)
    BY <2>1 DEF Ledger, Control, ControlAt, Solo, Listed, ListAt
  <2>3. Seen' \subseteq Seen
    BY <2>1, <2>2, DiskStill DEF Seen, List
  <2> QED
    BY <2>3, SinglesIf
<1>10. ASSUME NEW t \in Threads, WriteIndex(t) PROVE Singles'
  <2>1. /\ db' \subseteq db /\ UNCHANGED <<content, file>>
        /\ \A q \in Procs : items'[q] \subseteq items[q]
    BY <1>10 DEF WriteIndex
  <2> QED
    BY <2>1, DiskStill, SinglesIf DEF Seen
<1>11. ASSUME NEW t \in Threads, Dump(t) PROVE Singles'
  <2>1. /\ db' \subseteq db /\ UNCHANGED <<content, file>>
        /\ \A q \in Procs : items'[q] \subseteq items[q]
    BY <1>11 DEF Dump
  <2> QED
    BY <2>1, DiskStill, SinglesIf DEF Seen
<1>12. ASSUME NEW t \in Threads, OpenTmp(t) PROVE Singles'
  <2>1. UNCHANGED <<db, items>> /\ OnDisk' = OnDisk
    BY <1>12, DiskUntouched DEF OpenTmp, Solo
  <2> QED
    BY <2>1, SinglesIf DEF Seen
<1>13. ASSUME NEW t \in Threads, WriteTmp(t) PROVE Singles'
  <2>1. UNCHANGED <<db, items>> /\ OnDisk' = OnDisk
    BY <1>13, DiskUntouched DEF WriteTmp, Solo
  <2> QED
    BY <2>1, SinglesIf DEF Seen
<1>14. ASSUME NEW t \in Threads, Replace(t) PROVE Singles'
  <2>1. UNCHANGED <<db, items>> /\ OnDisk' = List(t)
    BY <1>14, DiskReplaced DEF Solo
  <2>2. Seen' \subseteq Seen
    BY <2>1 DEF List, Seen, Ledger, TypeOK
  <2> QED
    BY <2>2, SinglesIf
<1>15. ASSUME NEW t \in Threads, DeleteRebind(t) PROVE Singles'
  <2>1. /\ UNCHANGED <<db, content, file>> /\ pc[t] = "rebind"
        /\ items' = [items EXCEPT ![ProcOf[t]] = snap[t]]
    BY <1>15 DEF DeleteRebind, Bind
  <2>2. snap[t] \subseteq List(t)
    BY <2>1 DEF Solo, Listed, ListAt
  <2>3. \A q \in Procs : items'[q] \subseteq items[q]
    BY <2>1, <2>2 DEF List
  <2> QED
    BY <2>1, <2>3, DiskStill, SinglesIf DEF Seen
<1>16. ASSUME NEW t \in Threads, DeleteMirror(t) PROVE Singles'
  <2>1. /\ db' \subseteq db /\ UNCHANGED <<content, file>>
        /\ \A q \in Procs : items'[q] \subseteq items[q]
    BY <1>16 DEF DeleteMirror
  <2> QED
    BY <2>1, DiskStill, SinglesIf DEF Seen
<1>17. ASSUME NEW t \in Threads, DeleteIndex(t) PROVE Singles'
  <2>1. /\ db' \subseteq db /\ UNCHANGED <<content, file>>
        /\ \A q \in Procs : items'[q] \subseteq items[q]
    BY <1>17 DEF DeleteIndex
  <2> QED
    BY <2>1, DiskStill, SinglesIf DEF Seen
<1>18. ASSUME NEW t \in Threads, EraseMirror(t) PROVE Singles'
  <2>1. /\ db' \subseteq db /\ UNCHANGED <<content, file>>
        /\ \A q \in Procs : items'[q] \subseteq items[q]
    BY <1>18 DEF EraseMirror
  <2> QED
    BY <2>1, DiskStill, SinglesIf DEF Seen
<1>19. ASSUME NEW t \in Threads, EraseIndex(t) PROVE Singles'
  <2>1. /\ db' \subseteq db /\ UNCHANGED <<content, file>>
        /\ \A q \in Procs : items'[q] \subseteq items[q]
    BY <1>19 DEF EraseIndex
  <2> QED
    BY <2>1, DiskStill, SinglesIf DEF Seen
<1>20. ASSUME NEW t \in Threads, Return(t) PROVE Singles'
  <2>1. /\ db' \subseteq db /\ UNCHANGED <<content, file>>
        /\ \A q \in Procs : items'[q] \subseteq items[q]
    BY <1>20 DEF Return
  <2> QED
    BY <2>1, DiskStill, SinglesIf DEF Seen
<1>21. ASSUME NEW t \in Threads, CurateNext(t) PROVE Singles'
  <2>1. /\ db' \subseteq db /\ UNCHANGED <<content, file>>
        /\ \A q \in Procs : items'[q] \subseteq items[q]
    BY <1>21 DEF CurateNext, DeleteRead
  <2> QED
    BY <2>1, DiskStill, SinglesIf DEF Seen
<1>22. ASSUME NEW t \in Threads, CurateEnd(t) PROVE Singles'
  <2>1. /\ db' \subseteq db /\ UNCHANGED <<content, file>>
        /\ \A q \in Procs : items'[q] \subseteq items[q]
    BY <1>22 DEF CurateEnd
  <2> QED
    BY <2>1, DiskStill, SinglesIf DEF Seen
<1>23. CASE UNCHANGED vars
  BY <1>23, DiskStill, SinglesIf DEF vars, Seen
<1> QED
  BY <1>1, <1>2, <1>3, <1>4, <1>5, <1>6, <1>7, <1>8, <1>9, <1>10, <1>11, <1>12, <1>13,
     <1>14, <1>15, <1>16, <1>17, <1>18, <1>19, <1>20, <1>21, <1>22, <1>23 DEF Next,
     Call, Step

\* Every step of a call brings the index nearer to the list.
LEMMA IndexStep ==
  ASSUME OneCaller, Ledger, Solo, raised = 0, Settled, IndexTracks, [Next]_vars,
  raised' = 0
  PROVE  IndexTracks'
<1> USE MemoryAssumption DEF GoTo, End, Raise, diskVars, dataVars, localVars, jobVars,
        historyVars, boundVars
<1>1. ASSUME NEW p \in Procs, Start(p) PROVE IndexTracks'
  BY <1>1 DEF Start, Ledger, TypeOK, IndexTracks, List, Solo, Flushed, FlushAt,
     Writing, Removing, Erasing
<1>2. ASSUME NEW p \in Procs, Crash(p) PROVE IndexTracks'
  BY <1>2 DEF Crash, Ledger, TypeOK, IndexTracks, List, Writing
<1>3. ASSUME NEW t \in Threads, NEW i \in Items, WriteFiltered(t, i) PROVE IndexTracks'
  <2>1. \A u \in Threads : u = t
    BY DEF OneCaller
  <2>2. pc[t] \in {"idle", "note"} /\ pc'[t] = "idle" /\ UNCHANGED <<items, vec>>
    BY <1>3 DEF WriteFiltered, Called, Request, Idle, Ledger, TypeOK
  <2> QED
    BY <2>1, <2>2 DEF IndexTracks, Writing, Removing, Erasing
<1>4. ASSUME NEW t \in Threads, NEW i \in Items, WriteAppend(t, i) PROVE IndexTracks'
  <2>1. \A u \in Threads : u = t
    BY DEF OneCaller
  <2>2. /\ pc[t] \in {"idle", "note"} /\ pc'[t] = "mirror" /\ arg'[t] = i
        /\ items' = [items EXCEPT ![ProcOf[t]] = List(t) \cup {i}] /\ vec' = vec
    BY <1>4 DEF WriteAppend, Called, Request, Idle, Bind, Ledger, TypeOK
  <2>3. Semantic => List(t) = vec[ProcOf[t]]
    BY <2>1, <2>2 DEF IndexTracks, Writing, Removing, Erasing, List
  <2>4. /\ List(t)' = List(t) \cup {i}
        /\ \A q \in Procs : q # ProcOf[t] => items'[q] = items[q]
    BY <2>2 DEF List, Ledger, TypeOK
  <2> QED
    BY <2>1, <2>2, <2>3, <2>4 DEF IndexTracks, Writing, Removing, Erasing
<1>5. ASSUME NEW t \in Threads, NEW k \in {Key[i] : i \in Items}, Delete(t,
           k) PROVE IndexTracks'
  BY <1>5 DEF Delete, DeleteRead, Request, Idle, OneCaller, IndexTracks, Writing,
     Removing, Erasing
<1>6. ASSUME NEW t \in Threads, Erase(t) PROVE IndexTracks'
  BY <1>6 DEF Erase, Bind, Ledger, TypeOK, OneCaller, IndexTracks, List, Writing,
     Erasing
<1>7. ASSUME NEW t \in Threads, CurateStart(t) PROVE IndexTracks'
  BY <1>7 DEF CurateStart, Idle, OneCaller, IndexTracks, Writing, Removing, Erasing
<1>8. ASSUME NEW t \in Threads, SummaryStart(t) PROVE IndexTracks'
  BY <1>8 DEF SummaryStart, DeleteRead, Idle, OneCaller, IndexTracks, Writing,
     Removing, Erasing
<1>9. ASSUME NEW t \in Threads, WriteMirror(t) PROVE IndexTracks'
  BY <1>9 DEF WriteMirror, Ledger, TypeOK, IndexTracks, List, Writing, Removing,
     Erasing
<1>10. ASSUME NEW t \in Threads, WriteIndex(t) PROVE IndexTracks'
  BY <1>10 DEF WriteIndex, Ledger, TypeOK, IndexTracks, List, Writing, Removing,
     Erasing
<1>11. ASSUME NEW t \in Threads, Dump(t) PROVE IndexTracks'
  BY <1>11 DEF Dump, OneCaller, IndexTracks, Writing, Removing, Erasing
<1>12. ASSUME NEW t \in Threads, OpenTmp(t) PROVE IndexTracks'
  BY <1>12 DEF OpenTmp, OneCaller, IndexTracks, Writing, Removing, Erasing
<1>13. ASSUME NEW t \in Threads, WriteTmp(t) PROVE IndexTracks'
  BY <1>13 DEF WriteTmp, Written, OneCaller, IndexTracks, Writing, Removing, Erasing
<1>14. ASSUME NEW t \in Threads, Replace(t) PROVE IndexTracks'
  BY <1>14 DEF Replace, Ledger, TypeOK, OneCaller, IndexTracks, Writing, Removing,
     Erasing
<1>15. ASSUME NEW t \in Threads, DeleteRebind(t) PROVE IndexTracks'
  BY <1>15 DEF DeleteRebind, Bind, Ledger, TypeOK, OneCaller, IndexTracks, List, Solo,
     Listed, ListAt, Writing, Removing, Erasing
<1>16. ASSUME NEW t \in Threads, DeleteMirror(t) PROVE IndexTracks'
  BY <1>16 DEF DeleteMirror, Ledger, TypeOK, IndexTracks, List, Writing, Removing,
     Erasing
<1>17. ASSUME NEW t \in Threads, DeleteIndex(t) PROVE IndexTracks'
  BY <1>17 DEF DeleteIndex, Ledger, TypeOK, IndexTracks, List, Writing, Removing,
     Erasing
<1>18. ASSUME NEW t \in Threads, EraseMirror(t) PROVE IndexTracks'
  BY <1>18 DEF EraseMirror, Ledger, TypeOK, IndexTracks, List, Writing, Removing,
     Erasing
<1>19. ASSUME NEW t \in Threads, EraseIndex(t) PROVE IndexTracks'
  BY <1>19 DEF EraseIndex, Ledger, TypeOK, IndexTracks, List, Writing, Erasing
<1>20. ASSUME NEW t \in Threads, Return(t) PROVE IndexTracks'
  BY <1>20 DEF Return, Ledger, TypeOK, OneCaller, IndexTracks, Writing, Removing,
     Erasing
<1>21. ASSUME NEW t \in Threads, CurateNext(t) PROVE IndexTracks'
  BY <1>21 DEF CurateNext, DeleteRead, OneCaller, IndexTracks, Writing, Removing,
     Erasing
<1>22. ASSUME NEW t \in Threads, CurateEnd(t) PROVE IndexTracks'
  BY <1>22 DEF CurateEnd, OneCaller, IndexTracks, Writing, Removing, Erasing
<1>23. CASE UNCHANGED vars
  BY <1>23 DEF vars, IndexTracks, List
<1> QED
  BY <1>1, <1>2, <1>3, <1>4, <1>5, <1>6, <1>7, <1>8, <1>9, <1>10, <1>11, <1>12, <1>13,
     <1>14, <1>15, <1>16, <1>17, <1>18, <1>19, <1>20, <1>21, <1>22, <1>23 DEF Next,
     Call, Step

\* A call of the database that fails is counted.
LEMMA RaisedGrows ==
  ASSUME TypeOK, [Next]_vars
  PROVE  raised' = raised \/ raised' = raised + 1
<1> USE DEF boundVars
<1>1. ASSUME NEW p \in Procs, Start(p) \/ Crash(p) PROVE raised' = raised
  BY <1>1 DEF Start, Crash
<1>2. ASSUME NEW t \in Threads, Call(t) PROVE raised' = raised
  BY <1>2 DEF Call, WriteFiltered, WriteAppend, Delete, DeleteRead, Erase, CurateStart,
     SummaryStart
<1>3. ASSUME NEW t \in Threads, Step(t) PROVE raised' = raised \/ raised' = raised + 1
  <2>1. CASE WriteMirror(t) \/ DeleteMirror(t) \/ EraseMirror(t)
    BY <2>1 DEF WriteMirror, DeleteMirror, EraseMirror, Raise
  <2>2. CASE WriteIndex(t) \/ Dump(t) \/ OpenTmp(t) \/ WriteTmp(t) \/ Replace(t)
    BY <2>2 DEF WriteIndex, Dump, OpenTmp, WriteTmp, Replace
  <2>3. CASE DeleteRebind(t) \/ DeleteIndex(t) \/ EraseIndex(t) \/ Return(t)
    BY <2>3 DEF DeleteRebind, DeleteIndex, EraseIndex, Return
  <2>4. CASE CurateNext(t) \/ CurateEnd(t)
    BY <2>4 DEF CurateNext, DeleteRead, CurateEnd
  <2> QED
    BY <1>3, <2>1, <2>2, <2>3, <2>4 DEF Step
<1>4. CASE UNCHANGED vars
  BY <1>4 DEF vars
<1> QED
  BY <1>1, <1>2, <1>3, <1>4 DEF Next

\* The invariant holds for one caller.
LEMMA SmoothInvariant == ASSUME OneCaller PROVE Spec => []Smooth
<1>1. Init => Smooth
  <2> SUFFICES ASSUME Init PROVE Smooth
    OBVIOUS
  <2>1. \A t \in Threads : ~up[ProcOf[t]] /\ pc[t] = "idle"
    BY MemoryAssumption DEF Init
  <2>2. \A p \in Procs : vec[p] = items[p]
    BY DEF Init
  <2>3. Settled /\ IndexTracks
    BY <2>1, <2>2 DEF Settled, IndexTracks, Writing, Removing, Erasing
  <2>4. Singles
    BY DEF Init, Singles, Seen, OnDisk
  <2> QED
    BY <2>3, <2>4 DEF Smooth
<1>2. Ledger /\ Solo /\ Smooth /\ [Next]_vars => Smooth'
  <2> SUFFICES ASSUME Ledger, Solo, Smooth, [Next]_vars, raised' = 0 PROVE Smooth'
    BY DEF Smooth
  <2>1. raised = 0
    BY RaisedGrows DEF Ledger, TypeOK
  <2>2. Settled' /\ IndexTracks'
    BY <2>1, SettledStep, IndexStep DEF Smooth
  <2>3. ASSUME OneProcess PROVE Singles'
    BY <2>1, <2>3, SinglesStep DEF Smooth
  <2> QED
    BY <2>2, <2>3 DEF Smooth
<1> QED
  BY <1>1, <1>2, SoloInvariant, PTL DEF Spec

\* For one caller, and as long as no call of the database has failed, the index of a
\* process that is at rest has exactly the items of its list (delete and erase_all).
THEOREM IndexFollowsList == ASSUME OneCaller PROVE Spec => []IndexMatches
<1>1. Smooth => IndexMatches
  BY DEF Smooth, IndexTracks, IndexMatches, Writing, Removing, Erasing
<1> QED
  BY <1>1, SmoothInvariant, PTL

\* For one caller in one process, and as long as no call of the database has failed,
\* redelivered and crashed jobs leave one summary of each day at most.
THEOREM SummariesDoNotPileUp ==
  ASSUME OneCaller, OneProcess
  PROVE  Spec => []OneSummary
<1>1. Ledger /\ Smooth => OneSummary
  <2> SUFFICES ASSUME Ledger, Smooth, raised = 0
               PROVE  /\ OnDisk \subseteq Seen
                      /\ \A p \in Procs : items[p] \cup db \subseteq Seen
                      /\ Singles
    BY DEF OneSummary, Singles
  <2> QED
    BY DEF Smooth, Seen, Ledger, TypeOK
<1> QED
  BY <1>1, SoloInvariant, SmoothInvariant, PTL

=============================================================================
