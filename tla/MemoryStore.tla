----------------------------- MODULE MemoryStore -----------------------------
(***************************************************************************)
(* MemoryService (app/memory/service.py) as its callers use it: threads of *)
(* the app's threadpool, and the worker process that runs the jobs of      *)
(* app/queue/jobs.py with a service of its own on the same JSON file.      *)
(* A step ends where another thread or process can see or disturb the      *)
(* state: the list, the mirrors, the vector index, the temporary file.     *)
(* The list is a set: its order is not told apart.                         *)
(***************************************************************************)
EXTENDS Integers, FiniteSets

CONSTANTS
  Procs,      \* processes that own a MemoryService
  Threads,    \* threads that call one
  ProcOf,     \* the process of each thread
  Items,      \* the items write() may be asked to store, one per call
  Key,        \* their (kind, key), stripped
  Value,      \* their value, normalized; NoValue is noise to _is_noise
  NoValue,
  Stale,      \* items that is_stale reports
  Notes,      \* dated daily-summary notes
  Mirrored,   \* is a database (Postgres, Neo4j) configured
  Semantic,   \* is the semantic layer enabled and ready
  Callers,    \* threads that serve requests
  Jobs,       \* threads that run background jobs
  NoItem, NoFile,
  MaxOps,     \* bound on deletes, erases and jobs
  MaxCrashes, \* bound on process crashes
  MaxRaises   \* bound on failing calls of the database

ASSUME MemoryAssumption ==
  /\ ProcOf \in [Threads -> Procs]
  /\ Stale \subseteq Items /\ Notes \subseteq Items
  /\ Callers \subseteq Threads /\ Jobs \subseteq Threads
  /\ MaxOps \in Nat /\ MaxCrashes \in Nat /\ MaxRaises \in Nat
  /\ Mirrored \in BOOLEAN /\ Semantic \in BOOLEAN
  /\ NoItem \notin Items
  /\ IsFiniteSet(Threads) /\ NoFile \notin Nat

\* A file whose text does not parse.
Torn == {NoItem}

Inodes == 1..(Cardinality(Threads) + 2)

VARIABLES
  up,       \* is each process running
  items,    \* MemoryService._items
  vec,      \* uids in the vector index
  db,       \* rows of the database
  content,  \* of each file on disk: a set of items, or Torn
  file,     \* the file at persist_path
  tmp,      \* the file at persist_path + ".tmp"
  pc, arg,  \* where each thread is, and with which item
  snap,     \* the list a thread has read or serialised
  fd,       \* the temporary file a thread has open
  job,      \* the background job of a thread, and the keys it has still to
  todo,     \*   delete (curate) or to write (summary)
  victims,  \* the items a thread's delete matches in the database
  removed,  \* removed_items: those of them it found in the list
  used,     \* history: items that write() was called with
  doomed,   \* history: items some removal was begun for
  kept,     \* history: stored and acknowledged, no removal begun since
  owed,     \* history: what a removal in progress must have removed
  gone,     \* history: removed, and the removal acknowledged
  ops, crashes, raised

diskVars == <<content, file, tmp>>
dataVars == <<items, vec, db>>
localVars == <<snap, fd, victims, removed>>
jobVars == <<job, todo>>
historyVars == <<used, doomed, kept, owed, gone>>
boundVars == <<ops, crashes, raised>>
vars == <<up, items, vec, db, content, file, tmp, pc, arg, snap, fd, job, todo,
          victims, removed, used, doomed, kept, owed, gone, ops, crashes,
          raised>>

-----------------------------------------------------------------------------
OnDisk == IF file = NoFile THEN {}
          ELSE IF content[file] = Torn THEN {} ELSE content[file]

TypeOK ==
  /\ up \in [Procs -> BOOLEAN]
  /\ items \in [Procs -> SUBSET Items] /\ vec \in [Procs -> SUBSET Items]
  /\ db \subseteq Items
  /\ content \in [Inodes -> (SUBSET Items) \cup {Torn}]
  /\ file \in Inodes \cup {NoFile} /\ tmp \in Inodes \cup {NoFile}
  /\ pc \in [Threads -> {"idle", "mirror", "index", "rebind", "unmirror", "unindex",
                         "wipe", "wipeindex", "dump", "open", "write", "replace",
                         "return", "curate", "note"}]
  /\ arg \in [Threads -> Items \cup {NoItem}]
  /\ snap \in [Threads -> SUBSET Items]
  /\ fd \in [Threads -> Inodes \cup {NoFile}]
  /\ job \in [Threads -> {"none", "curate", "summary"}]
  /\ todo \in [Threads -> SUBSET {Key[i] : i \in Items}]
  /\ victims \in [Threads -> SUBSET Items] /\ removed \in [Threads -> SUBSET Items]
  /\ owed \in [Threads -> SUBSET Items]
  /\ used \subseteq Items /\ doomed \subseteq used
  /\ kept \subseteq used /\ gone \subseteq used
  /\ ops \in 0..MaxOps /\ crashes \in 0..MaxCrashes /\ raised \in 0..MaxRaises

Init ==
  /\ up = [p \in Procs |-> FALSE]
  /\ items = [p \in Procs |-> {}] /\ vec = [p \in Procs |-> {}]
  /\ db = {}
  /\ content = [n \in Inodes |-> Torn]
  /\ file = NoFile /\ tmp = NoFile
  /\ pc = [t \in Threads |-> "idle"]
  /\ arg = [t \in Threads |-> NoItem]
  /\ snap = [t \in Threads |-> {}]
  /\ fd = [t \in Threads |-> NoFile]
  /\ job = [t \in Threads |-> "none"]
  /\ todo = [t \in Threads |-> {}]
  /\ victims = [t \in Threads |-> {}] /\ removed = [t \in Threads |-> {}]
  /\ owed = [t \in Threads |-> {}]
  /\ used = {} /\ doomed = {} /\ kept = {} /\ gone = {}
  /\ ops = 0 /\ crashes = 0 /\ raised = 0

GoTo(t, label) == pc' = [pc EXCEPT ![t] = label]

\* The list of the process the thread runs in.
List(t) == items[ProcOf[t]]

Bind(t, list) == items' = [items EXCEPT ![ProcOf[t]] = list]

Idle(t) == up[ProcOf[t]] /\ pc[t] = "idle"

Request(t) == t \in Callers /\ Idle(t)

Counted == ops < MaxOps /\ ops' = ops + 1

-----------------------------------------------------------------------------
(***************************************************************************)
(* A process builds its service, and may die.                              *)
(***************************************************************************)
\* Mutant: what the file holds is taken for a list even if it does not parse.
StartUnchecked(p) ==
  /\ ~up[p]
  /\ up' = [up EXCEPT ![p] = TRUE]
  /\ items' = [items EXCEPT ![p] = IF file = NoFile THEN {} ELSE content[file]]
  /\ vec' = [vec EXCEPT ![p] = IF Semantic THEN OnDisk ELSE {}]
  /\ UNCHANGED <<db, diskVars, pc, arg, localVars, jobVars, historyVars, boundVars>>

\* __init__: _load_persisted (a file that does not parse counts as empty), then
\* _init_semantic, which indexes what was loaded.
Start(p) ==
  /\ ~up[p]
  /\ up' = [up EXCEPT ![p] = TRUE]
  /\ items' = [items EXCEPT ![p] = OnDisk]
  /\ vec' = [vec EXCEPT ![p] = IF Semantic THEN OnDisk ELSE {}]
  /\ UNCHANGED <<db, diskVars, pc, arg, localVars, jobVars, historyVars, boundVars>>

\* The process dies; files and database stay as they are.
Crash(p) ==
  /\ up[p]
  /\ crashes < MaxCrashes /\ crashes' = crashes + 1
  /\ up' = [up EXCEPT ![p] = FALSE]
  /\ items' = [items EXCEPT ![p] = {}]
  /\ vec' = [vec EXCEPT ![p] = {}]
  /\ LET reset(f, v) == [t \in Threads |-> IF ProcOf[t] = p THEN v ELSE f[t]]
     IN  /\ pc' = reset(pc, "idle") /\ arg' = reset(arg, NoItem)
         /\ snap' = reset(snap, {}) /\ fd' = reset(fd, NoFile)
         /\ victims' = reset(victims, {}) /\ removed' = reset(removed, {})
         /\ job' = reset(job, "none") /\ todo' = reset(todo, {})
         /\ owed' = reset(owed, {})
  /\ UNCHANGED <<db, diskVars, used, doomed, kept, gone, ops, raised>>

\* The call ends, with or without an exception; a job ends with its call's
\* exception.
End(t) ==
  /\ GoTo(t, "idle")
  /\ arg' = [arg EXCEPT ![t] = NoItem]
  /\ snap' = [snap EXCEPT ![t] = {}]
  /\ victims' = [victims EXCEPT ![t] = {}]
  /\ removed' = [removed EXCEPT ![t] = {}]
  /\ owed' = [owed EXCEPT ![t] = {}]
  /\ job' = [job EXCEPT ![t] = "none"]
  /\ todo' = [todo EXCEPT ![t] = {}]

Raise(t) ==
  /\ End(t)
  /\ raised < MaxRaises /\ raised' = raised + 1
  /\ UNCHANGED <<fd, used, doomed, kept, gone, ops, crashes>>

-----------------------------------------------------------------------------
(***************************************************************************)
(* write                                                                   *)
(***************************************************************************)
\* A call of write: from a request, or from daily_summary_precompute.
Called(t, i) ==
  /\ i \notin used
  /\ IF i \in Notes THEN pc[t] = "note" /\ Key[i] \in todo[t]
     ELSE Request(t)
  /\ used' = used \cup {i}

\* _is_noise or _is_duplicate.
Filtered(t, i) ==
  \/ Value[i] = NoValue
  \/ \E x \in List(t) : Key[x] = Key[i] /\ Value[x] = Value[i]

WriteFiltered(t, i) ==
  /\ Called(t, i)
  /\ Filtered(t, i)
  /\ End(t)
  /\ UNCHANGED <<up, dataVars, diskVars, fd, doomed, kept, gone, boundVars>>

WriteAppend(t, i) ==
  /\ Called(t, i)
  /\ ~Filtered(t, i)
  /\ Bind(t, List(t) \cup {i})
  /\ arg' = [arg EXCEPT ![t] = i]
  /\ GoTo(t, "mirror")
  /\ UNCHANGED <<up, vec, db, diskVars, localVars, jobVars, doomed, kept, owed, gone,
                 boundVars>>

\* postgres.write, then neo4j.write; either may raise.
WriteMirror(t) ==
  /\ pc[t] = "mirror"
  /\ \/ /\ db' = IF Mirrored THEN db \cup {arg[t]} ELSE db
        /\ GoTo(t, "index")
        /\ UNCHANGED <<arg, localVars, jobVars, historyVars, boundVars>>
     \/ /\ Mirrored
        /\ db' \in {db, db \cup {arg[t]}}
        /\ Raise(t)
  /\ UNCHANGED <<up, items, vec, diskVars>>

\* _index_item, which never raises.
WriteIndex(t) ==
  /\ pc[t] = "index"
  /\ vec' = IF Semantic THEN [vec EXCEPT ![ProcOf[t]] = @ \cup {arg[t]}] ELSE vec
  /\ GoTo(t, "dump")
  /\ UNCHANGED <<up, items, db, diskVars, arg, localVars, jobVars, historyVars, boundVars>>

-----------------------------------------------------------------------------
(***************************************************************************)
(* _flush_persisted: serialise the list, write the temporary file, rename. *)
(* The temporary file has one name, whoever writes it.                     *)
(***************************************************************************)
Dump(t) ==
  /\ pc[t] = "dump"
  /\ snap' = [snap EXCEPT ![t] = List(t)]
  /\ GoTo(t, "open")
  /\ UNCHANGED <<up, dataVars, diskVars, arg, fd, victims, removed, jobVars,
                 historyVars, boundVars>>

FreeInode == CHOOSE n \in Inodes : n \notin {file, tmp} \cup {fd[t] : t \in Threads}

\* Mutant: the list is written straight to persist_path.
OpenInPlace(t) ==
  /\ pc[t] = "open"
  /\ LET n == IF file = NoFile THEN FreeInode ELSE file
     IN  /\ tmp' = n
         /\ content' = [content EXCEPT ![n] = Torn]
         /\ fd' = [fd EXCEPT ![t] = n]
  /\ GoTo(t, "write")
  /\ UNCHANGED <<up, dataVars, file, arg, snap, victims, removed, jobVars, historyVars,
                 boundVars>>

\* open(tmp, "w"): creates the file or truncates the one that is there.
OpenTmp(t) ==
  /\ pc[t] = "open"
  /\ LET n == IF tmp = NoFile THEN FreeInode ELSE tmp
     IN  /\ tmp' = n
         /\ content' = [content EXCEPT ![n] = Torn]
         /\ fd' = [fd EXCEPT ![t] = n]
  /\ GoTo(t, "write")
  /\ UNCHANGED <<up, dataVars, file, arg, snap, victims, removed, jobVars, historyVars,
                 boundVars>>

\* What the file holds after the write: the list, unless another writer's bytes
\* are in the same file.
Written(t) ==
  LET shared == \/ content[fd[t]] # Torn
                \/ \E u \in Threads \ {t} : fd[u] = fd[t]
  IN  IF shared THEN {snap[t], Torn} ELSE {snap[t]}

WriteTmp(t) ==
  /\ pc[t] = "write"
  /\ \E c \in Written(t) : content' = [content EXCEPT ![fd[t]] = c]
  /\ fd' = [fd EXCEPT ![t] = NoFile]
  /\ GoTo(t, "replace")
  /\ UNCHANGED <<up, dataVars, file, tmp, arg, snap, victims, removed, jobVars,
                 historyVars, boundVars>>

\* tmp.replace(persist_path) raises when somebody else has renamed it already.
Replace(t) ==
  /\ pc[t] = "replace"
  /\ \/ /\ tmp # NoFile
        /\ file' = tmp /\ tmp' = NoFile
        /\ GoTo(t, "return")
        /\ UNCHANGED <<arg, localVars, jobVars, historyVars, boundVars>>
     \/ /\ tmp = NoFile
        /\ End(t)
        /\ UNCHANGED <<fd, used, doomed, kept, gone, boundVars, file, tmp>>
  /\ UNCHANGED <<up, dataVars, content>>

-----------------------------------------------------------------------------
(***************************************************************************)
(* delete and erase_all                                                    *)
(***************************************************************************)
\* A removal begins: what it covers is no longer promised to stay (a curation is
\* meant for the stale items only).
Begin(t, covered) ==
  /\ LET meant == IF job[t] = "curate" THEN covered \cap Stale ELSE covered
     IN  /\ doomed' = doomed \cup (used \cap meant)
         /\ kept' = kept \ meant
  /\ UNCHANGED <<used, gone>>

\* A removal by request promises that what was stored will be gone.
Promise(t, covered) == owed' = [owed EXCEPT ![t] = kept \cap covered]

\* delete: the list comprehensions that split the list.
DeleteRead(t, k) ==
  LET covered == {i \in Items : Key[i] = k}
  IN  /\ Begin(t, covered)
      /\ victims' = [victims EXCEPT ![t] = covered]
      /\ removed' = [removed EXCEPT ![t] = List(t) \cap covered]
      /\ snap' = [snap EXCEPT ![t] = List(t) \ covered]
      /\ GoTo(t, "rebind")
      /\ UNCHANGED <<up, dataVars, diskVars, arg, fd, crashes, raised>>

Delete(t, k) ==
  /\ Request(t)
  /\ Counted
  /\ DeleteRead(t, k)
  /\ Promise(t, {i \in Items : Key[i] = k})
  /\ UNCHANGED jobVars

\* self._items = [...]: what was appended to the old list since is dropped.
DeleteRebind(t) ==
  /\ pc[t] = "rebind"
  /\ Bind(t, snap[t])
  /\ GoTo(t, "unmirror")
  /\ UNCHANGED <<up, vec, db, diskVars, arg, localVars, jobVars, historyVars, boundVars>>

\* Mutant: delete leaves the database alone when the list had the item.
DeleteListFirst(t) ==
  /\ pc[t] = "unmirror"
  /\ db' = IF removed[t] # {} THEN db ELSE db \ victims[t]
  /\ GoTo(t, "unindex")
  /\ UNCHANGED <<up, items, vec, diskVars, arg, localVars, jobVars, historyVars, boundVars>>

DeleteMirror(t) ==
  /\ pc[t] = "unmirror"
  /\ \/ /\ db' = db \ victims[t]
        /\ GoTo(t, "unindex")
        /\ UNCHANGED <<arg, localVars, jobVars, historyVars, boundVars>>
     \/ /\ Mirrored
        /\ db' \in {db, db \ victims[t]}
        /\ Raise(t)
  /\ UNCHANGED <<up, items, vec, diskVars>>

\* Mutant: the vector index is left alone.
DeleteKeepsIndex(t) ==
  /\ pc[t] = "unindex"
  /\ GoTo(t, IF removed[t] # {} THEN "dump" ELSE "return")
  /\ UNCHANGED <<up, items, vec, db, diskVars, arg, localVars, jobVars, historyVars,
                 boundVars>>

\* The index forgets the removed items; a flush only if there were any.
DeleteIndex(t) ==
  /\ pc[t] = "unindex"
  /\ vec' = [vec EXCEPT ![ProcOf[t]] = @ \ removed[t]]
  /\ GoTo(t, IF removed[t] # {} THEN "dump" ELSE "return")
  /\ UNCHANGED <<up, items, db, diskVars, arg, localVars, jobVars, historyVars, boundVars>>

Erase(t) ==
  /\ Request(t)
  /\ Counted
  /\ Begin(t, Items) /\ Promise(t, Items)
  /\ removed' = [removed EXCEPT ![t] = Items]
  /\ Bind(t, {})
  /\ GoTo(t, "wipe")
  /\ UNCHANGED <<up, vec, db, diskVars, arg, snap, fd, victims, jobVars, crashes,
                 raised>>

EraseMirror(t) ==
  /\ pc[t] = "wipe"
  /\ \/ /\ db' = {}
        /\ GoTo(t, "wipeindex")
        /\ UNCHANGED <<arg, localVars, jobVars, historyVars, boundVars>>
     \/ /\ Mirrored
        /\ db' \in {db, {}}
        /\ Raise(t)
  /\ UNCHANGED <<up, items, vec, diskVars>>

\* Mutant: erase_all does not flush.
EraseWithoutFlush(t) ==
  /\ pc[t] = "wipeindex"
  /\ vec' = [vec EXCEPT ![ProcOf[t]] = {}]
  /\ GoTo(t, "return")
  /\ UNCHANGED <<up, items, db, diskVars, arg, localVars, jobVars, historyVars, boundVars>>

EraseIndex(t) ==
  /\ pc[t] = "wipeindex"
  /\ vec' = [vec EXCEPT ![ProcOf[t]] = {}]
  /\ GoTo(t, "dump")
  /\ UNCHANGED <<up, items, db, diskVars, arg, localVars, jobVars, historyVars, boundVars>>

-----------------------------------------------------------------------------
(***************************************************************************)
(* The call returns, and the jobs that make several calls.                 *)
(***************************************************************************)
\* An accepted write is acknowledged; so is a removal that found something.
Return(t) ==
  /\ pc[t] = "return"
  /\ kept' = kept \cup ((Items \cap {arg[t]}) \ doomed)
  /\ gone' = gone \cup (IF removed[t] # {} THEN owed[t] ELSE {})
  /\ \/ /\ job[t] = "none" \/ (job[t] = "summary" /\ arg[t] # NoItem)
        /\ End(t)
     \/ /\ job[t] = "curate" \/ (job[t] = "summary" /\ arg[t] = NoItem)
        /\ GoTo(t, IF job[t] = "curate" THEN "curate" ELSE "note")
        /\ UNCHANGED <<arg, snap, victims, removed, jobVars, owed>>
  /\ UNCHANGED <<up, dataVars, diskVars, fd, used, doomed, boundVars>>

\* The keys curate_memories will delete: search("") lists the items in memory
\* and the rows of the database.
Prunable(t) == {Key[i] : i \in (List(t) \cup db) \cap Stale}

CurateStart(t) ==
  /\ Idle(t) /\ t \in Jobs
  /\ Counted
  /\ job' = [job EXCEPT ![t] = "curate"]
  /\ todo' = [todo EXCEPT ![t] = Prunable(t)]
  /\ GoTo(t, "curate")
  /\ UNCHANGED <<up, dataVars, diskVars, arg, localVars, historyVars, crashes, raised>>

CurateNext(t) ==
  /\ pc[t] = "curate"
  /\ \E k \in todo[t] :
       /\ DeleteRead(t, k)
       /\ todo' = [todo EXCEPT ![t] = @ \ {k}]
  /\ UNCHANGED <<job, owed, ops>>

CurateEnd(t) ==
  /\ pc[t] = "curate" /\ todo[t] = {}
  /\ End(t)
  /\ UNCHANGED <<up, dataVars, diskVars, fd, used, doomed, kept, gone, boundVars>>

\* Mutant: today's summary is written without deleting the previous one.
SummaryAppend(t) ==
  /\ Idle(t) /\ t \in Jobs
  /\ Counted
  /\ \E i \in Notes \ used : todo' = [todo EXCEPT ![t] = {Key[i]}]
  /\ job' = [job EXCEPT ![t] = "summary"]
  /\ GoTo(t, "note")
  /\ UNCHANGED <<up, dataVars, diskVars, arg, localVars, historyVars, crashes, raised>>

\* daily_summary_precompute: delete today's note, then write the new one.
SummaryStart(t) ==
  /\ Idle(t) /\ t \in Jobs
  /\ Counted
  /\ \E i \in Notes \ used :
       /\ DeleteRead(t, Key[i])
       /\ todo' = [todo EXCEPT ![t] = {Key[i]}]
  /\ job' = [job EXCEPT ![t] = "summary"]
  /\ UNCHANGED owed

-----------------------------------------------------------------------------
Call(t) ==
  \/ \E i \in Items : WriteFiltered(t, i) \/ WriteAppend(t, i)
  \/ \E k \in {Key[i] : i \in Items} : Delete(t, k)
  \/ Erase(t) \/ CurateStart(t) \/ SummaryStart(t)

Step(t) ==
  \/ WriteMirror(t) \/ WriteIndex(t)
  \/ Dump(t) \/ OpenTmp(t) \/ WriteTmp(t) \/ Replace(t)
  \/ DeleteRebind(t) \/ DeleteMirror(t) \/ DeleteIndex(t)
  \/ EraseMirror(t) \/ EraseIndex(t)
  \/ Return(t) \/ CurateNext(t) \/ CurateEnd(t)

Next ==
  \/ \E p \in Procs : Start(p) \/ Crash(p)
  \/ \E t \in Threads : Call(t) \/ Step(t)

Spec == Init /\ [][Next]_vars

-----------------------------------------------------------------------------
(***************************************************************************)
(* Properties.                                                             *)
(***************************************************************************)
\* "Identity and user facts remain available after app/vLLM restarts"
\* (README.md:125): what a restart at this moment would load holds every item
\* whose write was acknowledged, unless its removal has begun.
Durable == kept \subseteq OnDisk

\* "Erase ALL memories? This cannot be undone." (client/js/app.js:462): an item
\* whose deletion or erasure was acknowledged is neither in the file, nor in the
\* database that search reads.
EraseFinal == gone \cap (OnDisk \cup db) = {}

\* "delete / erase_all keep the vector index consistent"
\* (tests/test_semantic_memory.py:215): with no call in progress, and as long as no
\* call of the database has failed, the index of a process has exactly the items
\* of its list.
IndexMatches ==
  \A p \in Procs :
    (Semantic /\ raised = 0 /\ \A t \in Threads : ProcOf[t] = p => pc[t] = "idle") => vec[p] = items[p]

\* "so at most one summary per day - redelivery never accumulates notes"
\* (docs/QUEUE.md:323-324): as long as no call of the database has failed, neither
\* the file nor what a search in a process can return (its list and the database)
\* has two notes of one day. (After an erase that failed at the database the file
\* still has the old note, and a crash brings it back next to the new one.)
OneSummary ==
  LET single(found) ==
        \A i, j \in Notes \cap found : Key[i] = Key[j] => i = j
  IN  raised = 0 => single(OnDisk) /\ \A p \in Procs : single(items[p] \cup db)

\* What a removal was acknowledged for is not in the database, whatever threads
\* and processes do meanwhile: a write that is still to reach the database was
\* not acknowledged when the removal began.
MirrorForgets == gone \cap db = {}

\* curate_memories: "Re-rank the memory store and prune stale items"
\* (app/queue/jobs.py:82): what it finds in the list and deletes is stale.
PruneOnlyStale ==
  [][\A t \in Threads : job[t] = "curate" => removed'[t] \subseteq Stale]_vars
=============================================================================
