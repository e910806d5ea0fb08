-------------------------- MODULE QueueFactoryProofs --------------------------
(***************************************************************************)
(* Theorems about QueueFactory, for any number of threads, calls, faults   *)
(* and resets.                                                             *)
(***************************************************************************)
EXTENDS QueueFactory, TLAPS

USE FactoryAssumption

-----------------------------------------------------------------------------
(***************************************************************************)
(* The inductive invariant: what the cache, the locks and the histories    *)
(* have to do with where the threads are.                                  *)
(***************************************************************************)

\* A channel belongs to the cached object, or to the one that is being cached.
Owned ==
  \A q \in Objects : chan[q] \in {"open", "stale"} =>
    q = cached \/ \E t \in Threads : pc[t] \in {"store", "mark"} /\ mine[t] = q

\* Objects that are or will be cached have been built.
Made ==
  /\ cached # None => chan[cached] # "unmade"
  /\ \A t \in Threads : pc[t] \in {"store", "mark"} /\ mine[t] # None => chan[mine[t]] # "unmade"

\* Who is on the way to enqueue has the cached object, and holds its lock inside.
InHand ==
  \A t \in Threads :
    /\ pc[t] \in {"want"} \cup Using => attempted /\ mine[t] = cached
    /\ pc[t] \in Using => qlock[mine[t]] = t

\* Inside _init_lock nothing is cached until "store", and _attempted is the last
\* thing to be set; the others that read the cache read it after that.
Built ==
  /\ \A t \in Threads :
       /\ pc[t] \in {"connect", "store", "mark"} => ~attempted
       /\ pc[t] = "mark" => cached = mine[t]
       /\ pc[t] = "cached" => attempted
       /\ pc[t] \in {"idle", "cached", "lock", "none", "check", "connect"} => mine[t] = None
  /\ ~attempted /\ (\A t \in Threads : pc[t] # "mark") => cached = None

\* None has a reason wherever it is.
Reasons ==
  /\ attempted /\ cached = None => ~configured \/ failed
  /\ \A t \in Threads :
       /\ pc[t] \in {"store", "mark"} /\ mine[t] = None => ~configured \/ failed
       /\ pc[t] = "none" => ~configured \/ failed

\* Before "store" the factory has not connected.
Counted ==
  /\ connects <= 1
  /\ ~attempted /\ (\A t \in Threads : pc[t] \notin {"store", "mark"}) => connects = 0

\* A channel that is stale will cost one more enqueue; a connection is left behind
\* by a fault.
Paid ==
  /\ refused <= faults
  /\ left <= faults
  /\ (\E q \in Objects : chan[q] = "stale") => refused + 1 <= faults

IInv ==
  TypeOK /\ Owned /\ Made /\ InHand /\ Built /\ Reasons /\ Counted /\ Paid

\* At most one object has a channel.
LEMMA OnlyOne == TypeOK /\ Owned /\ Built => OneQueue
<1> SUFFICES ASSUME TypeOK, Owned, Built, NEW p \in Objects, NEW q \in Objects,
                    chan[p] \in {"open", "stale"}, chan[q] \in {"open", "stale"}
             PROVE  p = q
  BY DEF OneQueue
<1>1. CASE \E t \in Threads : pc[t] \in {"store", "mark"}
  <2>1. PICK t \in Threads : pc[t] \in {"store", "mark"}
    BY <1>1
  <2>2. \A s \in Threads : pc[s] \in Building => s = t
    BY <2>1 DEF TypeOK, Building
  <2>3. cached = None \/ cached = mine[t]
    BY <2>1, <2>2 DEF Built, Building
  <2> QED
    BY <2>1, <2>2, <2>3 DEF Owned, Building
<1>2. CASE \A t \in Threads : pc[t] \notin {"store", "mark"}
  BY <1>2 DEF Owned
<1> QED
  BY <1>1, <1>2

LEMMA InitIInv == Init => IInv
<1> SUFFICES ASSUME Init
             PROVE  IInv
  OBVIOUS
<1> USE DEF Init
<1>1. TypeOK
  BY DEF TypeOK, Places, Building, Using
<1>2. Owned /\ Made /\ InHand
  BY DEF Owned, Made, InHand, Using
<1>3. Built /\ Reasons
  BY DEF Built, Reasons
<1>4. Counted /\ Paid
  BY DEF Counted, Paid
<1> QED
  BY <1>1, <1>2, <1>3, <1>4 DEF IInv

LEMMA CallPreserves ==
  ASSUME IInv, NEW t \in Threads, Call(t)
  PROVE  IInv'
<1> USE DEF Call, factoryVars, objectVars, At, Building, Using
<1>1. TypeOK'
  BY DEF IInv, TypeOK, Made, InHand, Built, Places
<1>2. Owned'
  BY DEF IInv, TypeOK, Owned, Built, InHand
<1>3. InHand'
  BY DEF IInv, TypeOK, InHand, Built
<1>4. Built'
  BY DEF IInv, TypeOK, Built, InHand
<1>5. Reasons'
  BY DEF IInv, TypeOK, Reasons, Built
<1>6. Counted'
  BY DEF IInv, TypeOK, Counted, Built
<1>7. Paid'
  BY DEF IInv, TypeOK, Paid
<1>8. Made'
  BY DEF IInv, TypeOK, Made, InHand, Built
<1> QED
  BY <1>1, <1>2, <1>3, <1>4, <1>5, <1>6, <1>7, <1>8 DEF IInv

LEMMA FastReturnPreserves ==
  ASSUME IInv, NEW t \in Threads, FastReturn(t)
  PROVE  IInv'
<1> USE DEF FastReturn, Got, factoryVars, objectVars, At, Building, Using
<1>1. TypeOK'
  BY DEF IInv, TypeOK, Made, InHand, Built, Places
<1>2. Owned'
  BY DEF IInv, TypeOK, Owned, Built, InHand
<1>3. InHand'
  BY DEF IInv, TypeOK, InHand, Built
<1>4. Built'
  BY DEF IInv, TypeOK, Built, InHand
<1>5. Reasons'
  BY DEF IInv, TypeOK, Reasons, Built
<1>6. Counted'
  BY DEF IInv, TypeOK, Counted, Built
<1>7. Paid'
  BY DEF IInv, TypeOK, Paid
<1>8. Made'
  BY DEF IInv, TypeOK, Made, InHand, Built
<1> QED
  BY <1>1, <1>2, <1>3, <1>4, <1>5, <1>6, <1>7, <1>8 DEF IInv

LEMMA EnterInitPreserves ==
  ASSUME IInv, NEW t \in Threads, EnterInit(t)
  PROVE  IInv'
<1> USE DEF EnterInit, factoryVars, objectVars, At, Building, Using
<1>1. TypeOK'
  BY DEF IInv, TypeOK, Made, InHand, Built, Places
<1>2. Owned'
  BY DEF IInv, TypeOK, Owned, Built, InHand
<1>3. InHand'
  BY DEF IInv, TypeOK, InHand, Built
<1>4. Built'
  BY DEF IInv, TypeOK, Built, InHand
<1>5. Reasons'
  BY DEF IInv, TypeOK, Reasons, Built
<1>6. Counted'
  BY DEF IInv, TypeOK, Counted, Built
<1>7. Paid'
  BY DEF IInv, TypeOK, Paid
<1>8. Made'
  BY DEF IInv, TypeOK, Made, InHand, Built
<1> QED
  BY <1>1, <1>2, <1>3, <1>4, <1>5, <1>6, <1>7, <1>8 DEF IInv

LEMMA FoundPreserves ==
  ASSUME IInv, NEW t \in Threads, Found(t)
  PROVE  IInv'
<1> USE DEF Found, Got, factoryVars, objectVars, At, Building, Using
<1>1. TypeOK'
  BY DEF IInv, TypeOK, Made, InHand, Built, Places
<1>2. Owned'
  BY DEF IInv, TypeOK, Owned, Built, InHand
<1>3. InHand'
  BY DEF IInv, TypeOK, InHand, Built
<1>4. Built'
  BY DEF IInv, TypeOK, Built, InHand
<1>5. Reasons'
  BY DEF IInv, TypeOK, Reasons, Built
<1>6. Counted'
  BY DEF IInv, TypeOK, Counted, Built
<1>7. Paid'
  BY DEF IInv, TypeOK, Paid
<1>8. Made'
  BY DEF IInv, TypeOK, Made, InHand, Built
<1> QED
  BY <1>1, <1>2, <1>3, <1>4, <1>5, <1>6, <1>7, <1>8 DEF IInv

LEMMA FirstCallPreserves ==
  ASSUME IInv, NEW t \in Threads, FirstCall(t)
  PROVE  IInv'
<1> USE DEF FirstCall, factoryVars, objectVars, At, Building, Using
<1>1. TypeOK'
  BY DEF IInv, TypeOK, Made, InHand, Built, Places
<1>2. Owned'
  BY DEF IInv, TypeOK, Owned, Built, InHand
<1>3. InHand'
  BY DEF IInv, TypeOK, InHand, Built
<1>4. Built'
  BY DEF IInv, TypeOK, Built, InHand
<1>5. Reasons'
  BY DEF IInv, TypeOK, Reasons, Built
<1>6. Counted'
  BY DEF IInv, TypeOK, Counted, Built
<1>7. Paid'
  BY DEF IInv, TypeOK, Paid
<1>8. Made'
  BY DEF IInv, TypeOK, Made, InHand, Built
<1> QED
  BY <1>1, <1>2, <1>3, <1>4, <1>5, <1>6, <1>7, <1>8 DEF IInv

LEMMA ConnectPreserves ==
  ASSUME IInv, NEW t \in Threads, Connect(t)
  PROVE  IInv'
<1> USE DEF Connect, factoryVars, objectVars, At, Building, Using
<1>1. TypeOK'
  BY DEF IInv, TypeOK, Made, InHand, Built, Places
<1>2. Owned'
  BY DEF IInv, TypeOK, Owned, Built, InHand
<1>3. InHand'
  BY DEF IInv, TypeOK, InHand, Built
<1>4. Built'
  BY DEF IInv, TypeOK, Built, InHand
<1>5. Reasons'
  BY DEF IInv, TypeOK, Reasons, Built
<1>6. Counted'
  BY DEF IInv, TypeOK, Counted, Built
<1>7. Paid'
  BY DEF IInv, TypeOK, Paid
<1>8. Made'
  BY DEF IInv, TypeOK, Made, InHand, Built
<1> QED
  BY <1>1, <1>2, <1>3, <1>4, <1>5, <1>6, <1>7, <1>8 DEF IInv

LEMMA ConnectFailsPreserves ==
  ASSUME IInv, NEW t \in Threads, ConnectFails(t)
  PROVE  IInv'
<1> USE DEF ConnectFails, Fault, MayLeave, factoryVars, objectVars, At, Building, Using
<1>1. TypeOK'
  BY DEF IInv, TypeOK, Made, InHand, Built, Places
<1>2. Owned'
  BY DEF IInv, TypeOK, Owned, Built, InHand
<1>3. InHand'
  BY DEF IInv, TypeOK, InHand, Built
<1>4. Built'
  BY DEF IInv, TypeOK, Built, InHand
<1>5. Reasons'
  BY DEF IInv, TypeOK, Reasons, Built
<1>6. Counted'
  BY DEF IInv, TypeOK, Counted, Built
<1>7. Paid'
  BY DEF IInv, TypeOK, Paid
<1>8. Made'
  BY DEF IInv, TypeOK, Made, InHand, Built
<1> QED
  BY <1>1, <1>2, <1>3, <1>4, <1>5, <1>6, <1>7, <1>8 DEF IInv

LEMMA StorePreserves ==
  ASSUME IInv, NEW t \in Threads, Store(t)
  PROVE  IInv'
<1> USE DEF Store, factoryVars, objectVars, At, Building, Using
<1>1. TypeOK'
  BY DEF IInv, TypeOK, Made, InHand, Built, Places
<1>2. Owned'
  BY DEF IInv, TypeOK, Owned, Built, InHand
<1>3. InHand'
  BY DEF IInv, TypeOK, InHand, Built
<1>4. Built'
  BY DEF IInv, TypeOK, Built, InHand
<1>5. Reasons'
  BY DEF IInv, TypeOK, Reasons, Built
<1>6. Counted'
  BY DEF IInv, TypeOK, Counted, Built
<1>7. Paid'
  BY DEF IInv, TypeOK, Paid
<1>8. Made'
  BY DEF IInv, TypeOK, Made, InHand, Built
<1> QED
  BY <1>1, <1>2, <1>3, <1>4, <1>5, <1>6, <1>7, <1>8 DEF IInv

LEMMA MarkPreserves ==
  ASSUME IInv, NEW t \in Threads, Mark(t)
  PROVE  IInv'
<1> USE DEF Mark, Got, factoryVars, objectVars, At, Building, Using
<1>1. TypeOK'
  BY DEF IInv, TypeOK, Made, InHand, Built, Places
<1>2. Owned'
  BY DEF IInv, TypeOK, Owned, Built, InHand
<1>3. InHand'
  BY DEF IInv, TypeOK, InHand, Built
<1>4. Built'
  BY DEF IInv, TypeOK, Built, InHand
<1>5. Reasons'
  BY DEF IInv, TypeOK, Reasons, Built
<1>6. Counted'
  BY DEF IInv, TypeOK, Counted, Built
<1>7. Paid'
  BY DEF IInv, TypeOK, Paid
<1>8. Made'
  BY DEF IInv, TypeOK, Made, InHand, Built
<1> QED
  BY <1>1, <1>2, <1>3, <1>4, <1>5, <1>6, <1>7, <1>8 DEF IInv

LEMMA WithoutPreserves ==
  ASSUME IInv, NEW t \in Threads, Without(t)
  PROVE  IInv'
<1> USE DEF Without, factoryVars, objectVars, At, Building, Using
<1>1. TypeOK'
  BY DEF IInv, TypeOK, Made, InHand, Built, Places
<1>2. Owned'
  BY DEF IInv, TypeOK, Owned, Built, InHand
<1>3. InHand'
  BY DEF IInv, TypeOK, InHand, Built
<1>4. Built'
  BY DEF IInv, TypeOK, Built, InHand
<1>5. Reasons'
  BY DEF IInv, TypeOK, Reasons, Built
<1>6. Counted'
  BY DEF IInv, TypeOK, Counted, Built
<1>7. Paid'
  BY DEF IInv, TypeOK, Paid
<1>8. Made'
  BY DEF IInv, TypeOK, Made, InHand, Built
<1> QED
  BY <1>1, <1>2, <1>3, <1>4, <1>5, <1>6, <1>7, <1>8 DEF IInv

LEMMA EnterPreserves ==
  ASSUME IInv, NEW t \in Threads, Enter(t)
  PROVE  IInv'
<1> USE DEF Enter, factoryVars, objectVars, At, Building, Using
<1>1. TypeOK'
  BY DEF IInv, TypeOK, Made, InHand, Built, Places
<1>2. Owned'
  BY DEF IInv, TypeOK, Owned, Built, InHand
<1>3. InHand'
  BY DEF IInv, TypeOK, InHand, Built
<1>4. Built'
  BY DEF IInv, TypeOK, Built, InHand
<1>5. Reasons'
  BY DEF IInv, TypeOK, Reasons, Built
<1>6. Counted'
  BY DEF IInv, TypeOK, Counted, Built
<1>7. Paid'
  BY DEF IInv, TypeOK, Paid
<1>8. Made'
  BY DEF IInv, TypeOK, Made, InHand, Built
<1> QED
  BY <1>1, <1>2, <1>3, <1>4, <1>5, <1>6, <1>7, <1>8 DEF IInv

LEMMA EnsurePreserves ==
  ASSUME IInv, NEW t \in Threads, Ensure(t)
  PROVE  IInv'
<1> USE DEF Ensure, factoryVars, objectVars, At, Building, Using
<1>1. TypeOK'
  BY DEF IInv, TypeOK, Made, InHand, Built, Places
<1>2. Owned'
  BY DEF IInv, TypeOK, Owned, Built, InHand
<1>3. InHand'
  BY DEF IInv, TypeOK, InHand, Built
<1>4. Built'
  BY DEF IInv, TypeOK, Built, InHand
<1>5. Reasons'
  BY DEF IInv, TypeOK, Reasons, Built
<1>6. Counted'
  BY DEF IInv, TypeOK, Counted, Built
<1>7. Paid'
  BY DEF IInv, TypeOK, Paid
<1>8. Made'
  BY DEF IInv, TypeOK, Made, InHand, Built
<1> QED
  BY <1>1, <1>2, <1>3, <1>4, <1>5, <1>6, <1>7, <1>8 DEF IInv

LEMMA EnsureFailsPreserves ==
  ASSUME IInv, NEW t \in Threads, EnsureFails(t)
  PROVE  IInv'
<1> USE DEF EnsureFails, Refuse, Leave, Fault, MayLeave, factoryVars, objectVars, At, Building, Using
<1>1. TypeOK'
  BY DEF IInv, TypeOK, Made, InHand, Built, Places
<1>2. Owned'
  BY DEF IInv, TypeOK, Owned, Built, InHand
<1>3. InHand'
  BY DEF IInv, TypeOK, InHand, Built
<1>4. Built'
  BY DEF IInv, TypeOK, Built, InHand
<1>5. Reasons'
  BY DEF IInv, TypeOK, Reasons, Built
<1>6. Counted'
  BY DEF IInv, TypeOK, Counted, Built
<1>7. Paid'
  BY DEF IInv, TypeOK, Paid
<1>8. Made'
  BY DEF IInv, TypeOK, Made, InHand, Built
<1> QED
  BY <1>1, <1>2, <1>3, <1>4, <1>5, <1>6, <1>7, <1>8 DEF IInv

LEMMA PublishedPreserves ==
  ASSUME IInv, NEW t \in Threads, Published(t)
  PROVE  IInv'
<1> USE DEF Published, Leave, factoryVars, objectVars, At, Building, Using
<1>1. TypeOK'
  BY DEF IInv, TypeOK, Made, InHand, Built, Places
<1>2. Owned'
  BY DEF IInv, TypeOK, Owned, Built, InHand
<1>3. InHand'
  BY DEF IInv, TypeOK, InHand, Built
<1>4. Built'
  BY DEF IInv, TypeOK, Built, InHand
<1>5. Reasons'
  BY DEF IInv, TypeOK, Reasons, Built
<1>6. Counted'
  BY DEF IInv, TypeOK, Counted, Built
<1>7. Paid'
  BY DEF IInv, TypeOK, Paid
<1>8. Made'
  BY DEF IInv, TypeOK, Made, InHand, Built
<1> QED
  BY <1>1, <1>2, <1>3, <1>4, <1>5, <1>6, <1>7, <1>8 DEF IInv

LEMMA PublishFailsPreserves ==
  ASSUME IInv, NEW t \in Threads, PublishFails(t)
  PROVE  IInv'
<1> USE DEF PublishFails, Refuse, Leave, Fault, MayLeave, factoryVars, objectVars, At, Building, Using
<1>1. TypeOK'
  BY DEF IInv, TypeOK, Made, InHand, Built, Places
<1>2. Owned'
  BY DEF IInv, TypeOK, Owned, Built, InHand
<1>3. InHand'
  BY DEF IInv, TypeOK, InHand, Built
<1>4. Built'
  BY DEF IInv, TypeOK, Built, InHand
<1>5. Reasons'
  BY DEF IInv, TypeOK, Reasons, Built
<1>6. Counted'
  BY DEF IInv, TypeOK, Counted, Built
<1>7. Paid'
  BY OnlyOne DEF IInv, TypeOK, Paid, OneQueue
<1>8. Made'
  BY DEF IInv, TypeOK, Made, InHand, Built
<1> QED
  BY <1>1, <1>2, <1>3, <1>4, <1>5, <1>6, <1>7, <1>8 DEF IInv

LEMMA ResetPreserves ==
  ASSUME IInv, Reset
  PROVE  IInv'
<1> USE DEF Reset, factoryVars, objectVars, Building, Using
<1>1. TypeOK'
  <2>1. chan' \in [Objects -> {"unmade", "none", "open", "stale"}]
    BY DEF IInv, TypeOK
  <2>2. \A t \in Threads : pc'[t] \in {"want"} \cup Using =>
          mine'[t] # None /\ chan'[mine'[t]] # "unmade"
    BY DEF IInv, TypeOK
  <2>3. \A t \in Threads : pc'[t] \in Building <=> initLock' = t
    BY DEF IInv, TypeOK
  <2>4. configured' \in BOOLEAN /\ up' \in BOOLEAN /\ attempted' \in BOOLEAN /\ failed' \in BOOLEAN
    BY Zenon DEF IInv, TypeOK
  <2>5. /\ connects' \in Nat /\ refused' \in Nat /\ calls' \in Nat /\ faults' \in Nat /\ resets' \in Nat
        /\ left' \in Nat
    BY DEF IInv, TypeOK
  <2>6. /\ cached' \in Objects \cup {None} /\ initLock' \in Threads \cup {None}
        /\ qlock' \in [Objects -> Threads \cup {None}]
        /\ pc' \in [Threads -> Places] /\ mine' \in [Threads -> Objects \cup {None}]
    BY DEF IInv, TypeOK
  <2> HIDE DEF Reset, Building, Using
  <2> QED
    BY <2>1, <2>2, <2>3, <2>4, <2>5, <2>6 DEF TypeOK
<1>2. Owned'
  BY DEF IInv, TypeOK, Owned
<1>3. InHand'
  BY DEF IInv, TypeOK, InHand
<1>4. Built'
  BY DEF IInv, TypeOK, Built
<1>5. Reasons'
  BY DEF IInv, TypeOK, Reasons
<1>6. Counted'
  BY DEF IInv, TypeOK, Counted
<1>7. Paid'
  BY DEF IInv, TypeOK, Paid
<1>8. Made'
  BY DEF IInv, TypeOK, Made
<1> QED
  BY <1>1, <1>2, <1>3, <1>4, <1>5, <1>6, <1>7, <1>8 DEF IInv

LEMMA LostPreserves ==
  ASSUME IInv, NEW q \in Objects, ConnectionLost(q)
  PROVE  IInv'
<1> USE DEF ConnectionLost, Fault, factoryVars, objectVars, Building, Using
<1>1. TypeOK'
  BY DEF IInv, TypeOK, Places
<1>2. Owned'
  BY DEF IInv, TypeOK, Owned
<1>3. InHand'
  BY DEF IInv, TypeOK, InHand
<1>4. Built'
  BY DEF IInv, TypeOK, Built
<1>5. Reasons'
  BY DEF IInv, TypeOK, Reasons
<1>6. Counted'
  BY DEF IInv, TypeOK, Counted
<1>7. Paid'
  BY DEF IInv, TypeOK, Paid
<1>8. Made'
  BY DEF IInv, TypeOK, Made
<1> QED
  BY <1>1, <1>2, <1>3, <1>4, <1>5, <1>6, <1>7, <1>8 DEF IInv

LEMMA OutagePreserves ==
  ASSUME IInv, Outage
  PROVE  IInv'
<1> USE DEF Outage, Fault, factoryVars, objectVars, Building, Using
<1>1. TypeOK'
  <2>1. chan' \in [Objects -> {"unmade", "none", "open", "stale"}]
    BY DEF IInv, TypeOK
  <2>2. \A t \in Threads : pc'[t] \in {"want"} \cup Using =>
          mine'[t] # None /\ chan'[mine'[t]] # "unmade"
    BY DEF IInv, TypeOK
  <2>3. \A t \in Threads : pc'[t] \in Building <=> initLock' = t
    BY DEF IInv, TypeOK
  <2>4. configured' \in BOOLEAN /\ up' \in BOOLEAN /\ attempted' \in BOOLEAN /\ failed' \in BOOLEAN
    BY Zenon DEF IInv, TypeOK
  <2>5. /\ connects' \in Nat /\ refused' \in Nat /\ calls' \in Nat /\ faults' \in Nat /\ resets' \in Nat
        /\ left' \in Nat
    BY DEF IInv, TypeOK
  <2>6. /\ cached' \in Objects \cup {None} /\ initLock' \in Threads \cup {None}
        /\ qlock' \in [Objects -> Threads \cup {None}]
        /\ pc' \in [Threads -> Places] /\ mine' \in [Threads -> Objects \cup {None}]
    BY DEF IInv, TypeOK
  <2> HIDE DEF Outage, Building, Using
  <2> QED
    BY <2>1, <2>2, <2>3, <2>4, <2>5, <2>6 DEF TypeOK
<1>2. Owned'
  BY DEF IInv, TypeOK, Owned
<1>3. InHand'
  BY DEF IInv, TypeOK, InHand
<1>4. Built'
  BY DEF IInv, TypeOK, Built
<1>5. Reasons'
  BY DEF IInv, TypeOK, Reasons
<1>6. Counted'
  BY DEF IInv, TypeOK, Counted
<1>7. Paid'
  BY DEF IInv, TypeOK, Paid
<1>8. Made'
  BY DEF IInv, TypeOK, Made
<1> QED
  BY <1>1, <1>2, <1>3, <1>4, <1>5, <1>6, <1>7, <1>8 DEF IInv

LEMMA RecoveryPreserves ==
  ASSUME IInv, Recovery
  PROVE  IInv'
<1> USE DEF Recovery, factoryVars, objectVars, Building, Using
<1>1. TypeOK'
  BY DEF IInv, TypeOK, Places
<1>2. Owned'
  BY DEF IInv, TypeOK, Owned
<1>3. InHand'
  BY DEF IInv, TypeOK, InHand
<1>4. Built'
  BY DEF IInv, TypeOK, Built
<1>5. Reasons'
  BY DEF IInv, TypeOK, Reasons
<1>6. Counted'
  BY DEF IInv, TypeOK, Counted
<1>7. Paid'
  BY DEF IInv, TypeOK, Paid
<1>8. Made'
  BY DEF IInv, TypeOK, Made
<1> QED
  BY <1>1, <1>2, <1>3, <1>4, <1>5, <1>6, <1>7, <1>8 DEF IInv

LEMMA LeftEndsPreserves ==
  ASSUME IInv, LeftEnds
  PROVE  IInv'
<1> USE DEF LeftEnds, factoryVars, objectVars, Building, Using
<1>1. TypeOK'
  BY DEF IInv, TypeOK, Places
<1>2. Owned'
  BY DEF IInv, TypeOK, Owned
<1>3. InHand'
  BY DEF IInv, TypeOK, InHand
<1>4. Built'
  BY DEF IInv, TypeOK, Built
<1>5. Reasons'
  BY DEF IInv, TypeOK, Reasons
<1>6. Counted'
  BY DEF IInv, TypeOK, Counted
<1>7. Paid'
  BY DEF IInv, TypeOK, Paid
<1>8. Made'
  BY DEF IInv, TypeOK, Made
<1> QED
  BY <1>1, <1>2, <1>3, <1>4, <1>5, <1>6, <1>7, <1>8 DEF IInv

LEMMA StutterPreserves ==
  ASSUME IInv, UNCHANGED vars
  PROVE  IInv'
BY DEF IInv, vars, TypeOK, Owned, Made, InHand, Built, Reasons, Counted, Paid, Using, Building, Places

-----------------------------------------------------------------------------
LEMMA StepPreserves == IInv /\ [Next]_vars => IInv'
<1> SUFFICES ASSUME IInv, [Next]_vars
             PROVE  IInv'
  OBVIOUS
<1>1. CASE UNCHANGED vars
  BY <1>1, StutterPreserves
<1>2. ASSUME NEW t \in Threads, Call(t)
      PROVE  IInv'
  BY <1>2, CallPreserves
<1>3. ASSUME NEW t \in Threads, GetStep(t)
      PROVE  IInv'
  BY <1>3, FastReturnPreserves, EnterInitPreserves, FoundPreserves, FirstCallPreserves, ConnectPreserves, ConnectFailsPreserves, StorePreserves, MarkPreserves, WithoutPreserves DEF GetStep
<1>4. ASSUME NEW t \in Threads, EnqueueStep(t)
      PROVE  IInv'
  BY <1>4, EnterPreserves, EnsurePreserves, EnsureFailsPreserves, PublishedPreserves, PublishFailsPreserves DEF EnqueueStep
<1>5. ASSUME NEW q \in Objects, ConnectionLost(q)
      PROVE  IInv'
  BY <1>5, LostPreserves
<1>6. CASE LeftEnds \/ Reset \/ Outage \/ Recovery
  BY <1>6, LeftEndsPreserves, ResetPreserves, OutagePreserves, RecoveryPreserves
<1> QED
  BY <1>1, <1>2, <1>3, <1>4, <1>5, <1>6 DEF Next

LEMMA Inductive == Spec => []IInv
BY InitIInv, StepPreserves, PTL DEF Spec

\* Every reachable state is type correct, and _init_lock is held by the thread
\* that builds the queue and by nobody else (get_task_queue).
THEOREM FactoryTypes == Spec => []TypeOK
<1>1. IInv => TypeOK
  BY DEF IInv
<1> QED
  BY <1>1, Inductive, PTL

\* Two threads of the pool never use one pika channel at a time
\* (RabbitMQTaskQueue.enqueue under _lock).
THEOREM ChannelsAreExclusive == Spec => []ChannelExclusive
<1>1. IInv => ChannelExclusive
  BY DEF IInv, InHand, ChannelExclusive
<1> QED
  BY <1>1, Inductive, PTL

\* However many threads make the first call together, at most one queue object
\* has a channel, and a reset closes it before the next is built (get_task_queue,
\* reset_task_queue_cache). It says nothing of connections that are forgotten.
THEOREM OneQueueAtMost == Spec => []OneQueue
<1>1. IInv => OneQueue
  BY OnlyOne DEF IInv
<1> QED
  BY <1>1, Inductive, PTL

\* No caller reads a half-initialized cache: None means disabled or unreachable
\* (the lock-free path of get_task_queue).
THEOREM NoneHasAReason == Spec => []NoneIsEarned
<1>1. IInv => NoneIsEarned
  BY DEF IInv, Reasons, NoneIsEarned
<1> QED
  BY <1>1, Inductive, PTL

\* The factory connects once until the next reset, whatever came of it.
THEOREM ConnectsOnce == Spec => []OneAttempt
<1>1. IInv => OneAttempt
  BY DEF IInv, Counted, OneAttempt
<1> QED
  BY <1>1, Inductive, PTL

\* A connection that no object refers to was left by a fault: the error paths of
\* _ensure_channel and enqueue forget it, and nothing else does.
LEMMA LeftIsPaid == Spec => []LeftByFaults
<1>1. IInv => LeftByFaults
  BY DEF IInv, Paid, LeftByFaults
<1> QED
  BY <1>1, Inductive, PTL

\* However many threads make the first call together, the queue object is built
\* once and tried once between two resets, and no more connections are left open
\* beside its own than faults have happened (get_task_queue,
\* reset_task_queue_cache, the error paths of _ensure_channel and enqueue).
THEOREM QueueIsBuiltOnce == Spec => []BuiltOnce
<1>1. TypeOK /\ OneQueue /\ OneAttempt /\ LeftByFaults => BuiltOnce
  BY DEF BuiltOnce
<1> QED
  BY <1>1, FactoryTypes, OneQueueAtMost, ConnectsOnce, LeftIsPaid, PTL

\* A fault of the broker costs one enqueue (the error path of enqueue drops the
\* channel, and the next _ensure_channel opens another).
THEOREM LossPerFault == Spec => []LossesAreSingle
<1>1. IInv => LossesAreSingle
  BY DEF IInv, Paid, LossesAreSingle
<1> QED
  BY <1>1, Inductive, PTL
===============================================================================
