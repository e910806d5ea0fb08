-------------------------- MODULE RateLimiterProofs --------------------------
(***************************************************************************)
(* Theorems about RateLimiter, for every capacity, rate, number of users   *)
(* and threads, and any number of outages and clock changes.               *)
(***************************************************************************)
EXTENDS RateLimiter, TLAPS

USE LimiterAssumption

LEMMA FullType == Full \in Nat /\ Full >= Unit
BY DEF Full

\* _compute_ttl: a key lives at least as long as a full refill takes.
LEMMA TtlCoversRefill ==
  /\ Ttl \in Nat /\ Ttl > 0
  /\ Refill > 0 => Ttl * Refill >= Full
<1>1. CASE Refill = 0
  BY <1>1 DEF Ttl
<1>2. CASE Refill > 0
  <2> DEFINE q == (Full * 2) \div Refill
  <2>1. q \in Nat /\ Full * 2 < (q + 1) * Refill
    BY <1>2, FullType
  <2>2. Ttl \in Nat /\ Ttl >= q + 1
    BY <1>2, <2>1 DEF Ttl, AtLeast
  <2> HIDE DEF q
  <2>3. Ttl * Refill >= (q + 1) * Refill
    BY <2>1, <2>2
  <2>4. Ttl * Refill \in Nat /\ (q + 1) * Refill \in Nat
    BY <2>1, <2>2
  <2> QED
    BY <2>1, <2>2, <2>3, <2>4, FullType
<1> QED
  BY <1>1, <1>2

-----------------------------------------------------------------------------
(***************************************************************************)
(* The inductive invariant: a key expires Ttl after the script last ran,   *)
(* the ideal bucket is never below the real one, and a promise is covered  *)
(* by the refill of the bucket it was made from.                           *)
(***************************************************************************)
Touched(u) == bucket[u] # NoBucket => bucket[u].expires = bucket[u].ts + Ttl

Dominated(u) == Refill > 0 => Level(u) <= ideal[u]

Covered(u) ==
  promised[u] # NoPromise /\ bucket[u] # NoBucket =>
    IF Refill > 0
    THEN /\ promised[u] >= bucket[u].ts
         /\ bucket[u].tokens + (promised[u] - bucket[u].ts) * Refill >= Unit
    ELSE promised[u] >= bucket[u].expires

IInv == TypeOK /\ \A u \in Users : Touched(u) /\ Dominated(u) /\ Covered(u)

LEMMA LevelType ==
  ASSUME TypeOK, NEW u \in Users
  PROVE  Level(u) \in 0..Full
<1>1. CASE Missing(u)
  BY <1>1, FullType DEF Level
<1>2. CASE ~Missing(u)
  <2> DEFINE d == AtLeast(0, now - bucket[u].ts)
  <2>1. bucket[u] \in Bucket
    BY <1>2 DEF TypeOK, Missing
  <2>2. bucket[u].tokens \in 0..Full /\ d \in Nat
    BY <2>1 DEF TypeOK, Bucket, AtLeast
  <2> HIDE DEF d
  <2>3. d * Refill \in Nat
    BY <2>2
  <2>4. AtMost(Full, bucket[u].tokens + d * Refill) \in 0..Full
    BY <2>2, <2>3, FullType DEF AtMost
  <2> QED
    BY <1>2, <2>4 DEF Level, d
<1> QED
  BY <1>1, <1>2

\* What one run of the script does to the bucket of u.
LEMMA ScriptEffect ==
  ASSUME TypeOK, NEW u \in Users, Script(u)
  PROVE  LET left == IF Granted(u) THEN Level(u) - Unit ELSE Level(u)
         IN  /\ left \in 0..Full
             /\ bucket' \in [Users -> Bucket \cup {NoBucket}]
             /\ bucket'[u] = [tokens |-> left, ts |-> now, expires |-> now + Ttl]
             /\ bucket'[u] # NoBucket
             /\ \A v \in Users \ {u} : bucket'[v] = bucket[v]
<1> DEFINE left == IF Granted(u) THEN Level(u) - Unit ELSE Level(u)
<1>1. left \in 0..Full
  BY LevelType, FullType DEF Granted
<1> DEFINE new == [tokens |-> left, ts |-> now, expires |-> now + Ttl]
<1> HIDE DEF left
<1>2. new \in Bucket
  BY <1>1, TtlCoversRefill DEF Bucket, TypeOK
<1>3. bucket' = [bucket EXCEPT ![u] = new]
  BY DEF Script, left
<1> HIDE DEF new
<1>4. new # NoBucket
  BY <1>2, FullType DEF Bucket
<1>5. bucket \in [Users -> Bucket \cup {NoBucket}]
  BY DEF TypeOK
<1>6. /\ bucket' \in [Users -> Bucket \cup {NoBucket}]
      /\ bucket'[u] = new
      /\ \A v \in Users \ {u} : bucket'[v] = bucket[v]
  BY <1>2, <1>3, <1>5
<1> QED
  BY <1>1, <1>4, <1>6 DEF left, new

-----------------------------------------------------------------------------
\* The type invariant alone is inductive: a bucket never holds more than its
\* capacity.
LEMMA TypeStep ==
  ASSUME TypeOK, [Next]_vars
  PROVE  TypeOK'
<1> USE DEF clientVars, historyVars
<1>1. ASSUME NEW t \in Threads, NEW u \in Users, Allow(t, u)
      PROVE  TypeOK'
  <2>1. /\ \E at \in {"idle", "eval", "build"}, v \in {u, NoUser} :
              /\ pc' = [pc EXCEPT ![t] = at] /\ user' = [user EXCEPT ![t] = v]
              /\ v = NoUser => at = "idle"
        /\ UNCHANGED <<client, now, bucket, redisUp, ideal, promised, elapsed, setBacks, faults>>
    BY <1>1 DEF Allow, FailOpen
  <2>2. unmetered' \in BOOLEAN
    BY <1>1, Zenon DEF TypeOK, Allow, FailOpen
  <2>3. /\ pc' \in [Threads -> {"idle", "build", "eval"}]
        /\ user' \in [Threads -> Users \cup {NoUser}]
        /\ \A s \in Threads : pc'[s] # "idle" => user'[s] \in Users
    BY <2>1 DEF TypeOK
  <2> QED
    BY <2>1, <2>2, <2>3 DEF TypeOK
<1>2. ASSUME NEW t \in Threads, Build(t)
      PROVE  TypeOK'
  BY <1>2 DEF TypeOK, Build, FailOpen
<1>3. ASSUME NEW t \in Threads, Decide(t)
      PROVE  TypeOK'
  <2>1. user[t] \in Users
    BY <1>3 DEF TypeOK, Decide
  <2>2. bucket' \in [Users -> Bucket \cup {NoBucket}]
    BY <1>3, <2>1, ScriptEffect DEF Decide
  <2>3. RetryAfter(user[t]) \in Int
    <3>1. Level(user[t]) \in Int
      BY <2>1, LevelType
    <3>2. Ttl \in Int
      BY TtlCoversRefill
    <3> QED
      BY <3>1, <3>2 DEF RetryAfter
  <2>4. promised' \in [Users -> Int \cup {NoPromise}]
    BY <1>3, <2>1, <2>3 DEF TypeOK, Decide
  <2>5. ideal' \in [Users -> Int]
    BY <1>3, <2>1 DEF TypeOK, Decide
  <2> QED
    BY <1>3, <2>2, <2>4, <2>5 DEF TypeOK, Decide
<1>4. ASSUME NEW t \in Threads, EvalRaises(t)
      PROVE  TypeOK'
  <2>1. user[t] \in Users
    BY <1>4 DEF TypeOK, EvalRaises
  <2>2. bucket' \in [Users -> Bucket \cup {NoBucket}]
    BY <1>4, <2>1, ScriptEffect DEF TypeOK, EvalRaises
  <2>3. promised' \in [Users -> Int \cup {NoPromise}]
    BY <1>4, <2>1 DEF TypeOK, EvalRaises
  <2>4. faults' \in 0..MaxFaults
    BY <1>4 DEF TypeOK, EvalRaises
  <2>5. redisUp' \in BOOLEAN
    BY <1>4, Zenon DEF TypeOK, EvalRaises
  <2>6. /\ pc' = [pc EXCEPT ![t] = "idle"]
        /\ user' = [user EXCEPT ![t] = NoUser]
        /\ unmetered' = TRUE
        /\ UNCHANGED <<now, client, ideal, elapsed, setBacks>>
    BY <1>4, Zenon DEF EvalRaises, FailOpen
  <2> QED
    BY <2>2, <2>3, <2>4, <2>5, <2>6 DEF TypeOK
<1>5. ASSUME NEW u \in Users, Expire(u)
      PROVE  TypeOK'
  BY <1>5 DEF TypeOK, Expire
<1>6. CASE Tick
  BY <1>6, FullType DEF TypeOK, Tick, AtMost
<1>7. CASE SetBack
  BY <1>7 DEF TypeOK, SetBack
<1>8. CASE Fail
  <2>1. redisUp' \in BOOLEAN /\ unmetered' \in BOOLEAN
    BY <1>8, Zenon DEF TypeOK, Fail
  <2> QED
    BY <1>8, <2>1 DEF TypeOK, Fail
<1>10. CASE Recover
  BY <1>10 DEF TypeOK, Recover
<1>11. CASE ResetCache
  <2>1. redisUp' \in BOOLEAN /\ unmetered' \in BOOLEAN
    BY <1>11, Zenon DEF TypeOK, ResetCache
  <2> QED
    BY <1>11, <2>1 DEF TypeOK, ResetCache
<1>9. CASE UNCHANGED vars
  BY <1>9 DEF TypeOK, vars
<1> QED
  BY <1>1, <1>2, <1>3, <1>4, <1>5, <1>6, <1>7, <1>8, <1>9, <1>10, <1>11 DEF Next, Call

LEMMA InitTypes ==
  ASSUME Init
  PROVE  TypeOK
<1>1. redisUp \in BOOLEAN /\ unmetered \in BOOLEAN
  BY Zenon DEF Init
<1> QED
  BY <1>1, FullType DEF Init, TypeOK

\* Types hold in every reachable state; no bucket ever holds more than capacity.
THEOREM LimiterTypes == Spec => []TypeOK
<1>1. Init => TypeOK
  BY InitTypes
<1>2. TypeOK /\ [Next]_vars => TypeOK'
  BY TypeStep
<1> QED
  BY <1>1, <1>2, PTL DEF Spec

-----------------------------------------------------------------------------
\* A user no script ran for keeps bucket, ideal level and promise.
LEMMA Undisturbed ==
  ASSUME NEW u \in Users, Touched(u), Dominated(u), Covered(u),
         now' = now, bucket'[u] = bucket[u], ideal'[u] = ideal[u],
         promised'[u] = promised[u]
  PROVE  Touched(u)' /\ Dominated(u)' /\ Covered(u)'
<1>1. Level(u)' = Level(u)
  BY DEF Level, Missing
<1> QED
  BY <1>1 DEF Touched, Dominated, Covered

\* One run of the script for u, at whatever price to the ideal bucket up to the
\* token it took, and whatever it tells the user.
LEMMA ScriptStep ==
  ASSUME TypeOK, NEW u \in Users, Dominated(u), Script(u), now' = now,
         ideal'[u] \in Int,
         ideal'[u] >= (IF Granted(u) THEN ideal[u] - Unit ELSE ideal[u]),
         \/ promised'[u] = NoPromise
         \/ ~Granted(u) /\ promised'[u] = now + RetryAfter(u)
  PROVE  Touched(u)' /\ Dominated(u)' /\ Covered(u)'
<1> DEFINE left == IF Granted(u) THEN Level(u) - Unit ELSE Level(u)
<1>1. /\ left \in 0..Full
      /\ bucket'[u] = [tokens |-> left, ts |-> now, expires |-> now + Ttl]
      /\ bucket'[u] # NoBucket
  BY ScriptEffect
<1>2. now \in Int /\ ideal[u] \in Int /\ Level(u) \in 0..Full
  BY LevelType DEF TypeOK
<1>3. Level(u)' = left
  <2> HIDE DEF left
  <2>1. ~Missing(u)'
    BY <1>1, <1>2, TtlCoversRefill DEF Missing
  <2>2. AtLeast(0, now - now) * Refill = 0
    BY <1>2 DEF AtLeast
  <2> QED
    BY <1>1, <1>2, <2>1, <2>2, FullType DEF Level, AtMost
<1>4. Touched(u)'
  <2> HIDE DEF left
  <2> QED
    BY <1>1 DEF Touched
<1>5. Dominated(u)'
  BY <1>2, <1>3 DEF Dominated
<1>6. Covered(u)'
  <2>1. CASE promised'[u] = NoPromise
    BY <2>1 DEF Covered
  <2>2. CASE ~Granted(u) /\ promised'[u] = now + RetryAfter(u)
    <3>1. bucket'[u].tokens = Level(u) /\ bucket'[u].ts = now
      BY <1>1, <2>2
    <3>2. bucket'[u].expires = now + Ttl
      <4> HIDE DEF left
      <4> QED
        BY <1>1
    <3>3. Level(u) < Unit
      BY <1>2, <2>2, FullType DEF Granted
    <3>4. CASE Refill > 0
      <4> DEFINE w == RetryAfter(u)
                 need == Unit - Level(u)
      <4>1. w = (need + Refill - 1) \div Refill
        BY <3>4 DEF RetryAfter
      <4>2. need \in Nat \ {0}
        BY <1>2, <3>3, FullType
      <4> HIDE DEF w, need
      <4>3. w \in Nat /\ w * Refill >= need
        BY <4>1, <4>2, <3>4
      <4>4. (now + w) - now = w
        BY <1>2, <4>3
      <4>5. Level(u) + w * Refill >= Unit
        BY <1>2, <4>2, <4>3, FullType DEF need
      <4> QED
        BY <1>2, <2>2, <3>1, <3>4, <4>3, <4>4, <4>5 DEF Covered, w
    <3>5. CASE Refill = 0
      <4>1. RetryAfter(u) = Ttl
        BY <3>5 DEF RetryAfter
      <4> QED
        BY <1>2, <2>2, <3>2, <3>5, <4>1, TtlCoversRefill DEF Covered
    <3> QED
      BY <3>4, <3>5
  <2> QED
    BY <2>1, <2>2
<1> QED
  BY <1>4, <1>5, <1>6

\* A second of refill is worth Refill units at most in the real bucket, and a key
\* that expires has been refilled completely.
LEMMA TickStep ==
  ASSUME TypeOK, NEW u \in Users, Touched(u), Dominated(u), Refill > 0,
         now' = now + 1, bucket'[u] = bucket[u],
         ideal'[u] = AtMost(Full, ideal[u] + Refill)
  PROVE  Dominated(u)'
<1>1. now \in Int /\ ideal[u] \in Int /\ Level(u) \in 0..Full /\ Level(u) <= ideal[u]
  BY LevelType DEF TypeOK, Dominated
<1>2. CASE bucket[u] = NoBucket
  BY <1>1, <1>2, FullType DEF Dominated, Level, Missing, AtMost
<1>3. CASE bucket[u] # NoBucket
  <2> DEFINE b == bucket[u]
  <2>1. b \in Bucket /\ b.expires = b.ts + Ttl
    BY <1>3 DEF TypeOK, Touched
  <2>2. b.tokens \in 0..Full /\ b.ts \in Int
    BY <2>1 DEF Bucket
  <2> DEFINE before == AtLeast(0, now - b.ts)
             after == AtLeast(0, now + 1 - b.ts)
  <2>3. before \in Nat /\ after \in Nat /\ after <= before + 1
    BY <1>1, <2>2 DEF AtLeast
  <2>4. Missing(u)' <=> now + 1 >= b.expires
    BY <1>3 DEF Missing
  <2>5. now >= b.expires => Level(u) = Full
    BY <1>3 DEF Level, Missing
  <2>6. now < b.expires => Level(u) = AtMost(Full, b.tokens + before * Refill)
    BY <1>1, <1>3, <2>1, <2>2, TtlCoversRefill DEF Level, Missing
  <2>7. now + 1 < b.expires => Level(u)' = AtMost(Full, b.tokens + after * Refill)
    BY <1>1, <1>3, <2>1, <2>2, TtlCoversRefill DEF Level, Missing
  <2>8. now + 1 >= b.expires => Level(u)' = Full /\ after >= Ttl
    BY <1>1, <1>3, <2>1, <2>2, TtlCoversRefill DEF Level, Missing, AtLeast
  <2> HIDE DEF b, before, after
  <2>9. after * Refill <= before * Refill + Refill
    <3>1. (before + 1) * Refill = before * Refill + Refill
      BY <2>3
    <3>2. after * Refill <= (before + 1) * Refill
      BY <2>3
    <3> QED
      BY <3>1, <3>2
  <2>10. before * Refill \in Nat /\ after * Refill \in Nat
    BY <2>3
  <2>11. b.expires \in Int
    BY <2>1, <2>2, TtlCoversRefill
  <2>12. CASE now >= b.expires
    BY <1>1, <2>5, <2>8, <2>11, <2>12, FullType DEF Dominated, AtMost
  <2>13. CASE now < b.expires /\ now + 1 >= b.expires
    <3>1. after * Refill >= Ttl * Refill
      BY <2>3, <2>8, <2>13, TtlCoversRefill
    <3>2. Ttl * Refill \in Nat /\ Ttl * Refill >= Full
      BY TtlCoversRefill
    <3>3. before * Refill + Refill >= Full
      BY <2>9, <2>10, <3>1, <3>2, FullType
    <3>4. Level(u) + Refill >= Full
      BY <2>2, <2>6, <2>10, <2>13, <3>3, FullType DEF AtMost
    <3> QED
      BY <1>1, <2>8, <2>13, <3>4, FullType DEF Dominated, AtMost
  <2>14. CASE now + 1 < b.expires
    <3>1. Level(u) = AtMost(Full, b.tokens + before * Refill)
      BY <1>1, <2>6, <2>11, <2>14
    <3>2. Level(u)' <= AtMost(Full, Level(u) + Refill)
      BY <2>2, <2>7, <2>9, <2>10, <2>14, <3>1, FullType DEF AtMost
    <3> QED
      BY <1>1, <3>2, <2>2, <2>7, <2>10, <2>14, FullType DEF Dominated, AtMost
  <2> QED
    BY <1>1, <2>11, <2>12, <2>13, <2>14
<1> QED
  BY <1>2, <1>3

\* Setting the clock back takes nothing from an ideal bucket and gives nothing to
\* a real one.
LEMMA SetBackStep ==
  ASSUME TypeOK, NEW u \in Users, Dominated(u), Refill > 0,
         now' = now - 1, bucket'[u] = bucket[u], ideal'[u] = ideal[u]
  PROVE  Dominated(u)'
<1>1. now \in Int /\ ideal[u] \in Int /\ Level(u) \in 0..Full /\ Level(u) <= ideal[u]
  BY LevelType DEF TypeOK, Dominated
<1>2. CASE Missing(u) /\ (bucket[u] = NoBucket \/ Missing(u)')
  BY <1>1, <1>2 DEF Dominated, Level, Missing
<1>3. CASE bucket[u] # NoBucket /\ ~Missing(u)'
  <2> DEFINE b == bucket[u]
  <2>1. b \in Bucket
    BY <1>3 DEF TypeOK
  <2>2. b.tokens \in 0..Full /\ b.ts \in Int
    BY <2>1 DEF Bucket
  <2> DEFINE before == AtLeast(0, now - b.ts)
             after == AtLeast(0, now - 1 - b.ts)
  <2>3. before \in Nat /\ after \in Nat /\ after <= before
    BY <1>1, <2>2 DEF AtLeast
  <2>4. Level(u)' = AtMost(Full, b.tokens + after * Refill)
    BY <1>3 DEF Level
  <2>5. Level(u) = Full \/ Level(u) = AtMost(Full, b.tokens + before * Refill)
    BY <1>3 DEF Level
  <2> HIDE DEF b, before, after
  <2>6. /\ before * Refill \in Nat /\ after * Refill \in Nat
        /\ after * Refill <= before * Refill
    BY <2>3
  <2>7. Level(u)' <= Level(u) /\ Level(u)' \in Int
    BY <2>2, <2>4, <2>5, <2>6, FullType DEF AtMost
  <2> QED
    BY <1>1, <2>7 DEF Dominated
<1>4. bucket[u] = NoBucket => Missing(u) /\ Missing(u)'
  BY DEF Missing
<1>5. Missing(u)' => Missing(u)
  <2>1. CASE bucket[u] = NoBucket
    BY <2>1 DEF Missing
  <2>2. CASE bucket[u] # NoBucket
    <3>1. bucket[u].expires \in Int
      BY <2>2 DEF TypeOK, Bucket
    <3> QED
      BY <1>1, <2>2, <3>1 DEF Missing
  <2> QED
    BY <2>1, <2>2
<1> QED
  BY <1>2, <1>3, <1>4, <1>5

-----------------------------------------------------------------------------
LEMMA InvariantStep ==
  ASSUME IInv, [Next]_vars
  PROVE  IInv'
<1> USE DEF clientVars, historyVars
<1>1. TypeOK /\ TypeOK'
  BY TypeStep DEF IInv
<1> SUFFICES ASSUME NEW u \in Users
             PROVE  Touched(u)' /\ Dominated(u)' /\ Covered(u)'
  BY <1>1 DEF IInv
<1>2. Touched(u) /\ Dominated(u) /\ Covered(u)
  BY DEF IInv
<1>3. ASSUME UNCHANGED <<now, bucket, ideal, promised>>
      PROVE  Touched(u)' /\ Dominated(u)' /\ Covered(u)'
  BY <1>2, <1>3, Undisturbed
<1>4. ASSUME NEW t \in Threads, NEW v \in Users, Allow(t, v)
      PROVE  Touched(u)' /\ Dominated(u)' /\ Covered(u)'
  BY <1>3, <1>4 DEF Allow
<1>5. ASSUME NEW t \in Threads, Build(t)
      PROVE  Touched(u)' /\ Dominated(u)' /\ Covered(u)'
  BY <1>3, <1>5 DEF Build
<1>6. ASSUME NEW t \in Threads, Decide(t)
      PROVE  Touched(u)' /\ Dominated(u)' /\ Covered(u)'
  <2>1. user[t] \in Users /\ now' = now /\ Script(user[t])
    BY <1>1, <1>6 DEF TypeOK, Decide
  <2>2. CASE user[t] = u
    <3>1. ideal'[u] = IF Granted(u) THEN ideal[u] - Unit ELSE ideal[u]
      BY <1>1, <1>6, <2>2 DEF TypeOK, Decide
    <3>2. promised'[u] = IF Granted(u) THEN NoPromise ELSE now + RetryAfter(u)
      BY <1>1, <1>6, <2>2 DEF TypeOK, Decide
    <3>3. ideal'[u] \in Int /\ ideal'[u] >= (IF Granted(u) THEN ideal[u] - Unit ELSE ideal[u])
      BY <1>1, <3>1 DEF TypeOK
    <3> QED
      BY <1>1, <1>2, <2>1, <2>2, <3>2, <3>3, ScriptStep
  <2>3. CASE user[t] # u
    <3>1. bucket'[u] = bucket[u]
      BY <1>1, <2>1, <2>3, ScriptEffect
    <3>2. ideal'[u] = ideal[u] /\ promised'[u] = promised[u]
      BY <1>1, <1>6, <2>3 DEF TypeOK, Decide
    <3> QED
      BY <1>2, <2>1, <3>1, <3>2, Undisturbed
  <2> QED
    BY <2>2, <2>3
<1>7. ASSUME NEW t \in Threads, EvalRaises(t)
      PROVE  Touched(u)' /\ Dominated(u)' /\ Covered(u)'
  <2>1. now' = now /\ ideal' = ideal
    BY <1>7 DEF EvalRaises
  <2>2. CASE ~redisUp
    BY <1>3, <1>7, <2>1, <2>2 DEF EvalRaises
  <2>3. CASE redisUp
    <3>1. /\ user[t] \in Users
          /\ Script(user[t])
          /\ promised' = [promised EXCEPT ![user[t]] = NoPromise]
      BY <1>1, <1>7, <2>3 DEF TypeOK, EvalRaises
    <3>2. CASE user[t] = u
      <4>1. promised'[u] = NoPromise
        BY <1>1, <3>1, <3>2 DEF TypeOK
      <4>2. ideal'[u] \in Int
        BY <1>1 DEF TypeOK
      <4>3. ideal'[u] >= (IF Granted(u) THEN ideal[u] - Unit ELSE ideal[u])
        BY <1>1, <2>1, FullType DEF TypeOK
      <4> QED
        BY <1>1, <1>2, <2>1, <3>1, <3>2, <4>1, <4>2, <4>3, ScriptStep
    <3>3. CASE user[t] # u
      <4>1. bucket'[u] = bucket[u]
        BY <1>1, <3>1, <3>3, ScriptEffect
      <4>2. promised'[u] = promised[u]
        BY <1>1, <3>1, <3>3 DEF TypeOK
      <4> QED
        BY <1>2, <2>1, <4>1, <4>2, Undisturbed
    <3> QED
      BY <3>2, <3>3
  <2> QED
    BY <2>2, <2>3
<1>8. ASSUME NEW v \in Users, Expire(v)
      PROVE  Touched(u)' /\ Dominated(u)' /\ Covered(u)'
  <2>1. now' = now /\ ideal' = ideal /\ promised' = promised
    BY <1>8 DEF Expire
  <2>2. CASE v = u
    <3>1. bucket'[u] = NoBucket /\ Missing(u)
      BY <1>1, <1>8, <2>2 DEF TypeOK, Expire
    <3>2. Level(u)' = Level(u)
      BY <3>1 DEF Level, Missing
    <3> QED
      BY <1>2, <2>1, <3>1, <3>2 DEF Touched, Dominated, Covered
  <2>3. CASE v # u
    <3>1. bucket'[u] = bucket[u]
      BY <1>1, <1>8, <2>3 DEF TypeOK, Expire
    <3> QED
      BY <1>2, <2>1, <3>1, Undisturbed
  <2> QED
    BY <2>2, <2>3
<1>9. ASSUME UNCHANGED bucket, UNCHANGED promised
      PROVE  Touched(u)' /\ Covered(u)'
  BY <1>2, <1>9 DEF Touched, Covered
<1>10. CASE Tick
  <2>1. /\ now' = now + 1 /\ bucket' = bucket /\ promised' = promised
        /\ ideal' = [x \in Users |-> AtMost(Full, ideal[x] + Refill)]
    BY <1>10 DEF Tick
  <2>2. ideal'[u] = AtMost(Full, ideal[u] + Refill)
    BY <2>1
  <2>3. Refill > 0 => Dominated(u)'
    BY <1>1, <1>2, <2>1, <2>2, TickStep
  <2> QED
    BY <1>9, <2>1, <2>3 DEF Dominated
<1>11. CASE SetBack
  <2>1. now' = now - 1 /\ bucket' = bucket /\ promised' = promised /\ ideal' = ideal
    BY <1>11 DEF SetBack
  <2>2. Refill > 0 => Dominated(u)'
    BY <1>1, <1>2, <2>1, SetBackStep
  <2> QED
    BY <1>9, <2>1, <2>2 DEF Dominated
<1>12. CASE Fail \/ Recover \/ ResetCache
  BY <1>3, <1>12 DEF Fail, Recover, ResetCache
<1>13. CASE UNCHANGED vars
  BY <1>3, <1>13 DEF vars
<1> QED
  BY <1>4, <1>5, <1>6, <1>7, <1>8, <1>10, <1>11, <1>12, <1>13 DEF Next, Call

LEMMA InvariantHolds == Spec => []IInv
<1>1. ASSUME Init
      PROVE  IInv
  <2>1. TypeOK
    BY <1>1, InitTypes
  <2>2. ASSUME NEW u \in Users
        PROVE  Touched(u) /\ Dominated(u) /\ Covered(u)
    <3>1. bucket[u] = NoBucket /\ ideal[u] = Full /\ promised[u] = NoPromise
      BY <1>1 DEF Init
    <3>2. Level(u) = Full
      BY <3>1 DEF Level, Missing
    <3> QED
      BY <3>1, <3>2, FullType DEF Touched, Dominated, Covered
  <2> QED
    BY <2>1, <2>2 DEF IInv
<1>2. IInv /\ [Next]_vars => IInv'
  BY InvariantStep
<1> QED
  BY <1>1, <1>2, PTL DEF Spec

\* What Redis admits for a user never exceeds a burst of capacity plus the refill
\* of the seconds that passed: neither expiry, nor a clock that is set back, nor
\* threads and outages in any number let a user through sooner.
THEOREM NoBurstBeyondCapacity == Spec => []BurstBound
<1>1. IInv => BurstBound
  <2> SUFFICES ASSUME IInv, Refill > 0, NEW u \in Users
               PROVE  ideal[u] >= 0
    BY DEF BurstBound
  <2>1. TypeOK /\ Level(u) <= ideal[u]
    BY DEF IInv, Dominated
  <2> QED
    BY <2>1, LevelType, FullType DEF TypeOK
<1> QED
  BY <1>1, InvariantHolds, PTL

\* A rejected user who comes back no sooner than told, and whose bucket nobody
\* else used, finds a token, for every rate, a rate of zero included.
THEOREM RetryAfterIsHonest == Spec => []RetryAfterHonest
<1>1. IInv => RetryAfterHonest
  <2> SUFFICES ASSUME IInv, NEW u \in Users,
                      promised[u] # NoPromise, now >= promised[u]
               PROVE  Level(u) >= Unit
    BY DEF RetryAfterHonest
  <2>1. TypeOK /\ Covered(u) /\ Touched(u)
    BY DEF IInv
  <2>2. CASE Missing(u)
    BY <2>2, FullType DEF Level
  <2>3. CASE ~Missing(u)
    <3> DEFINE b == bucket[u]
               p == promised[u]
    <3>1. b \in Bucket /\ b # NoBucket /\ now < b.expires
      BY <2>1, <2>3 DEF TypeOK, Missing, Bucket
    <3>2. b.tokens \in 0..Full /\ b.ts \in Int /\ b.expires \in Int /\ now \in Int
      BY <2>1, <3>1 DEF Bucket, TypeOK
    <3>3. p \in Int
      <4>1. promised \in [Users -> Int \cup {NoPromise}]
        BY <2>1 DEF TypeOK
      <4> QED
        BY <4>1
    <3>4. Refill > 0 /\ p >= b.ts /\ b.tokens + (p - b.ts) * Refill >= Unit
      <4>1. p # NoPromise /\ now >= p
        OBVIOUS
      <4>2. CASE Refill > 0
        BY <2>1, <3>1, <4>1, <4>2 DEF Covered
      <4>3. CASE Refill = 0
        <5>1. p >= b.expires
          BY <2>1, <3>1, <4>1, <4>3 DEF Covered
        <5> QED
          BY <3>1, <3>2, <3>3, <4>1, <5>1
      <4> QED
        BY <4>2, <4>3
    <3>5. Level(u) = AtMost(Full, b.tokens + AtLeast(0, now - b.ts) * Refill)
      BY <2>3 DEF Level
    <3> HIDE DEF b, p
    <3>6. AtLeast(0, now - b.ts) = now - b.ts /\ now - b.ts >= p - b.ts /\ p - b.ts \in Nat
      BY <3>2, <3>3, <3>4 DEF AtLeast, p
    <3>7. (now - b.ts) * Refill >= (p - b.ts) * Refill
      BY <3>2, <3>3, <3>6
    <3>8. (now - b.ts) * Refill \in Int /\ (p - b.ts) * Refill \in Int
      BY <3>2, <3>3
    <3> QED
      BY <3>2, <3>4, <3>5, <3>6, <3>7, <3>8, FullType DEF AtMost
  <2> QED
    BY <2>2, <2>3
<1> QED
  BY <1>1, InvariantHolds, PTL

-----------------------------------------------------------------------------
\* Before the first fault Redis answers, no failed connection is cached and
\* nobody was let through without being asked about.
Healthy == faults = 0 => redisUp = TRUE /\ client # "none" /\ unmetered = FALSE

LEMMA HealthyStep ==
  ASSUME TypeOK, Healthy, [Next]_vars
  PROVE  Healthy'
<1> SUFFICES ASSUME faults' = 0
             PROVE  redisUp' = TRUE /\ client' # "none" /\ unmetered' = FALSE
  BY DEF Healthy
<1> USE DEF clientVars, historyVars
<1>0. faults \in Nat
  BY DEF TypeOK
<1>13. faults' = faults \/ faults' = faults + 1
  <2>1. ASSUME NEW t \in Threads, Call(t)
        PROVE  faults' = faults \/ faults' = faults + 1
    BY <2>1, Zenon DEF Call, Allow, Build, Decide, EvalRaises
  <2>2. CASE UNCHANGED vars
    BY <2>2 DEF vars
  <2> QED
    BY <2>1, <2>2, Zenon DEF Next, Expire, Tick, SetBack, Fail, Recover, ResetCache
<1>1. faults = 0
  BY <1>0, <1>13
<1>2. redisUp = TRUE /\ client # "none" /\ unmetered = FALSE
  BY <1>1 DEF Healthy
<1>3. ASSUME NEW t \in Threads, NEW u \in Users, Allow(t, u)
      PROVE  redisUp' = TRUE /\ client' # "none" /\ unmetered' = FALSE
  BY <1>2, <1>3, Zenon DEF Allow
<1>4. ASSUME NEW t \in Threads, Build(t)
      PROVE  redisUp' = TRUE /\ client' # "none" /\ unmetered' = FALSE
  <2>1. client' = "built" /\ UNCHANGED <<redisUp, unmetered>>
    BY <1>2, <1>4, Zenon DEF Build
  <2> QED
    BY <1>2, <2>1
<1>5. ASSUME NEW t \in Threads, Decide(t)
      PROVE  redisUp' = TRUE /\ client' # "none" /\ unmetered' = FALSE
  BY <1>2, <1>5, Zenon DEF Decide
<1>6. ASSUME NEW t \in Threads, EvalRaises(t)
      PROVE  FALSE
  <2>1. faults' = faults + 1
    BY <1>2, <1>6, Zenon DEF EvalRaises
  <2> QED
    BY <1>0, <1>1, <2>1
<1>7. ASSUME NEW u \in Users, Expire(u)
      PROVE  redisUp' = TRUE /\ client' # "none" /\ unmetered' = FALSE
  BY <1>2, <1>7, Zenon DEF Expire
<1>8. CASE Tick \/ SetBack \/ UNCHANGED vars
  BY <1>2, <1>8, Zenon DEF Tick, SetBack, vars
<1>9. CASE Fail
  <2>1. faults' = faults + 1
    BY <1>9, Zenon DEF Fail
  <2> QED
    BY <1>0, <1>1, <2>1
<1>10. CASE Recover
  BY <1>2, <1>10, Zenon DEF Recover
<1>11. CASE ResetCache
  <2>1. client' = "unset" /\ UNCHANGED <<redisUp, unmetered>>
    BY <1>11, Zenon DEF ResetCache
  <2> QED
    BY <1>2, <2>1
<1> QED
  BY <1>3, <1>4, <1>5, <1>6, <1>7, <1>8, <1>9, <1>10, <1>11, Zenon DEF Next, Call

\* Failing open is for failures: threads that build the client together, or find
\* it half-built, let nobody through unasked (get_sync_redis, allow).
THEOREM FailsOpenOnlyOnFaults == Spec => []MeteredUnlessFault
<1>1. Init => Healthy
  BY Zenon DEF Init, Healthy
<1>2. TypeOK /\ Healthy /\ [Next]_vars => Healthy'
  BY HealthyStep
<1>3. TypeOK /\ Healthy => MeteredUnlessFault
  BY DEF TypeOK, Healthy, MeteredUnlessFault
<1> QED
  BY <1>1, <1>2, <1>3, LimiterTypes, PTL DEF Spec
=============================================================================
