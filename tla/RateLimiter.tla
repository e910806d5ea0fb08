----------------------------- MODULE RateLimiter -----------------------------
(***************************************************************************)
(* TokenBucketLimiter (app/infra/rate_limit.py) on the client that         *)
(* get_sync_redis (app/infra/redis_client.py) builds at first use.         *)
(* Threads of one process call allow; the bucket is refilled and consumed  *)
(* by one Lua script, atomic in Redis, on the clock of the Redis server.   *)
(* A token is Unit units, so that a refill rate may be a fraction.         *)
(***************************************************************************)
EXTENDS Integers

CONSTANTS
  Users,     \* user ids, or peers of a socket
  Threads,   \* threads of the process that call allow
  Capacity,  \* config.rate_limit_capacity
  Refill,    \* config.rate_limit_refill_per_sec, in units per second
  Unit,      \* units of one token
  MinTtl,    \* the 60 of _compute_ttl
  NoRefillTtl, \* its 3600
  NoBucket, NoPromise, NoUser,
  MaxTime,   \* bound on the seconds that pass
  MaxSetBack, \* bound on the times the server's clock is set back
  MaxFaults  \* bound on the failures of Redis

ASSUME LimiterAssumption ==
  /\ Capacity \in Nat \ {0}      \* max(1, int(capacity))
  /\ Refill \in Nat              \* max(0.0, float(refill_per_sec))
  /\ Unit \in Nat \ {0}
  /\ MinTtl \in Nat \ {0} /\ NoRefillTtl \in Nat \ {0}
  /\ MaxTime \in Nat /\ MaxSetBack \in Nat /\ MaxFaults \in Nat
  /\ NoBucket \notin [tokens : Nat, ts : Int, expires : Int]
  /\ NoUser \notin Users

VARIABLES
  now,       \* TIME of the Redis server
  bucket,    \* the hash at vp:rl:<user>, with the time its key expires
  client,    \* _clients[True]: "unset", "none" or "built"
  redisUp,   \* does Redis answer
  pc, user,  \* where each thread is in allow, and for whom
  ideal,     \* history: the level of a bucket that never expires, is refilled
             \*   by time only and pays for every metered admission
  promised,  \* history: when the last rejection said to come back
  unmetered, \* history: has a call been allowed without asking Redis
  elapsed, setBacks, faults

clientVars == <<client, pc, user>>
historyVars == <<ideal, promised, unmetered>>
vars == <<now, bucket, client, redisUp, pc, user, ideal, promised, unmetered,
          elapsed, setBacks, faults>>

Full == Capacity * Unit

Bucket == [tokens : 0..Full, ts : Int, expires : Int]

AtMost(a, b) == IF a < b THEN a ELSE b
AtLeast(a, b) == IF a > b THEN a ELSE b

TypeOK ==
  /\ now \in Int
  /\ bucket \in [Users -> Bucket \cup {NoBucket}]
  /\ client \in {"unset", "none", "built"}
  /\ redisUp \in BOOLEAN
  /\ pc \in [Threads -> {"idle", "build", "eval"}]
  /\ user \in [Threads -> Users \cup {NoUser}]
  /\ \A t \in Threads : pc[t] # "idle" => user[t] \in Users
  /\ ideal \in [Users -> Int]
  /\ promised \in [Users -> Int \cup {NoPromise}]
  /\ unmetered \in BOOLEAN
  /\ elapsed \in 0..MaxTime /\ setBacks \in 0..MaxSetBack /\ faults \in 0..MaxFaults

Init ==
  /\ now = 0
  /\ bucket = [u \in Users |-> NoBucket]
  /\ client = "unset"
  /\ redisUp = TRUE
  /\ pc = [t \in Threads |-> "idle"]
  /\ user = [t \in Threads |-> NoUser]
  /\ ideal = [u \in Users |-> Full]
  /\ promised = [u \in Users |-> NoPromise]
  /\ unmetered = FALSE
  /\ elapsed = 0 /\ setBacks = 0 /\ faults = 0

-----------------------------------------------------------------------------
(***************************************************************************)
(* get_sync_redis: what is cached is taken, "none" included; otherwise the *)
(* client is built and pinged, and the outcome stored, with no lock.       *)
(***************************************************************************)
\* The call returns (True, 0.0) without a decision of Redis.
FailOpen(t) ==
  /\ pc' = [pc EXCEPT ![t] = "idle"]
  /\ user' = [user EXCEPT ![t] = NoUser]
  /\ unmetered' = TRUE

\* Mutant: the key is stored before the client is known to work.
AllowClaimsKey(t, u) ==
  /\ pc[t] = "idle"
  /\ \/ /\ client = "none"
        /\ FailOpen(t)
        /\ UNCHANGED client
     \/ /\ client # "none"
        /\ pc' = [pc EXCEPT ![t] = IF client = "built" THEN "eval" ELSE "build"]
        /\ user' = [user EXCEPT ![t] = u]
        /\ client' = IF client = "unset" THEN "none" ELSE client
        /\ UNCHANGED unmetered
  /\ UNCHANGED <<now, bucket, redisUp, ideal, promised, elapsed, setBacks, faults>>

Allow(t, u) ==
  /\ pc[t] = "idle"
  /\ \/ /\ client = "none"
        /\ FailOpen(t)
        /\ UNCHANGED client
     \/ /\ client # "none"
        /\ pc' = [pc EXCEPT ![t] = IF client = "built" THEN "eval" ELSE "build"]
        /\ user' = [user EXCEPT ![t] = u]
        /\ UNCHANGED <<client, unmetered>>
  /\ UNCHANGED <<now, bucket, redisUp, ideal, promised, elapsed, setBacks, faults>>

Build(t) ==
  /\ pc[t] = "build"
  /\ \/ /\ redisUp
        /\ client' = "built"
        /\ pc' = [pc EXCEPT ![t] = "eval"]
        /\ UNCHANGED <<user, unmetered>>
     \/ /\ ~redisUp
        /\ client' = "none"
        /\ FailOpen(t)
  /\ UNCHANGED <<now, bucket, redisUp, ideal, promised, elapsed, setBacks, faults>>

-----------------------------------------------------------------------------
(***************************************************************************)
(* The Lua script.                                                         *)
(***************************************************************************)
\* Mutant: the lifetime of a key does not depend on the refill rate.
TtlFixed == MinTtl

\* _compute_ttl
Ttl == IF Refill > 0 THEN AtLeast(MinTtl, (Full * 2) \div Refill + 1)
       ELSE NoRefillTtl

Missing(u) == bucket[u] = NoBucket \/ now >= bucket[u].expires

\* Tokens after the refill, capped at capacity; a missing bucket starts full.
Level(u) ==
  IF Missing(u) THEN Full
  ELSE AtMost(Full, bucket[u].tokens + AtLeast(0, now - bucket[u].ts) * Refill)

\* Mutant: elapsed is not divided by the rate.
RetryAfterUnscaled(u) == IF Refill > 0 THEN (Unit - Level(u)) \div Unit ELSE Ttl

\* Whole seconds after which retry_after has passed.
RetryAfter(u) == IF Refill > 0 THEN (Unit - Level(u) + Refill - 1) \div Refill
                 ELSE Ttl

Granted(u) == Level(u) >= Unit

Script(u) ==
  LET left == IF Granted(u) THEN Level(u) - Unit ELSE Level(u)
  IN  bucket' = [bucket EXCEPT ![u] = [tokens |-> left, ts |-> now,
                                       expires |-> now + Ttl]]

\* eval answers: admitted, or rejected with the time to wait.
Decide(t) ==
  /\ pc[t] = "eval" /\ redisUp
  /\ Script(user[t])
  /\ ideal' = IF Granted(user[t]) THEN [ideal EXCEPT ![user[t]] = @ - Unit] ELSE ideal
  /\ promised' = [promised EXCEPT ![user[t]] =
                    IF Granted(user[t]) THEN NoPromise ELSE now + RetryAfter(user[t])]
  /\ pc' = [pc EXCEPT ![t] = "idle"]
  /\ user' = [user EXCEPT ![t] = NoUser]
  /\ UNCHANGED <<now, client, redisUp, unmetered, elapsed, setBacks, faults>>

\* eval raises: Redis is down, or its answer is lost after the script has run.
EvalRaises(t) ==
  /\ pc[t] = "eval"
  /\ \/ /\ ~redisUp
        /\ UNCHANGED <<bucket, promised, faults>>
     \/ /\ redisUp
        /\ faults < MaxFaults /\ faults' = faults + 1
        /\ Script(user[t])
        /\ promised' = [promised EXCEPT ![user[t]] = NoPromise]
  /\ FailOpen(t)
  /\ UNCHANGED <<now, client, redisUp, ideal, elapsed, setBacks>>

-----------------------------------------------------------------------------
(***************************************************************************)
(* The server's clock, expiry, outages, and reset_redis_cache.             *)
(***************************************************************************)
\* A second passes: every ideal bucket is refilled.
Tick ==
  /\ elapsed < MaxTime /\ elapsed' = elapsed + 1
  /\ now' = now + 1
  /\ ideal' = [u \in Users |-> AtMost(Full, ideal[u] + Refill)]
  /\ UNCHANGED <<bucket, clientVars, redisUp, promised, unmetered, setBacks, faults>>

\* The clock is set back by a second.
SetBack ==
  /\ setBacks < MaxSetBack /\ setBacks' = setBacks + 1
  /\ now' = now - 1
  /\ UNCHANGED <<bucket, clientVars, redisUp, historyVars, elapsed, faults>>

Expire(u) ==
  /\ bucket[u] # NoBucket /\ Missing(u)
  /\ bucket' = [bucket EXCEPT ![u] = NoBucket]
  /\ UNCHANGED <<now, clientVars, redisUp, historyVars, elapsed, setBacks, faults>>

Fail ==
  /\ redisUp
  /\ faults < MaxFaults /\ faults' = faults + 1
  /\ redisUp' = FALSE
  /\ UNCHANGED <<now, bucket, clientVars, historyVars, elapsed, setBacks>>

Recover ==
  /\ ~redisUp
  /\ redisUp' = TRUE
  /\ UNCHANGED <<now, bucket, clientVars, historyVars, elapsed, setBacks, faults>>

ResetCache ==
  /\ client # "unset"
  /\ client' = "unset"
  /\ UNCHANGED <<now, bucket, redisUp, pc, user, historyVars, elapsed, setBacks, faults>>

Call(t) ==
  \/ \E u \in Users : Allow(t, u)
  \/ Build(t) \/ Decide(t) \/ EvalRaises(t)

Next ==
  \/ \E t \in Threads : Call(t)
  \/ \E u \in Users : Expire(u)
  \/ Tick \/ SetBack \/ Fail \/ Recover \/ ResetCache

Spec == Init /\ [][Next]_vars

-----------------------------------------------------------------------------
(***************************************************************************)
(* Properties.                                                             *)
(***************************************************************************)
\* "an active burst never loses its bucket mid-window" (infra/rate_limit.py:127):
\* whatever expires, and however the clock is set back, what Redis admits for a
\* user stays within a burst of capacity plus what the seconds that passed have
\* refilled. (Without a refill rate an expired key starts a new burst.)
BurstBound == Refill > 0 => \A u \in Users : ideal[u] >= 0

\* retry_after is the truth: a rejected user who stays away until then, and whose
\* bucket nobody else touches, finds a token.
RetryAfterHonest ==
  \A u \in Users :
    promised[u] # NoPromise /\ now >= promised[u] => Level(u) >= Unit

\* "fails OPEN" (infra/rate_limit.py:142) is for failures: as long as Redis has
\* not failed, every admission was metered, first calls in parallel included.
MeteredUnlessFault == unmetered => faults > 0
=============================================================================
