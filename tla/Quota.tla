------------------------------- MODULE Quota -------------------------------
(***************************************************************************)
(* The search quota of one caller (one user, or one anonymous IP address): *)
(* services/quota_service.py, check_and_consume.                           *)
(*                                                                         *)
(* Concurrent requests, served by any worker process, share one Redis      *)
(* counter per window ("bucket").  Every Redis command is a step of its    *)
(* own, so requests interleave between INCR, EXPIRE, TTL and DECR; a       *)
(* request may stop between any two of them (a Redis error is not caught   *)
(* and becomes a 500, and a process may die).  Time runs in ticks, several *)
(* to a second, because the code truncates the time to live to whole       *)
(* seconds.  Redis is external: its commands are modelled from their use.  *)
(***************************************************************************)
EXTENDS Integers, FiniteSets

CONSTANTS
    Req,            \* the requests of this caller
    MinLimit,       \* the smallest and the largest limit that a plan lookup
    MaxLimit,       \*   may return for this caller (equal: the plan is fixed)
    WindowLength,   \* ticks in a window (a day or a month)
    Second,         \* ticks in a second
    LastBucket      \* BOUND: the last window the clock reaches

ASSUME QuotaAssumption ==
    /\ IsFiniteSet(Req)
    /\ MinLimit \in Nat /\ MaxLimit \in Nat /\ MinLimit <= MaxLimit
    /\ Second \in Nat \ {0}
    /\ WindowLength \in Nat /\ Second < WindowLength
    /\ LastBucket \in Nat

VARIABLES
    bucket,     \* the window the clock is in
    left,       \* ticks until its end
    count,      \* count[b]: the Redis value, 0 when the key does not exist
    ttl,        \* ttl[b]: what Redis' TTL answers, in ticks (or Absent, NoExpiry)
    pc,         \* pc[r]: where request r is in check_and_consume
    at,         \* at[r]: the window whose key r uses
    lim,        \* lim[r]: the limit r read from the plan
    life,       \* life[r]: the time to live r computed with its window
    used        \* used[r]: what INCR returned to r

requestVars == <<pc, at, lim, life, used>>
vars == <<bucket, left, count, ttl, requestVars>>

Bucket == 0 .. LastBucket
Absent == -2
NoExpiry == -1

Limits == MinLimit .. MaxLimit

(* int(seconds to the end of the window), at least one second.  Here and   *)
(* below, a definition X_Fault is a faulty X that a property must exclude. *)
Ttl_NoMinimum(n) == n - (n % Second)
Ttl_SecondShort(n) == IF n < 2 * Second THEN Second - 1 ELSE n - (n % Second) - Second
Ttl(n) == IF n < Second THEN Second ELSE n - (n % Second)

Init ==
    /\ bucket = 0
    /\ left = WindowLength
    /\ count = [b \in Bucket |-> 0]
    /\ ttl = [b \in Bucket |-> Absent]
    /\ pc = [r \in Req |-> "idle"]
    /\ at = [r \in Req |-> 0]
    /\ lim = [r \in Req |-> MinLimit]
    /\ life = [r \in Req |-> Second]
    /\ used = [r \in Req |-> 0]

(* The plan is looked up, then the window and its time to live: the key is *)
(* fixed here, however late INCR reaches it.  The plan may have changed    *)
(* between two requests, so any limit may be read.                         *)
Begin(r) ==
    /\ pc[r] = "idle"
    /\ \E l \in Limits : lim' = [lim EXCEPT ![r] = l]
    /\ at' = [at EXCEPT ![r] = bucket]
    /\ life' = [life EXCEPT ![r] = Ttl(left)]
    /\ pc' = [pc EXCEPT ![r] = "incr"]
    /\ UNCHANGED <<bucket, left, count, ttl, used>>

(* used = await redis.incr(key); the first unit of a key must arm it. *)
Incr(r) ==
    /\ pc[r] = "incr"
    /\ used' = [used EXCEPT ![r] = count[at[r]] + 1]
    /\ count' = [count EXCEPT ![at[r]] = @ + 1]
    /\ ttl' = [ttl EXCEPT ![at[r]] = IF @ = Absent THEN NoExpiry ELSE @]
    /\ pc' = [pc EXCEPT ![r] = IF used'[r] = 1 THEN "expire" ELSE "check"]
    /\ UNCHANGED <<bucket, left, at, lim, life>>

(* await redis.expire(key, ttl): nothing happens to a key that is gone. *)
Expire_NeverCalled(r) ==
    /\ pc[r] = "expire"
    /\ pc' = [pc EXCEPT ![r] = "check"]
    /\ UNCHANGED <<bucket, left, count, ttl, at, lim, life, used>>
Expire(r) ==
    /\ pc[r] = "expire"
    /\ ttl' = [ttl EXCEPT ![at[r]] = IF @ = Absent THEN Absent ELSE life[r]]
    /\ pc' = [pc EXCEPT ![r] = "check"]
    /\ UNCHANGED <<bucket, left, count, at, lim, life, used>>

(* resets_in = await redis.ttl(key), then the comparison with the limit. *)
WithinQuota_OneMore(r) == used[r] <= lim[r] + 1
WithinQuota_OneLess(r) == used[r] < lim[r]
WithinQuota(r) == used[r] <= lim[r]
Check(r) ==
    /\ pc[r] = "check"
    /\ pc' = [pc EXCEPT ![r] = IF WithinQuota(r) THEN "granted" ELSE "decr"]
    /\ UNCHANGED <<bucket, left, count, ttl, at, lim, life, used>>

(* An excess hit gives its unit back; DECR creates a key that is gone. *)
Decr_Forgotten(r) ==
    /\ pc[r] = "decr"
    /\ pc' = [pc EXCEPT ![r] = "denied"]
    /\ UNCHANGED <<bucket, left, count, ttl, at, lim, life, used>>
Decr(r) ==
    /\ pc[r] = "decr"
    /\ count' = [count EXCEPT ![at[r]] = @ - 1]
    /\ ttl' = [ttl EXCEPT ![at[r]] = IF @ = Absent THEN NoExpiry ELSE @]
    /\ pc' = [pc EXCEPT ![r] = "denied"]
    /\ UNCHANGED <<bucket, left, at, lim, life, used>>

(* A Redis error or a dead process ends the request: "error" before its    *)
(* INCR, "lost" after it, when the unit stays counted.  A command that was *)
(* executed and whose answer was lost is that command followed by Fail.    *)
Fail(r) ==
    /\ pc[r] \in {"incr", "expire", "check", "decr"}
    /\ pc' = [pc EXCEPT ![r] = IF pc[r] = "incr" THEN "error" ELSE "lost"]
    /\ UNCHANGED <<bucket, left, count, ttl, at, lim, life, used>>

(* One tick of the wall clock; Redis drops the keys whose time is up. *)
Tick ==
    /\ \/ left > 1 /\ left' = left - 1 /\ bucket' = bucket
       \/ left = 1 /\ bucket < LastBucket /\ left' = WindowLength /\ bucket' = bucket + 1
    /\ ttl' = [b \in Bucket |-> IF ttl[b] = 1 THEN Absent
                                ELSE IF ttl[b] > 1 THEN ttl[b] - 1 ELSE ttl[b]]
    /\ count' = [b \in Bucket |-> IF ttl[b] = 1 THEN 0 ELSE count[b]]
    /\ UNCHANGED requestVars

Next ==
    \/ \E r \in Req :
         Begin(r) \/ Incr(r) \/ Expire(r) \/ Check(r) \/ Decr(r) \/ Fail(r)
    \/ Tick

Spec == Init /\ [][Next]_vars

----------------------------------------------------------------------------
(* The last second of a window, and whatever comes after it: a truncated   *)
(* time to live may already have dropped the window's counter.             *)
Closing(b) == b < bucket \/ (b = bucket /\ left < Second)

(* The requests whose unit is in the counter, and those among them that    *)
(* the limit they read lets through.                                       *)
Charged(b) == {r \in Req : at[r] = b /\ pc[r] \in {"expire", "check", "decr", "granted", "lost"}}
Accepted(b) == {r \in Charged(b) : pc[r] = "granted" \/ used[r] <= lim[r]}

TypeOK ==
    /\ bucket \in Bucket
    /\ left \in 1 .. WindowLength
    /\ count \in [Bucket -> Int]
    /\ ttl \in [Bucket -> {Absent, NoExpiry} \cup (Nat \ {0})]
    /\ pc \in [Req -> {"idle", "incr", "expire", "check", "decr",
                       "granted", "denied", "error", "lost"}]
    /\ at \in [Req -> Bucket]
    /\ lim \in [Req -> Limits]
    /\ life \in [Req -> Nat \ {0}]
    /\ used \in [Req -> Int]

(* The counter is never reset nor charged twice inside a window: it equals *)
(* the number of requests holding a unit, those about to give it back and  *)
(* those that died with one included (INCR and DECR of check_and_consume   *)
(* balance on every path, and the time to live never ends too early).      *)
CounterIsCharge ==
    \A b \in Bucket : ~Closing(b) => count[b] = Cardinality(Charged(b))

(* However the requests interleave, no more of them are let through than   *)
(* the largest limit: "Atomically consume one search unit".                *)
GrantsWithinLimit ==
    \A b \in Bucket : ~Closing(b) => Cardinality(Accepted(b)) <= MaxLimit

(* A 429 is deserved: units of excess hits that are about to be given back *)
(* never make a request fail while a full smallest quota is not consumed.  *)
DenialDeserved ==
    \A r \in Req :
        pc[r] = "denied" /\ ~Closing(at[r]) => Cardinality(Accepted(at[r])) >= MinLimit

(* A counter is without expiry only while the request that created it is   *)
(* about to arm it, or after that request died before it could.            *)
UnarmedKeyHasCulprit ==
    \A b \in Bucket : ~Closing(b) /\ ttl[b] = NoExpiry =>
        \E r \in Req : at[r] = b /\ used[r] = 1 /\ pc[r] \in {"expire", "lost"}

(* The module's docstring: the counter's "TTL ... expires at the end of    *)
(* the window", so that the limit holds for the whole window.              *)
LimitHoldsForWholeWindow ==
    \A b \in Bucket : Cardinality({r \in Req : at[r] = b /\ pc[r] = "granted"}) <= MaxLimit

(* The counter implements the budget. *)
Budget == INSTANCE QuotaBudget WITH
    taken <- [b \in Bucket |-> Accepted(b)],
    answer <- [r \in Req |-> IF pc[r] \in {"granted", "denied"} THEN pc[r] ELSE "none"],
    closing <- {b \in Bucket : Closing(b)}
ImplementsBudget == Budget!Spec
=============================================================================
