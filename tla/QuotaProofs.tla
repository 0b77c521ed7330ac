---------------------------- MODULE QuotaProofs ----------------------------
(***************************************************************************)
(* The search quota, for any number of requests, any limits, any length of *)
(* window and of second: the counter balances, no window grants more than  *)
(* the largest limit, no request is denied undeservedly, and the counter   *)
(* implements the budget of module QuotaBudget.                            *)
(*                                                                         *)
(* The inductive invariant adds to the checked properties what Redis must  *)
(* never forget: before the last second of the window, an armed key has    *)
(* more time left than the window minus a second, and so has every request *)
(* that may still arm one.                                                 *)
(***************************************************************************)
EXTENDS Quota, FiniteSetTheorems, TLAPS

(* No key of a later window exists and no request uses one. *)
FutureUntouched ==
    /\ \A b \in Bucket : b > bucket => ttl[b] = Absent
    /\ \A r \in Req : at[r] <= bucket

(* The key of the current window outlives all but the last second. *)
KeyOutlivesWindow ==
    left >= Second =>
        /\ ttl[bucket] > 0 => ttl[bucket] > left - Second
        /\ \A r \in Req : at[r] = bucket /\ pc[r] \in {"incr", "expire"}
                            => life[r] > left - Second

(* A request's place agrees with the comparison it made. *)
VerdictAgrees ==
    \A r \in Req : /\ pc[r] = "granted" => used[r] <= lim[r]
                   /\ pc[r] = "decr" => used[r] > lim[r]

Excess(b) == {r \in Charged(b) : used[r] > lim[r]}

(* An excess hit, whether or not its unit was given back, means that a     *)
(* full smallest quota has been accepted.                                  *)
ExcessDeserved ==
    \A r \in Req :
        (pc[r] = "denied" \/ r \in Excess(at[r])) /\ ~Closing(at[r])
            => Cardinality(Accepted(at[r])) >= MinLimit

QuotaInv ==
    /\ TypeOK
    /\ CounterIsCharge
    /\ GrantsWithinLimit
    /\ FutureUntouched
    /\ KeyOutlivesWindow
    /\ VerdictAgrees
    /\ ExcessDeserved

----------------------------------------------------------------------------
(* The time to live that a request computes is positive and falls short of *)
(* the window's end by less than a second (_bucket_and_ttl).               *)
LEMMA TtlBounds ==
    ASSUME NEW n \in Nat
    PROVE  Ttl(n) \in Nat \ {0} /\ Ttl(n) > n - Second
<1>1. Second \in Nat \ {0}
  BY QuotaAssumption
<1>2. n % Second \in 0 .. Second - 1
  BY <1>1
<1>3. n >= Second => n - (n % Second) > 0
  BY <1>1, <1>2
<1>4. QED
  BY <1>1, <1>2, <1>3 DEF Ttl

(* Type correctness of the quota's counter, keys and requests. *)
THEOREM QuotaType == Spec => []TypeOK
<1> USE QuotaAssumption DEF TypeOK, Bucket, Limits, Absent, NoExpiry
<1>1. Init => TypeOK
  BY DEF Init
<1>2. TypeOK /\ [Next]_vars => TypeOK'
  <2> SUFFICES ASSUME TypeOK, [Next]_vars PROVE TypeOK'
    OBVIOUS
  <2>1. ASSUME NEW r \in Req, Begin(r) PROVE TypeOK'
    <3>1. left \in Nat
      OBVIOUS
    <3>2. Ttl(left) \in Nat \ {0}
      BY <3>1, TtlBounds
    <3>3. QED
      BY <2>1, <3>2, ZenonT(60) DEF Begin
  <2>2. ASSUME NEW r \in Req, Incr(r) PROVE TypeOK'
    BY <2>2, SMTT(40) DEF Incr
  <2>3. ASSUME NEW r \in Req, Expire(r) PROVE TypeOK'
    BY <2>3 DEF Expire
  <2>4. ASSUME NEW r \in Req, Check(r) PROVE TypeOK'
    BY <2>4 DEF Check, WithinQuota
  <2>5. ASSUME NEW r \in Req, Decr(r) PROVE TypeOK'
    BY <2>5, SMTT(40) DEF Decr
  <2>6. ASSUME NEW r \in Req, Fail(r) PROVE TypeOK'
    BY <2>6 DEF Fail
  <2>7. CASE Tick
    BY <2>7, SMTT(40) DEF Tick, requestVars
  <2>8. CASE UNCHANGED vars
    BY <2>8 DEF vars, requestVars
  <2>9. QED
    BY <2>1, <2>2, <2>3, <2>4, <2>5, <2>6, <2>7, <2>8 DEF Next
<1>3. QED
  BY <1>1, <1>2, PTL DEF Spec

----------------------------------------------------------------------------
(* Every set of requests is finite, so their cardinalities are numbers. *)
LEMMA SetsFinite ==
    ASSUME NEW b
    PROVE  /\ IsFiniteSet(Charged(b)) /\ Cardinality(Charged(b)) \in Nat
           /\ IsFiniteSet(Accepted(b)) /\ Cardinality(Accepted(b)) \in Nat
           /\ Cardinality(Accepted(b)) <= Cardinality(Charged(b))
<1>1. Charged(b) \subseteq Req /\ Accepted(b) \subseteq Charged(b)
  BY DEF Charged, Accepted
<1>2. IsFiniteSet(Charged(b))
  BY <1>1, QuotaAssumption, FS_Subset
<1>3. IsFiniteSet(Accepted(b)) /\ Cardinality(Accepted(b)) <= Cardinality(Charged(b))
  BY <1>1, <1>2, FS_Subset
<1>4. QED
  BY <1>2, <1>3, FS_CardinalityType

(* When the sets, the counter, the clock and the verdicts already given do *)
(* not change, neither do the four facts stated about them.                *)
LEMMA SameCharge ==
    ASSUME QuotaInv,
           UNCHANGED <<bucket, left, count>>,
           \A b \in Bucket : Charged(b)' = Charged(b) /\ Accepted(b)' = Accepted(b),
           \A r \in Req : (pc[r] = "denied" \/ r \in Excess(at[r]))' /\ ~Closing(at[r])'
                           => /\ at[r]' = at[r] /\ at[r] \in Bucket
                              /\ pc[r] = "denied" \/ r \in Excess(at[r])
    PROVE  CounterIsCharge' /\ GrantsWithinLimit' /\ ExcessDeserved'
<1>1. \A b \in Bucket : Closing(b)' = Closing(b)
  BY DEF Closing
<1>2. CounterIsCharge' /\ GrantsWithinLimit'
  BY <1>1 DEF QuotaInv, CounterIsCharge, GrantsWithinLimit
<1>3. ASSUME NEW r \in Req, (pc[r] = "denied" \/ r \in Excess(at[r]))', ~Closing(at[r])'
      PROVE  Cardinality(Accepted(at[r]))' >= MinLimit
  <2>1. at[r]' = at[r] /\ at[r] \in Bucket /\ (pc[r] = "denied" \/ r \in Excess(at[r]))
    BY <1>3
  <2>2. ~Closing(at[r])
    BY <1>1, <1>3, <2>1 DEF Closing
  <2>3. Cardinality(Accepted(at[r])) >= MinLimit
    BY <2>1, <2>2 DEF QuotaInv, ExcessDeserved
  <2>4. Accepted(at[r])' = Accepted(at[r])
    BY <2>1 DEF Accepted, Charged
  <2>5. QED
    BY <2>3, <2>4
<1>4. QED
  BY <1>2, <1>3 DEF ExcessDeserved

(* INCR charges one unit; it is accepted only if the counter, which equals *)
(* the number of charged units, was below the limit.                       *)
LEMMA IncrInv ==
    ASSUME QuotaInv, NEW r \in Req, Incr(r), TypeOK'
    PROVE  CounterIsCharge' /\ GrantsWithinLimit' /\ ExcessDeserved'
<1> USE DEF QuotaInv
<1>0. PICK b \in Bucket : b = at[r]
  BY DEF TypeOK
<1>1. /\ pc[r] = "incr" /\ b = at[r] /\ r \notin Charged(b)
      /\ used'[r] = count[b] + 1 /\ count' = [count EXCEPT ![b] = @ + 1]
      /\ used' = [used EXCEPT ![r] = count[b] + 1]
      /\ pc'[r] \in {"expire", "check"} /\ \A q \in Req \ {r} : pc'[q] = pc[q]
      /\ UNCHANGED <<bucket, left, at, lim>>
  BY <1>0 DEF Incr, TypeOK, Charged
<1>2. \A c \in Bucket : Closing(c)' = Closing(c)
  BY <1>1 DEF Closing
<1>3. Charged(b)' = Charged(b) \cup {r}
  BY <1>1 DEF Charged, TypeOK
<1>4. \A c \in Bucket \ {b} : Charged(c)' = Charged(c) /\ Accepted(c)' = Accepted(c)
  BY <1>1 DEF Charged, Accepted, TypeOK
<1>5. Accepted(b)' = IF used'[r] <= lim[r] THEN Accepted(b) \cup {r} ELSE Accepted(b)
  BY <1>1, <1>3 DEF Accepted, Charged, TypeOK
<1>6. /\ Cardinality(Charged(b)') = Cardinality(Charged(b)) + 1
      /\ Cardinality(Charged(b)) \in Nat /\ Cardinality(Accepted(b)) \in Nat
      /\ Cardinality(Accepted(b)) <= Cardinality(Charged(b))
      /\ Cardinality(Accepted(b) \cup {r}) = Cardinality(Accepted(b)) + 1
  <2>1. r \notin Accepted(b)
    BY <1>1 DEF Accepted
  <2>2. QED
    BY <1>1, <1>3, <2>1, SetsFinite, FS_AddElement, ZenonT(60)
<1>7. CounterIsCharge'
  <2>1. ASSUME NEW c \in Bucket, ~Closing(c)'
        PROVE  count'[c] = Cardinality(Charged(c)')
    <3>1. count[c] = Cardinality(Charged(c))
      BY <1>2, <2>1 DEF CounterIsCharge
    <3>2. CASE c = b
      BY <1>1, <1>6, <3>1, <3>2 DEF TypeOK
    <3>3. CASE c # b
      BY <1>1, <1>4, <3>1, <3>3 DEF TypeOK
    <3>4. QED
      BY <3>2, <3>3
  <2>2. QED
    BY <2>1 DEF CounterIsCharge
<1>8. ~Closing(b) /\ used'[r] <= lim[r] => Cardinality(Accepted(b)) + 1 <= MaxLimit
  BY <1>1, <1>6, QuotaAssumption DEF CounterIsCharge, TypeOK, Limits
<1>9. GrantsWithinLimit'
  <2>1. ASSUME NEW c \in Bucket, ~Closing(c)'
        PROVE  Cardinality(Accepted(c)') <= MaxLimit
    <3>1. Cardinality(Accepted(c)) <= MaxLimit
      BY <1>2, <2>1 DEF GrantsWithinLimit
    <3>2. CASE c = b
      BY <1>2, <1>5, <1>6, <1>8, <2>1, <3>1, <3>2
    <3>3. CASE c # b
      BY <1>4, <3>1, <3>3
    <3>4. QED
      BY <3>2, <3>3
  <2>2. QED
    BY <2>1 DEF GrantsWithinLimit
<1>10. ~Closing(b) /\ used'[r] > lim[r] => Cardinality(Accepted(b)) >= MinLimit
  <2>1. SUFFICES ASSUME ~Closing(b), used'[r] > lim[r]
                 PROVE  Cardinality(Accepted(b)) >= MinLimit
    OBVIOUS
  <2>2. Cardinality(Charged(b)) >= MinLimit
    BY <1>1, <1>6, <2>1, QuotaAssumption DEF CounterIsCharge, TypeOK, Limits
  <2>3. CASE \E q \in Req : q \in Excess(b)
    BY <2>1, <2>3 DEF ExcessDeserved, Excess, Charged
  <2>4. CASE ~ \E q \in Req : q \in Excess(b)
    <3>1. Accepted(b) = Charged(b)
      BY <2>4 DEF Accepted, Charged, Excess, TypeOK, Limits
    <3>2. QED
      BY <2>2, <3>1
  <2>5. QED
    BY <2>3, <2>4
<1>11. \A c \in Bucket : /\ Cardinality(Accepted(c)) \in Nat /\ Cardinality(Accepted(c)') \in Nat
                         /\ Cardinality(Accepted(c)') >= Cardinality(Accepted(c))
  <2>1. Cardinality(Accepted(b)') \in {Cardinality(Accepted(b)), Cardinality(Accepted(b)) + 1}
    <3>1. CASE used'[r] <= lim[r]
      BY <1>5, <1>6, <3>1
    <3>2. CASE ~(used'[r] <= lim[r])
      BY <1>5, <3>2
    <3>3. QED
      BY <3>1, <3>2
  <2>2. ASSUME NEW c \in Bucket, c # b
        PROVE  Cardinality(Accepted(c)) \in Nat /\ Accepted(c)' = Accepted(c)
    BY <1>4, <2>2, SetsFinite
  <2>3. QED
    BY <1>6, <2>1, <2>2
<1>12. ASSUME NEW q \in Req, (pc[q] = "denied" \/ q \in Excess(at[q]))', ~Closing(at[q])'
       PROVE  Cardinality(Accepted(at[q]))' >= MinLimit
  <2>1. PICK c \in Bucket : c = at[q] /\ c = at'[q]
    BY <1>1 DEF TypeOK
  <2>2. ~Closing(c)
    BY <1>2, <1>12, <2>1 DEF Closing
  <2>3. Cardinality(Accepted(c)) >= MinLimit
    <3>1. CASE q = r
      BY <1>1, <1>10, <1>12, <2>1, <2>2, <3>1 DEF Excess
    <3>2. CASE q # r
      <4>1. pc[q] = "denied" \/ q \in Excess(c)
        BY <1>1, <1>12, <2>1, <3>2 DEF Excess, Charged, TypeOK
      <4>2. QED
        BY <2>1, <2>2, <4>1 DEF ExcessDeserved
    <3>3. QED
      BY <3>1, <3>2
  <2>4. Cardinality(Accepted(c)') >= MinLimit
    BY <1>11, <2>3, QuotaAssumption
  <2>5. Accepted(at[q])' = Accepted(c)'
    BY <2>1 DEF Accepted, Charged
  <2>6. QED
    BY <2>4, <2>5
<1>13. QED
  BY <1>7, <1>9, <1>12 DEF ExcessDeserved

(* DECR takes back exactly the unit of an excess hit, which was not        *)
(* accepted.                                                               *)
LEMMA DecrInv ==
    ASSUME QuotaInv, NEW r \in Req, Decr(r), TypeOK'
    PROVE  CounterIsCharge' /\ GrantsWithinLimit' /\ ExcessDeserved'
<1> USE DEF QuotaInv
<1>0. PICK b \in Bucket : b = at[r]
  BY DEF TypeOK
<1>1. /\ pc[r] = "decr" /\ b = at[r] /\ r \in Excess(b) /\ r \in Charged(b)
      /\ count' = [count EXCEPT ![b] = @ - 1]
      /\ pc'[r] = "denied" /\ \A q \in Req \ {r} : pc'[q] = pc[q]
      /\ UNCHANGED <<bucket, left, at, lim, used>>
  BY <1>0 DEF Decr, TypeOK, Charged, Excess, VerdictAgrees
<1>2. \A c \in Bucket : Closing(c)' = Closing(c)
  BY <1>1 DEF Closing
<1>3. Charged(b)' = Charged(b) \ {r}
  BY <1>1 DEF Charged, TypeOK
<1>4. \A c \in Bucket \ {b} : Charged(c)' = Charged(c)
  BY <1>1 DEF Charged, TypeOK
<1>5. \A c \in Bucket : Accepted(c)' = Accepted(c)
  BY <1>1 DEF Accepted, Charged, Excess, TypeOK, Limits
<1>6. Cardinality(Charged(b)') = Cardinality(Charged(b)) - 1
  <2>1. IsFiniteSet(Charged(b)) /\ r \in Charged(b)
    BY <1>1, SetsFinite
  <2>2. Cardinality(Charged(b) \ {r}) = Cardinality(Charged(b)) - 1
    BY <2>1, FS_RemoveElement
  <2>3. QED
    BY <1>3, <2>2
<1>7. CounterIsCharge'
  <2>1. ASSUME NEW c \in Bucket, ~Closing(c)'
        PROVE  count'[c] = Cardinality(Charged(c)')
    <3>1. count[c] = Cardinality(Charged(c))
      BY <1>2, <2>1 DEF CounterIsCharge
    <3>2. CASE c = b
      BY <1>1, <1>6, <3>1, <3>2 DEF TypeOK
    <3>3. CASE c # b
      BY <1>1, <1>4, <3>1, <3>3 DEF TypeOK
    <3>4. QED
      BY <3>2, <3>3
  <2>2. QED
    BY <2>1 DEF CounterIsCharge
<1>8. GrantsWithinLimit'
  BY <1>2, <1>5 DEF GrantsWithinLimit
<1>9. ASSUME NEW q \in Req, (pc[q] = "denied" \/ q \in Excess(at[q]))', ~Closing(at[q])'
      PROVE  Cardinality(Accepted(at[q]))' >= MinLimit
  <2>1. PICK c \in Bucket : c = at[q] /\ c = at'[q]
    BY <1>1 DEF TypeOK
  <2>2. ~Closing(c)
    BY <1>2, <1>9, <2>1 DEF Closing
  <2>3. pc[q] = "denied" \/ q \in Excess(c)
    BY <1>1, <1>9, <2>1 DEF Excess, Charged, TypeOK
  <2>4. Cardinality(Accepted(c)) >= MinLimit
    BY <2>1, <2>2, <2>3 DEF ExcessDeserved
  <2>5. Accepted(at[q])' = Accepted(c)
    BY <1>5, <2>1 DEF Accepted, Charged
  <2>6. QED
    BY <2>4, <2>5
<1>10. QED
  BY <1>7, <1>8, <1>9 DEF ExcessDeserved

(* A tick before the last second leaves every key of an open window alone. *)
LEMMA TickInv ==
    ASSUME QuotaInv, Tick, TypeOK'
    PROVE  CounterIsCharge' /\ GrantsWithinLimit' /\ ExcessDeserved'
<1> USE DEF QuotaInv
<1>1. /\ UNCHANGED <<pc, at, lim, life, used>>
      /\ \/ left' = left - 1 /\ bucket' = bucket
         \/ left' = WindowLength /\ bucket' = bucket + 1
  BY DEF Tick, requestVars
<1>2. \A c \in Bucket : /\ Charged(c)' = Charged(c) /\ Accepted(c)' = Accepted(c)
                        /\ Excess(c)' = Excess(c)
  BY <1>1 DEF Charged, Accepted, Excess
<1>3. ASSUME NEW c \in Bucket, ~Closing(c)'
      PROVE  ~Closing(c) /\ count'[c] = count[c]
  <2>1. ~Closing(c)
    BY <1>1, <1>3, QuotaAssumption DEF Closing, TypeOK, Bucket
  <2>2. ttl[c] # 1
    <3>1. CASE c = bucket
      BY <1>1, <1>3, <3>1, QuotaAssumption DEF Closing, KeyOutlivesWindow, TypeOK, Bucket
    <3>2. CASE c > bucket
      BY <3>2 DEF FutureUntouched, Absent
    <3>3. QED
      BY <2>1, <3>1, <3>2 DEF Closing, TypeOK, Bucket
  <2>3. QED
    BY <2>1, <2>2 DEF Tick
<1>4. CounterIsCharge' /\ GrantsWithinLimit'
  BY <1>2, <1>3 DEF CounterIsCharge, GrantsWithinLimit
<1>5. ASSUME NEW q \in Req, (pc[q] = "denied" \/ q \in Excess(at[q]))', ~Closing(at[q])'
      PROVE  Cardinality(Accepted(at[q]))' >= MinLimit
  <2>1. PICK c \in Bucket : c = at[q] /\ c = at'[q]
    BY <1>1 DEF TypeOK
  <2>2. ~Closing(c)
    BY <1>3, <1>5, <2>1 DEF Closing
  <2>3. pc[q] = "denied" \/ q \in Excess(c)
    BY <1>1, <1>5, <2>1 DEF Excess, Charged, TypeOK
  <2>4. Cardinality(Accepted(c)) >= MinLimit
    BY <2>1, <2>2, <2>3 DEF ExcessDeserved
  <2>5. Accepted(at[q])' = Accepted(c)
    BY <1>2, <2>1 DEF Accepted, Charged
  <2>6. QED
    BY <2>4, <2>5
<1>6. QED
  BY <1>4, <1>5 DEF ExcessDeserved

(* A request that begins, arms the key, is judged or dies leaves the       *)
(* counter and the charged and accepted units as they are.                 *)
LEMMA QuietInv ==
    ASSUME QuotaInv, TypeOK', NEW r \in Req,
           Begin(r) \/ Expire(r) \/ Check(r) \/ Fail(r)
    PROVE  CounterIsCharge' /\ GrantsWithinLimit' /\ ExcessDeserved'
<1> USE DEF QuotaInv
<1>1. /\ UNCHANGED <<bucket, left, count, used>>
      /\ pc'[r] # "denied"
      /\ \A q \in Req \ {r} : pc'[q] = pc[q] /\ at'[q] = at[q] /\ lim'[q] = lim[q]
      /\ r \in Charged(at[r])' => at'[r] = at[r] /\ lim'[r] = lim[r]
  BY DEF Begin, Expire, Check, Fail, TypeOK, Charged
<1>2. \A c \in Bucket : Charged(c)' = Charged(c) /\ Accepted(c)' = Accepted(c)
  <2>1. CASE Begin(r)
    BY <2>1 DEF Begin, Charged, Accepted, TypeOK
  <2>2. CASE Expire(r)
    BY <2>2 DEF Expire, Charged, Accepted, TypeOK
  <2>3. CASE Check(r)
    BY <2>3 DEF Check, Charged, Accepted, TypeOK, WithinQuota
  <2>4. CASE Fail(r)
    BY <2>4 DEF Fail, Charged, Accepted, TypeOK, VerdictAgrees
  <2>5. QED
    BY <2>1, <2>2, <2>3, <2>4
<1>3. ASSUME NEW q \in Req, (pc[q] = "denied" \/ q \in Excess(at[q]))'
      PROVE  /\ at[q]' = at[q] /\ at[q] \in Bucket
             /\ pc[q] = "denied" \/ q \in Excess(at[q])
  <2>1. CASE q = r
    BY <1>1, <1>2, <1>3, <2>1 DEF Excess, Charged, TypeOK
  <2>2. CASE q # r
    BY <1>1, <1>3, <2>2 DEF Excess, Charged, TypeOK
  <2>3. QED
    BY <2>1, <2>2
<1>4. QED
  BY <1>1, <1>2, <1>3, SameCharge

----------------------------------------------------------------------------
(* The key of the current window outlives it but for the last second.      *)
LEMMA KeyInv ==
    ASSUME QuotaInv, [Next]_vars, TypeOK'
    PROVE  FutureUntouched' /\ KeyOutlivesWindow' /\ VerdictAgrees'
<1> USE QuotaAssumption DEF QuotaInv, FutureUntouched, KeyOutlivesWindow, VerdictAgrees,
        TypeOK, Bucket, Absent, NoExpiry, Limits
<1>1. ASSUME NEW r \in Req, Begin(r)
      PROVE  FutureUntouched' /\ KeyOutlivesWindow' /\ VerdictAgrees'
  <2>1. left \in Nat
    OBVIOUS
  <2>2. PICK n \in Nat \ {0} : n = Ttl(left) /\ n > left - Second
    BY <2>1, TtlBounds
  <2>3. FutureUntouched'
    BY <1>1 DEF Begin
  <2>4. KeyOutlivesWindow'
    BY <1>1, <2>2 DEF Begin
  <2>5. VerdictAgrees'
    BY <1>1 DEF Begin
  <2>6. QED
    BY <2>3, <2>4, <2>5
<1>2. ASSUME NEW r \in Req, Incr(r)
      PROVE  FutureUntouched' /\ KeyOutlivesWindow' /\ VerdictAgrees'
  <2>1. FutureUntouched'
    BY SMTT(60), <1>2 DEF Incr
  <2>2. KeyOutlivesWindow'
    BY <1>2, SMTT(40) DEF Incr
  <2>3. VerdictAgrees'
    BY <1>2 DEF Incr
  <2>4. QED
    BY <2>1, <2>2, <2>3
<1>3. ASSUME NEW r \in Req, Expire(r)
      PROVE  FutureUntouched' /\ KeyOutlivesWindow' /\ VerdictAgrees'
  BY <1>3 DEF Expire
<1>4. ASSUME NEW r \in Req, Check(r)
      PROVE  FutureUntouched' /\ KeyOutlivesWindow' /\ VerdictAgrees'
  BY <1>4, SMTT(40) DEF Check, WithinQuota
<1>5. ASSUME NEW r \in Req, Decr(r)
      PROVE  FutureUntouched' /\ KeyOutlivesWindow' /\ VerdictAgrees'
  <2>1. FutureUntouched'
    BY SMTT(60), <1>5 DEF Decr
  <2>2. KeyOutlivesWindow'
    BY <1>5, SMTT(40) DEF Decr
  <2>3. VerdictAgrees'
    BY <1>5 DEF Decr
  <2>4. QED
    BY <2>1, <2>2, <2>3
<1>6. ASSUME NEW r \in Req, Fail(r)
      PROVE  FutureUntouched' /\ KeyOutlivesWindow' /\ VerdictAgrees'
  BY <1>6 DEF Fail
<1>7. CASE Tick
  <2>1. FutureUntouched' /\ VerdictAgrees'
    BY SMTT(60), <1>7 DEF Tick, requestVars
  <2>2. KeyOutlivesWindow'
    <3>1. CASE left' = left - 1 /\ bucket' = bucket
      <4>1. /\ UNCHANGED <<pc, at, life>> /\ left \in Int
            /\ ttl'[bucket] = IF ttl[bucket] = 1 THEN Absent
                              ELSE IF ttl[bucket] > 1 THEN ttl[bucket] - 1 ELSE ttl[bucket]
        BY <1>7 DEF Tick, requestVars
      <4>2. left' >= Second /\ ttl'[bucket'] > 0 => ttl'[bucket'] > left' - Second
        <5>0. ttl[bucket] \in {-2, -1} \cup (Nat \ {0})
          OBVIOUS
        <5>1. PICK t \in {-2, -1} \cup (Nat \ {0}) : t = ttl[bucket]
          BY <5>0
        <5>2. t > 0 /\ left >= Second => t > left - Second
          BY <5>1
        <5>3. ttl'[bucket'] = IF t = 1 THEN -2 ELSE IF t > 1 THEN t - 1 ELSE t
          BY <3>1, <4>1, <5>1
        <5>4. QED
          BY <3>1, <4>1, <5>2, <5>3
      <4>3. left' >= Second => \A r \in Req : at'[r] = bucket' /\ pc'[r] \in {"incr", "expire"}
                                                => life'[r] > left' - Second
        BY <3>1, <4>1, SMTT(40)
      <4>4. QED
        BY <4>2, <4>3
    <3>2. CASE left' = WindowLength /\ bucket' = bucket + 1
      <4>1. /\ UNCHANGED <<pc, at, life>> /\ bucket' \in Bucket
            /\ ttl'[bucket'] = ttl[bucket'] /\ ttl[bucket'] = Absent
        BY <1>7, <3>2 DEF Tick, requestVars
      <4>2. \A r \in Req : at'[r] # bucket'
        BY <3>2, <4>1
      <4>3. QED
        BY <4>1, <4>2
    <3>3. QED
      BY <1>7, <3>1, <3>2 DEF Tick
  <2>3. QED
    BY <2>1, <2>2
<1>8. CASE UNCHANGED vars
  BY <1>8 DEF vars, requestVars
<1>9. QED
  BY <1>1, <1>2, <1>3, <1>4, <1>5, <1>6, <1>7, <1>8 DEF Next

(* The inductive invariant holds in every reachable state. *)
THEOREM QuotaInvariant == Spec => []QuotaInv
<1>1. Init => QuotaInv
  <2> SUFFICES ASSUME Init PROVE QuotaInv
    OBVIOUS
  <2>1. TypeOK
    BY QuotaAssumption DEF Init, TypeOK, Bucket, Limits, Absent
  <2>2. \A b : Charged(b) = {} /\ Accepted(b) = {}
    BY DEF Init, Charged, Accepted
  <2>3. CounterIsCharge /\ GrantsWithinLimit
    BY <2>2, FS_EmptySet, QuotaAssumption DEF Init, CounterIsCharge, GrantsWithinLimit
  <2>4. FutureUntouched /\ VerdictAgrees /\ KeyOutlivesWindow
    BY QuotaAssumption DEF Init, FutureUntouched, VerdictAgrees, KeyOutlivesWindow, Bucket, Absent
  <2>5. ExcessDeserved
    BY <2>2 DEF Init, ExcessDeserved, Excess
  <2>6. QED
    BY <2>1, <2>3, <2>4, <2>5 DEF QuotaInv
<1>2. QuotaInv /\ TypeOK' /\ [Next]_vars => QuotaInv'
  <2> SUFFICES ASSUME QuotaInv, TypeOK', [Next]_vars PROVE QuotaInv'
    OBVIOUS
  <2>1. FutureUntouched' /\ KeyOutlivesWindow' /\ VerdictAgrees'
    BY KeyInv
  <2>2. CounterIsCharge' /\ GrantsWithinLimit' /\ ExcessDeserved'
    <3>1. ASSUME NEW r \in Req, Begin(r) \/ Expire(r) \/ Check(r) \/ Fail(r)
          PROVE  CounterIsCharge' /\ GrantsWithinLimit' /\ ExcessDeserved'
      BY <3>1, QuietInv
    <3>2. ASSUME NEW r \in Req, Incr(r)
          PROVE  CounterIsCharge' /\ GrantsWithinLimit' /\ ExcessDeserved'
      BY <3>2, IncrInv
    <3>3. ASSUME NEW r \in Req, Decr(r)
          PROVE  CounterIsCharge' /\ GrantsWithinLimit' /\ ExcessDeserved'
      BY <3>3, DecrInv
    <3>4. CASE Tick
      BY <3>4, TickInv
    <3>5. CASE UNCHANGED vars
      BY <3>5 DEF vars, requestVars, QuotaInv, CounterIsCharge, GrantsWithinLimit,
           ExcessDeserved, Closing, Charged, Accepted, Excess
    <3>6. QED
      BY <3>1, <3>2, <3>3, <3>4, <3>5 DEF Next
  <2>3. QED
    BY <2>1, <2>2 DEF QuotaInv
<1>3. QED
  BY <1>1, <1>2, QuotaType, PTL DEF Spec

(* However many requests race, a window never grants more searches than    *)
(* the largest limit before its last second (check_and_consume).           *)
THEOREM QuotaNeverOverspent == Spec => []GrantsWithinLimit
<1>1. QuotaInv => GrantsWithinLimit
  BY DEF QuotaInv
<1>2. QED
  BY <1>1, QuotaInvariant, PTL

(* The Redis counter is exactly the number of units held. *)
THEOREM QuotaCounterBalances == Spec => []CounterIsCharge
<1>1. QuotaInv => CounterIsCharge
  BY DEF QuotaInv
<1>2. QED
  BY <1>1, QuotaInvariant, PTL

(* A 429 is given only once a full smallest quota is accepted. *)
THEOREM QuotaDenialDeserved == Spec => []DenialDeserved
<1>1. QuotaInv => DenialDeserved
  BY DEF QuotaInv, ExcessDeserved, DenialDeserved
<1>2. QED
  BY <1>1, QuotaInvariant, PTL

----------------------------------------------------------------------------
(* A window that is open after a step was open before it. *)
LEMMA NextKeepsClosing ==
    ASSUME TypeOK, [Next]_vars, NEW b \in Bucket, ~Closing(b)'
    PROVE  ~Closing(b)
<1>1. CASE UNCHANGED <<bucket, left>>
  BY <1>1 DEF Closing
<1>2. CASE Tick
  BY <1>2, QuotaAssumption DEF Tick, Closing, TypeOK, Bucket
<1>3. QED
  BY <1>1, <1>2 DEF Next, vars, Begin, Incr, Expire, Check, Decr, Fail

(* A key that does not exist counts nothing. *)
AbsentIsZero == \A b \in Bucket : ttl[b] = Absent => count[b] = 0

Culprit(r, b) == at[r] = b /\ used[r] = 1 /\ pc[r] \in {"expire", "lost"}

(* A unit in transit keeps its key alive before the last second, so DECR   *)
(* creates no key, and the request that INCR creates one for is the first. *)
LEMMA UnarmedStep ==
    ASSUME QuotaInv, AbsentIsZero, UnarmedKeyHasCulprit, [Next]_vars
    PROVE  AbsentIsZero' /\ UnarmedKeyHasCulprit'
<1> USE QuotaAssumption DEF QuotaInv, Absent, NoExpiry
<1>1. AbsentIsZero'
  <2>1. ASSUME NEW r \in Req, Begin(r) \/ Check(r) \/ Fail(r) PROVE AbsentIsZero'
    BY <2>1 DEF AbsentIsZero, Begin, Check, Fail
  <2>2. ASSUME NEW r \in Req, Incr(r) \/ Decr(r) \/ Expire(r) PROVE AbsentIsZero'
    BY <2>2 DEF AbsentIsZero, Incr, Decr, Expire, TypeOK
  <2>3. CASE Tick
    BY <2>3 DEF AbsentIsZero, Tick, TypeOK
  <2>4. CASE UNCHANGED vars
    BY <2>4 DEF AbsentIsZero, vars
  <2>5. QED
    BY <2>1, <2>2, <2>3, <2>4 DEF Next
<1>2. ASSUME NEW b \in Bucket, ~Closing(b)', ttl'[b] = NoExpiry
      PROVE  \E q \in Req : Culprit(q, b)'
  <2>1. ~Closing(b)
    BY <1>2, NextKeepsClosing
  <2>2. ttl[b] = NoExpiry => \E q \in Req : Culprit(q, b)
    BY <2>1 DEF UnarmedKeyHasCulprit, Culprit
  <2>3. ASSUME NEW r \in Req, Begin(r) \/ Check(r) \/ Fail(r)
        PROVE  \E q \in Req : Culprit(q, b)'
    <3>1. PICK q \in Req : Culprit(q, b)
      BY <1>2, <2>2, <2>3 DEF Begin, Check, Fail
    <3>2. Culprit(q, b)'
      BY <2>3, <3>1 DEF Begin, Check, Fail, Culprit, TypeOK
    <3>3. QED
      BY <3>2
  <2>4. ASSUME NEW r \in Req, Incr(r) PROVE \E q \in Req : Culprit(q, b)'
    <3>1. CASE at[r] = b /\ ttl[b] = Absent
      BY <2>4, <3>1 DEF AbsentIsZero, Incr, Culprit, TypeOK
    <3>2. CASE ~(at[r] = b /\ ttl[b] = Absent)
      <4>1. PICK q \in Req : Culprit(q, b)
        BY <1>2, <2>2, <2>4, <3>2 DEF Incr, TypeOK
      <4>2. Culprit(q, b)'
        BY <2>4, <4>1 DEF Incr, Culprit, TypeOK
      <4>3. QED
        BY <4>2
    <3>3. QED
      BY <3>1, <3>2
  <2>5. ASSUME NEW r \in Req, Expire(r) PROVE \E q \in Req : Culprit(q, b)'
    <3>1. at[r] # b /\ ttl[b] = NoExpiry
      BY <1>2, <2>5 DEF Expire, TypeOK
    <3>2. PICK q \in Req : Culprit(q, b)
      BY <2>2, <3>1
    <3>3. Culprit(q, b)'
      BY <2>5, <3>1, <3>2 DEF Expire, Culprit, TypeOK
    <3>4. QED
      BY <3>3
  <2>6. ASSUME NEW r \in Req, Decr(r) PROVE \E q \in Req : Culprit(q, b)'
    <3>1. CASE at[r] = b
      <4>1. IsFiniteSet(Charged(b)) /\ r \in Charged(b)
        BY <2>6, <3>1, SetsFinite DEF Decr, Charged
      <4>2. Cardinality(Charged(b)) # 0
        BY <4>1, FS_EmptySet
      <4>3. count[b] # 0
        BY <2>1, <4>2 DEF CounterIsCharge
      <4>4. ttl[b] = NoExpiry
        BY <1>2, <2>6, <4>3 DEF AbsentIsZero, Decr, TypeOK
      <4>5. QED
        BY <2>2, <2>6, <4>4 DEF Decr, Culprit, TypeOK
    <3>2. CASE at[r] # b
      BY <1>2, <2>2, <2>6, <3>2 DEF Decr, Culprit, TypeOK
    <3>3. QED
      BY <3>1, <3>2
  <2>7. CASE Tick
    <3>1. ttl[b] = NoExpiry
      BY <1>2, <2>7 DEF Tick, TypeOK
    <3>2. QED
      BY <2>2, <2>7, <3>1 DEF Tick, requestVars, Culprit
  <2>8. CASE UNCHANGED vars
    BY <1>2, <2>2, <2>8 DEF vars, requestVars, Culprit
  <2>9. QED
    BY <2>3, <2>4, <2>5, <2>6, <2>7, <2>8 DEF Next
<1>3. QED
  BY <1>1, <1>2 DEF UnarmedKeyHasCulprit, Culprit

(* A key stays without expiry in an open window only while the request     *)
(* that created it is about to arm it, or died before (check_and_consume). *)
THEOREM QuotaUnarmedKeyHasCulprit == Spec => []UnarmedKeyHasCulprit
<1>1. Init => AbsentIsZero /\ UnarmedKeyHasCulprit
  BY DEF Init, AbsentIsZero, UnarmedKeyHasCulprit, Bucket, Absent, NoExpiry
<1>2. QuotaInv /\ AbsentIsZero /\ UnarmedKeyHasCulprit /\ [Next]_vars
        => AbsentIsZero' /\ UnarmedKeyHasCulprit'
  BY UnarmedStep
<1>3. QED
  BY <1>1, <1>2, QuotaInvariant, PTL DEF Spec

----------------------------------------------------------------------------
(* The budget counts with the same cardinality. *)
LEMMA BudgetCardinality == \A S : Budget!Cardinality(S) = Cardinality(S)
BY DEF Budget!Cardinality, Cardinality

(* The Redis counter implements the budget: each step of a request either  *)
(* takes a unit, grants, denies, or is invisible; a tick closes a window.  *)
THEOREM QuotaImplementsBudget == Spec => ImplementsBudget
<1> DEFINE taken == [b \in Bucket |-> Accepted(b)]
           answer == [r \in Req |-> IF pc[r] \in {"granted", "denied"} THEN pc[r] ELSE "none"]
           closing == {b \in Bucket : Closing(b)}
<1>1. Init => Budget!Init
  <2> SUFFICES ASSUME Init PROVE Budget!Init
    OBVIOUS
  <2>1. \A b \in Bucket : Accepted(b) = {} /\ ~Closing(b)
    BY QuotaAssumption DEF Init, Charged, Accepted, Closing, Bucket
  <2>2. QED
    BY <2>1 DEF Budget!Init, Init
<1>2. QuotaInv /\ QuotaInv' /\ [Next]_vars => [Budget!Next]_<<taken, answer, closing>>
  <2> SUFFICES ASSUME QuotaInv, QuotaInv', [Next]_vars
               PROVE  [Budget!Next]_<<taken, answer, closing>>
    OBVIOUS
  <2>0. TypeOK /\ TypeOK'
    BY DEF QuotaInv
  <2>1. ASSUME NEW r \in Req, Begin(r) \/ Expire(r) \/ Fail(r)
        PROVE  UNCHANGED <<taken, answer, closing>>
    <3>1. UNCHANGED <<bucket, left>> /\ UNCHANGED answer
      BY <2>0, <2>1 DEF Begin, Expire, Fail, TypeOK
    <3>2. \A b \in Bucket : Accepted(b)' = Accepted(b)
      <4>1. CASE Begin(r)
        BY <2>0, <4>1 DEF Begin, Charged, Accepted, TypeOK
      <4>2. CASE Expire(r)
        BY <2>0, <4>2 DEF Expire, Charged, Accepted, TypeOK
      <4>3. CASE Fail(r)
        BY <2>0, <4>3 DEF Fail, Charged, Accepted, TypeOK
      <4>4. QED
        BY <2>1, <4>1, <4>2, <4>3
    <3>3. UNCHANGED closing /\ UNCHANGED taken
      BY <3>1, <3>2 DEF Closing
    <3>4. QED
      BY <3>1, <3>3
  <2>2. ASSUME NEW r \in Req, Incr(r)
        PROVE  Budget!Next \/ UNCHANGED <<taken, answer, closing>>
    <3>1. PICK b \in Bucket : b = at[r]
      BY <2>0 DEF TypeOK
    <3>2. /\ UNCHANGED <<bucket, left, at, lim>> /\ UNCHANGED answer /\ answer[r] = "none"
          /\ \A c \in Bucket : r \notin Accepted(c)
          /\ pc[r] = "incr" /\ pc'[r] \in {"expire", "check"}
          /\ \A q \in Req \ {r} : pc'[q] = pc[q] /\ used'[q] = used[q]
      BY <2>0, <2>2 DEF Incr, TypeOK, Charged, Accepted
    <3>3. UNCHANGED closing
      BY <3>2 DEF Closing
    <3>4. \A c \in Bucket \ {b} : Accepted(c)' = Accepted(c)
      BY <2>0, <3>1, <3>2 DEF Charged, Accepted, TypeOK
    <3>5. CASE used'[r] <= lim[r]
      <4>1. Accepted(b)' = Accepted(b) \cup {r}
        BY <2>0, <3>1, <3>2, <3>5 DEF Charged, Accepted, TypeOK
      <4>2. taken' = [taken EXCEPT ![b] = @ \cup {r}]
        BY <3>4, <4>1
      <4>3. b \in closing \/ Cardinality(taken[b]) < MaxLimit
        <5>1. CASE Closing(b)
          BY <5>1
        <5>2. CASE ~Closing(b)
          <6>1. Cardinality(Accepted(b)') <= MaxLimit
            BY <3>2, <5>2 DEF QuotaInv, GrantsWithinLimit, Closing
          <6>2. Cardinality(Accepted(b)') = Cardinality(Accepted(b)) + 1
            BY <3>2, <4>1, SetsFinite, FS_AddElement
          <6>3. QED
            BY <6>1, <6>2, SetsFinite, QuotaAssumption
        <5>3. QED
          BY <5>1, <5>2
      <4>4. r \notin UNION {taken[c] : c \in Bucket}
        BY <3>2
      <4>5. Budget!Take(r, b)
        BY <3>2, <3>3, <4>2, <4>3, <4>4, BudgetCardinality DEF Budget!Take
      <4>6. QED
        BY <4>5 DEF Budget!Next
    <3>6. CASE ~(used'[r] <= lim[r])
      <4>1. Accepted(b)' = Accepted(b)
        BY <2>0, <3>1, <3>2, <3>6 DEF Charged, Accepted, TypeOK
      <4>2. QED
        BY <3>2, <3>3, <3>4, <4>1
    <3>7. QED
      BY <3>5, <3>6
  <2>3. ASSUME NEW r \in Req, Check(r)
        PROVE  Budget!Next \/ UNCHANGED <<taken, answer, closing>>
    <3>1. PICK b \in Bucket : b = at[r]
      BY <2>0 DEF TypeOK
    <3>2. UNCHANGED <<bucket, left>> /\ answer[r] = "none"
      BY <2>0, <2>3 DEF Check, TypeOK
    <3>3. \A c \in Bucket : Accepted(c)' = Accepted(c)
      BY <2>0, <2>3 DEF Check, WithinQuota, Charged, Accepted, TypeOK
    <3>4. UNCHANGED taken /\ UNCHANGED closing
      BY <3>2, <3>3 DEF Closing
    <3>5. CASE WithinQuota(r)
      <4>1. r \in taken[b] /\ answer' = [answer EXCEPT ![r] = "granted"]
        BY <2>0, <2>3, <3>1, <3>5 DEF Check, WithinQuota, Charged, Accepted, TypeOK
      <4>2. Budget!Grant(r, b)
        BY <3>2, <3>4, <4>1 DEF Budget!Grant
      <4>3. QED
        BY <4>2 DEF Budget!Next
    <3>6. CASE ~WithinQuota(r)
      <4>1. UNCHANGED answer
        BY <2>0, <2>3, <3>6 DEF Check, TypeOK
      <4>2. QED
        BY <3>4, <4>1
    <3>7. QED
      BY <3>5, <3>6
  <2>4. ASSUME NEW r \in Req, Decr(r)
        PROVE  Budget!Next
    <3>1. PICK b \in Bucket : b = at[r]
      BY <2>0 DEF TypeOK
    <3>2. /\ UNCHANGED <<bucket, left, at, lim, used>> /\ answer[r] = "none"
          /\ answer' = [answer EXCEPT ![r] = "denied"]
          /\ pc[r] = "decr" /\ used[r] > lim[r]
      BY <2>0, <2>4 DEF Decr, TypeOK, QuotaInv, VerdictAgrees
    <3>3. \A c \in Bucket : r \notin Accepted(c) /\ Accepted(c)' = Accepted(c)
      BY <2>0, <2>4, <3>2 DEF Decr, Charged, Accepted, TypeOK, Limits
    <3>4. UNCHANGED taken /\ UNCHANGED closing
      BY <3>2, <3>3 DEF Closing
    <3>5. b \in closing \/ Cardinality(taken[b]) >= MinLimit
      BY <2>0, <3>1, <3>2 DEF QuotaInv, ExcessDeserved, Excess, Charged
    <3>6. r \notin UNION {taken[c] : c \in Bucket}
      BY <3>3
    <3>7. Budget!Deny(r, b)
      BY <3>2, <3>4, <3>5, <3>6, BudgetCardinality DEF Budget!Deny
    <3>8. QED
      BY <3>7 DEF Budget!Next
  <2>5. ASSUME Tick
        PROVE  Budget!Next \/ UNCHANGED <<taken, answer, closing>>
    <3>1. UNCHANGED taken /\ UNCHANGED answer
      BY <2>5 DEF Tick, requestVars, Charged, Accepted
    <3>2. closing' = closing \cup {bucket} \/ closing' = closing
      BY <2>0, <2>5, QuotaAssumption, SMTT(40) DEF Tick, Closing, TypeOK, Bucket
    <3>3. bucket \in Bucket
      BY <2>0 DEF TypeOK
    <3>4. closing' = closing \cup {bucket} => Budget!Close(bucket)
      BY <3>1 DEF Budget!Close
    <3>5. QED
      BY <3>1, <3>2, <3>3, <3>4 DEF Budget!Next
  <2>6. CASE UNCHANGED vars
    BY <2>6 DEF vars, requestVars, Charged, Accepted, Closing
  <2>7. QED
    BY <2>1, <2>2, <2>3, <2>4, <2>5, <2>6 DEF Next
<1>3. QED
  BY <1>1, <1>2, QuotaInvariant, PTL DEF Spec, ImplementsBudget, Budget!Spec

=============================================================================
