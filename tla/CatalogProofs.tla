---------------------------- MODULE CatalogProofs ----------------------------
(***************************************************************************)
(* Type correctness and the safety of Catalog, for any number of           *)
(* transactions and coupons.  Steps says once what a step can be: the many *)
(* operations of the code that write a coupon are one Write, and those     *)
(* that only push it are one Republish.  Base is the invariant that the    *)
(* others build on; each property has an inductive part of its own beside  *)
(* it.                                                                     *)
(***************************************************************************)
EXTENDS Catalog, FiniteSetTheorems, TLAPS

Touches(s, c) == Busy(s) /\ job[s].mine[c] # Untouched

(* A notification costs a transaction that was opened. *)
Running == {s \in Slot : Busy(s)}
EachPaysForItself ==
    /\ IsFiniteSet(Running) /\ opened \in Nat
    /\ \A c \in Coupon : notified[c] \in Nat /\ notified[c] + Cardinality(Running) <= opened
Typed == TypeOK /\ EachPaysForItself

(* A row is locked by one transaction, which a request takes only once; a  *)
(* row that a snapshot shows is still there.                               *)
Exclusive == \A r, s \in Slot, c \in Coupon : Touches(r, c) /\ Touches(s, c) => r = s
RequestsWriteOnce ==
    \A s \in Slot, c \in Coupon : Touches(s, c) => job[s].op = "batch" \/ job[s].done
RowsStay == \A s \in Slot, c \in Coupon : Busy(s) /\ row[c] = Absent => job[s].snap[c] = Absent
Base == Typed /\ Exclusive /\ RequestsWriteOnce /\ RowsStay

(* Who was told, and who is still to be: as long as no two runs overlap, a *)
(* run that has not been crossed by another looks only at coupons that     *)
(* nobody was told about, and leaves for the next run only those.          *)
ToldExist ==
    \A s \in Slot, c \in Coupon :
        Busy(s) /\ c \in job[s].told => job[s].snap[c] # Absent \/ job[s].mine[c] # Untouched
ToldNews == \A s \in Slot : Busy(s) => job[s].told \subseteq job[s].since
UnbornUntold == \A c \in Coupon : row[c] = Absent => notified[c] = 0
RunsSeeNews ==
    \A s \in Slot, c \in Coupon :
        Busy(s) /\ ~job[s].crossed /\ c \in job[s].since \cup job[s].notYet => notified[c] = 0
LaterIsNotNow == \A s \in Slot : Busy(s) => job[s].notYet \cap job[s].told = {}
FreshIsUntold == \A c \in Coupon : notified[c] <= 1 /\ (c \in fresh => notified[c] = 0)
AlertInv ==
    /\ Base /\ ToldExist /\ ToldNews /\ UnbornUntold /\ LaterIsNotNow
    /\ ~overlap => RunsSeeNews /\ FreshIsUntold

(* A coupon leaves fresh, or the view of a run, only when it is settled. *)
Settled(c) == notified[c] > 0 \/ c \in excused
SettledInv ==
    /\ Base
    /\ \A c \in Coupon : c \in fresh \/ Settled(c)
    /\ \A s \in Slot, c \in Coupon : Busy(s) =>
         /\ c \in job[s].since \/ Settled(c)
         /\ job[s].told # {} => c \in job[s].notYet \cup job[s].told \/ Settled(c)

(* The document of c shows this row, or the row that expire_stale made of  *)
(* it since.                                                               *)
Shows(c, r) ==
    \/ doc[c] = Image(r)
    \/ r.status = "expired" /\ doc[c] = r.expires /\ r.expires <= now
Outcome(s, c) == Merged(s, c, job[s].mine[c])
Indexed(c) ==
    /\ ~Locked(c) => Shows(c, row[c])
    /\ \A s \in Slot : Touches(s, c) =>
         /\ Shows(c, Outcome(s, c))
         /\ c \in job[s].pushed \/ row[c] = Absent \/ Shows(c, row[c])
IndexInv == Base /\ \A c \in Coupon \ suspect : Indexed(c)

----------------------------------------------------------------------------
(* What a transaction in flight carries. *)
LEMMA Carries ==
    ASSUME TypeOK, NEW s \in Slot, Busy(s)
    PROVE  /\ job[s] \in Job
           /\ job[s].op \in {"batch", "request"} /\ job[s].done \in BOOLEAN
           /\ job[s].snap \in [Coupon -> Row \cup {Absent}]
           /\ job[s].mine \in [Coupon -> Row \cup {Untouched}]
           /\ job[s].since \subseteq Coupon /\ job[s].pushed \subseteq Coupon
           /\ job[s].told \subseteq Coupon /\ job[s].notYet \subseteq Coupon
           /\ job[s].crossed \in BOOLEAN
BY DEF TypeOK, Busy, Job

LEMMA NotARow ==
    Absent \notin Row /\ Untouched \notin Row /\ Absent # Untouched
BY DEF Row, Absent, Untouched, Statuses

LEMMA Times ==
    /\ Expiry \subseteq Nat /\ \A e \in Expiry : e > 0
    /\ \A r \in Row \cup {Absent} : r.expires \in Nat /\ r.expires > 0
    /\ \A r \in Row \cup {Absent} : Image(r) \in {NoDoc} \cup Expiry
<1>1. Expiry \subseteq Nat /\ \A e \in Expiry : e > 0
    BY CatalogAssumption DEF Never, Expiry
<1>2. \A r \in Row \cup {Absent} : r.expires \in Expiry
    BY DEF Row, Absent, Expiry
<1> QED BY <1>1, <1>2 DEF Image

(* The object that a handler works on, and the row that it leaves. *)
LEMMA ObjectType ==
    ASSUME TypeOK, NEW s \in Slot, Busy(s), NEW c \in Coupon
    PROVE  Object(s, c) \in Row \cup {Absent}
BY Carries DEF Object

LEMMA MergedType ==
    ASSUME TypeOK, RowsStay, NEW s \in Slot, Busy(s), NEW c \in Coupon, NEW object \in Row
    PROVE  Merged(s, c, object) \in Row
<1>1. job[s].snap[c] \in Row \cup {Absent} /\ row[c] \in Row \cup {Absent}
    BY Carries DEF TypeOK
<1>2. CASE job[s].snap[c] = Absent
    BY <1>2 DEF Merged
<1>3. CASE job[s].snap[c] # Absent
    <2>1. row[c] \in Row
        BY <1>1, <1>3 DEF RowsStay
    <2> QED BY <1>3, <2>1 DEF Merged, Row
<1> QED BY <1>2, <1>3

----------------------------------------------------------------------------
(* The kinds of steps. *)
WritePushes(s, c, object) == Pushed(s, {c}, [d \in Coupon |-> object])
Write(s, c, object) ==
    /\ Busy(s) /\ ~job[s].done /\ job[s].mine[c] = Untouched
    /\ ~Violates(s, c)
    /\ \/ /\ \/ Flushed(s, c, object, TRUE, TRUE)
             \/ job[s].op = "batch" /\ Flushed(s, c, object, TRUE, FALSE)
          /\ WritePushes(s, c, object)
       \/ /\ \/ Flushed(s, c, object, FALSE, TRUE)
             \/ job[s].op = "batch" /\ Flushed(s, c, object, FALSE, FALSE)
          /\ NotPushed(c, object)
Republish(s, C) ==
    /\ Busy(s) /\ job[s].op = "request" /\ ~job[s].done
    /\ \A c \in C : job[s].snap[c] # Absent
    /\ PushUnlocked(s, C)
Kinds ==
    \/ \E s \in Slot, op \in {"batch", "request"} : Open(s, op)
    \/ \E s \in Slot, c \in Coupon, object \in Row : Write(s, c, object)
    \/ \E s \in Slot, C \in SUBSET Coupon : Republish(s, C)
    \/ \E s \in Slot : Abort(s)
    \/ \E s \in Slot : Busy(s) /\ ~job[s].done /\ Match(s)
    \/ \E s \in Slot : Commit(s)
    \/ ExpireStale
    \/ Tick
    \/ UNCHANGED vars

LEMMA StoredIsRow ==
    ASSUME TypeOK, NEW s \in Slot, Busy(s), NEW c \in Coupon,
           NEW expires \in Expiry, NEW sure \in BOOLEAN
    PROVE  Stored(s, c, expires, sure) \in Row
<1>1. StoredStatus(Object(s, c), expires, sure) \in Statuses
    BY ObjectType DEF StoredStatus, Row, Statuses
<1> QED BY <1>1 DEF Stored, Row

LEMMA SaveIsWrite ==
    ASSUME NEW s \in Slot, NEW c \in Coupon, NEW object \in Row, Save(s, c, object),
           Busy(s), ~job[s].done, job[s].mine[c] = Untouched
    PROVE  Abort(s) \/ Write(s, c, object)
BY DEF Save, Write, WritePushes, Abort

LEMMA ChangeIsWrite ==
    ASSUME NEW s \in Slot, NEW c \in Coupon, NEW object \in Row, Change(s, c, object),
           Busy(s), ~job[s].done, job[s].mine[c] = Untouched, job[s].op = "request"
    PROVE  Abort(s) \/ Write(s, c, object) \/ Republish(s, {c})
BY SaveIsWrite DEF Change, Republish

LEMMA UnindexedIsWrite ==
    ASSUME TypeOK, NEW s \in Slot, NEW c \in Coupon, NEW sure \in BOOLEAN,
           StoreUnindexed(s, c, sure),
           Busy(s), ~job[s].done, job[s].mine[c] = Untouched
    PROVE  Abort(s) \/ \E object \in Row : Write(s, c, object)
<1>1. Never \in Expiry
    BY DEF Expiry
<1>2. Stored(s, c, Never, sure) \in Row
    BY <1>1, StoredIsRow
<1> QED BY <1>2 DEF StoreUnindexed, Write, Abort

LEMMA StoreIsWrite ==
    ASSUME TypeOK, NEW s \in Slot, NEW c \in Coupon, Store(s, c)
    PROVE  Abort(s) \/ \E object \in Row : Write(s, c, object)
<1>1. Busy(s) /\ ~job[s].done /\ job[s].mine[c] = Untouched /\ job[s].op = "batch"
    BY DEF Store, Busy, Idle
<1>2. CASE Violates(s, c)
    BY <1>1, <1>2 DEF Store, Abort
<1>3. CASE ~Violates(s, c)
    <2>1. PICK expires \in Expiry, sure \in BOOLEAN :
              LET object == Stored(s, c, expires, sure)
              IN  \/ Flushed(s, c, object, TRUE, FALSE)
                       /\ Pushed(s, {c}, [d \in Coupon |-> object])
                  \/ Flushed(s, c, object, FALSE, FALSE) /\ NotPushed(c, object)
        BY <1>3 DEF Store
    <2>2. Stored(s, c, expires, sure) \in Row
        BY <1>1, StoredIsRow
    <2> QED BY <1>1, <1>3, <2>1, <2>2 DEF Write, WritePushes
<1> QED BY <1>2, <1>3

LEMMA RequestIsWrite ==
    ASSUME TypeOK, RequestsWriteOnce, NEW s \in Slot, NEW c \in Coupon, Request(s, c)
    PROVE  \/ Abort(s)
           \/ \E object \in Row : Write(s, c, object)
           \/ \E C \in SUBSET Coupon : Republish(s, C)
<1>1. Busy(s) /\ job[s].op = "request" /\ ~job[s].done
    BY DEF Request
<1>2. job[s].mine[c] = Untouched
    BY <1>1 DEF RequestsWriteOnce, Touches
<1>3. job[s].snap[c] \in Row \cup {Absent}
    BY <1>1, Carries
<1>4. CASE Submit(s, c) \/ Seed(s, c)
    BY <1>1, <1>2, <1>4, UnindexedIsWrite DEF Submit, Seed
<1>5. CASE Create(s, c)
    BY <1>1, <1>5 DEF Create, Abort
<1>6. CASE Update(s, c)
    BY <1>1, <1>2, <1>6, ChangeIsWrite DEF Update
<1>7. CASE Moderate(s, c)
    <2>1. PICK status \in {"active", "revoked"} :
              Change(s, c, [job[s].snap[c] EXCEPT !.status = status])
        BY <1>7 DEF Moderate
    <2>2. [job[s].snap[c] EXCEPT !.status = status] \in Row
        BY <1>3, <2>1 DEF Change, Row, Statuses
    <2> QED BY <1>1, <1>2, <2>1, <2>2, ChangeIsWrite
<1>8. CASE Rescore(s, c)
    BY <1>1, <1>2, <1>3, <1>8, SaveIsWrite DEF Rescore
<1>9. CASE Reindex(s)
    <2>1. \A d \in Reindexed(s) : job[s].snap[d] # Absent
        BY DEF Reindexed, Absent
    <2>2. Reindexed(s) \in SUBSET Coupon
        BY DEF Reindexed
    <2> QED BY <1>1, <1>9, <2>1, <2>2 DEF Reindex, Republish
<1> QED BY <1>4, <1>5, <1>6, <1>7, <1>8, <1>9 DEF Request

LEMMA Steps ==
    ASSUME TypeOK, RequestsWriteOnce, [Next]_vars
    PROVE  Kinds
<1>1. ASSUME NEW s \in Slot, NEW c \in Coupon, Store(s, c) PROVE Kinds
    BY <1>1, StoreIsWrite DEF Kinds
<1>2. ASSUME NEW s \in Slot, NEW c \in Coupon, Request(s, c) PROVE Kinds
    BY <1>2, RequestIsWrite DEF Kinds
<1> QED BY <1>1, <1>2 DEF Next, Kinds

----------------------------------------------------------------------------
(* What each kind of step does to the transactions in flight. *)
LEMMA OpenWorks ==
    ASSUME TypeOK, NEW s \in Slot, NEW op \in {"batch", "request"}, Open(s, op)
    PROVE  /\ job'[s] = [op |-> op, done |-> FALSE, snap |-> row, since |-> fresh,
                         mine |-> [c \in Coupon |-> Untouched],
                         pushed |-> {}, told |-> {}, notYet |-> {}, crossed |-> FALSE]
           /\ job'[s] \in Job /\ Busy(s)' /\ ~Busy(s)
           /\ \A r \in Slot \ {s} : job'[r] = job[r]
           /\ DOMAIN job' = Slot /\ job' = [r \in Slot |-> job'[r]]
<1>1. job'[s] = [op |-> op, done |-> FALSE, snap |-> row, since |-> fresh,
                 mine |-> [c \in Coupon |-> Untouched],
                 pushed |-> {}, told |-> {}, notYet |-> {}, crossed |-> FALSE]
    BY DEF Open, TypeOK
<1>2. job'[s] \in Job
    BY <1>1 DEF TypeOK, Job
<1>3. job'[s] # Idle /\ job[s] = Idle
    BY <1>2 DEF Job, Idle, Open, Busy
<1> QED BY <1>1, <1>2, <1>3 DEF Open, TypeOK, Busy

LEMMA WriteWorks ==
    ASSUME TypeOK, NEW s \in Slot, NEW c \in Coupon, NEW object \in Row, Write(s, c, object)
    PROVE  /\ job' = [r \in Slot |-> job'[r]]
           /\ \A r \in Slot \ {s} : job'[r] = job[r]
           /\ job'[s] \in Job /\ Busy(s) /\ Busy(s)'
           /\ job'[s].op = job[s].op /\ job'[s].snap = job[s].snap
           /\ job'[s].since = job[s].since /\ job'[s].told = job[s].told
           /\ job'[s].notYet = job[s].notYet /\ job'[s].crossed = job[s].crossed
           /\ job[s].op = "batch" \/ job'[s].done
           /\ job'[s].mine = [d \in Coupon |-> IF d = c THEN object ELSE job[s].mine[d]]
           /\ \/ job'[s].pushed = job[s].pushed \cup {c} /\ WritePushes(s, c, object)
              \/ job'[s].pushed = job[s].pushed /\ NotPushed(c, object)
           /\ UNCHANGED <<now, row, fresh, notified, opened, excused, overlap>>
           /\ ~LockedByOther(s, c)
<1>1. Busy(s) /\ job[s] \in Job
    BY Carries DEF Write
<1> DEFINE mine == [job[s].mine EXCEPT ![c] = object]
<1>2. PICK sent \in {job[s].pushed, job[s].pushed \cup {c}} :
        /\ job' = [r \in Slot |-> IF r = s THEN job'[s] ELSE job[r]]
        /\ \/ job'[s] = [job[s] EXCEPT !.mine = mine, !.done = TRUE, !.pushed = sent]
           \/ /\ job[s].op = "batch"
              /\ job'[s] = [job[s] EXCEPT !.mine = mine, !.done = FALSE, !.pushed = sent]
        /\ \/ sent = job[s].pushed \cup {c} /\ WritePushes(s, c, object)
           \/ sent = job[s].pushed /\ NotPushed(c, object)
    <2>1. CASE /\ \/ Flushed(s, c, object, TRUE, TRUE)
                  \/ job[s].op = "batch" /\ Flushed(s, c, object, TRUE, FALSE)
               /\ WritePushes(s, c, object)
        BY <1>1, <2>1 DEF Flushed, Job
    <2>2. CASE /\ \/ Flushed(s, c, object, FALSE, TRUE)
                  \/ job[s].op = "batch" /\ Flushed(s, c, object, FALSE, FALSE)
               /\ NotPushed(c, object)
        BY <1>1, <2>2 DEF Flushed, Job
    <2> QED BY <2>1, <2>2 DEF Write
<1>3. mine = [d \in Coupon |-> IF d = c THEN object ELSE job[s].mine[d]]
    BY <1>1 DEF Job
<1>4. mine \in [Coupon -> Row \cup {Untouched}] /\ sent \subseteq Coupon
    BY <1>1, <1>3 DEF Job
<1> HIDE DEF mine
<1>5. \/ job'[s] = [job[s] EXCEPT !.mine = mine, !.done = TRUE, !.pushed = sent]
      \/ /\ job[s].op = "batch"
         /\ job'[s] = [job[s] EXCEPT !.mine = mine, !.done = FALSE, !.pushed = sent]
    BY <1>2
<1>6. /\ job'[s] \in Job /\ job'[s].mine = mine /\ job'[s].pushed = sent
      /\ job'[s].op = job[s].op /\ job'[s].snap = job[s].snap
      /\ job'[s].since = job[s].since /\ job'[s].told = job[s].told
      /\ job'[s].notYet = job[s].notYet /\ job'[s].crossed = job[s].crossed
    BY <1>1, <1>4, <1>5, ZenonT(60) DEF Job
<1>7. job[s].op = "batch" \/ job'[s].done
    BY <1>1, <1>5 DEF Job
<1>8. Busy(s)'
    BY <1>6 DEF Job, Busy, Idle
<1>9. job' = [r \in Slot |-> job'[r]] /\ \A r \in Slot \ {s} : job'[r] = job[r]
    BY <1>2
<1>10. /\ UNCHANGED <<now, row, fresh, notified, opened, excused, overlap>>
       /\ ~LockedByOther(s, c)
    BY DEF Write, Flushed, tables
<1> QED BY <1>1, <1>2, <1>3, <1>6, <1>7, <1>8, <1>9, <1>10 DEF mine

LEMMA RepublishWorks ==
    ASSUME TypeOK, NEW s \in Slot, NEW C \in SUBSET Coupon, Republish(s, C)
    PROVE  /\ job' = [r \in Slot |-> job'[r]]
           /\ \A r \in Slot \ {s} : job'[r] = job[r]
           /\ job'[s] \in Job /\ Busy(s) /\ Busy(s)'
           /\ job'[s] = [job[s] EXCEPT !.done = TRUE, !.pushed = C]
<1>1. Busy(s) /\ job[s] \in Job
    BY Carries DEF Republish
<1>2. job' = [job EXCEPT ![s] = [job[s] EXCEPT !.done = TRUE, !.pushed = C]]
    BY <1>1 DEF Republish, PushUnlocked, TypeOK
<1>3. job'[s] = [job[s] EXCEPT !.done = TRUE, !.pushed = C]
    BY <1>2 DEF TypeOK
<1>4. job'[s] \in Job
    BY <1>1, <1>3 DEF Job
<1>5. Busy(s)'
    BY <1>4 DEF Job, Busy, Idle
<1> QED BY <1>1, <1>2, <1>3, <1>4, <1>5 DEF TypeOK

LEMMA MatchWorks ==
    ASSUME TypeOK, NEW s \in Slot, Busy(s), Match(s)
    PROVE  /\ job' = [r \in Slot |-> job'[r]]
           /\ \A r \in Slot \ {s} : job'[r] = job[r]
           /\ job'[s] \in Job /\ Busy(s)'
           /\ \E told \in SUBSET Candidates(s) :
                /\ job'[s] = [job[s] EXCEPT !.done = TRUE, !.told = told, !.notYet = job'[s].notYet]
                /\ job'[s].notYet = IF told = {} THEN {} ELSE {c \in Coupon : ~Created(c)}
                /\ excused' = IF told = {} THEN excused
                              ELSE excused \cup {c \in Coupon : Created(c) /\ LeftOut(s, c, told)}
<1>1. job[s] \in Job
    BY Carries
<1>2. PICK told \in SUBSET Candidates(s) :
        /\ job' = [job EXCEPT ![s].done = TRUE, ![s].told = told,
                             ![s].notYet = IF told = {} THEN {} ELSE {c \in Coupon : ~Created(c)}]
        /\ excused' = IF told = {} THEN excused
                      ELSE excused \cup {c \in Coupon : Created(c) /\ LeftOut(s, c, told)}
    BY DEF Match
<1> DEFINE later == IF told = {} THEN {} ELSE {c \in Coupon : ~Created(c)}
<1>3. later \subseteq Coupon /\ told \subseteq Coupon
    BY <1>1 DEF Candidates, Job
<1>4. job' = [job EXCEPT ![s] = [job[s] EXCEPT !.done = TRUE, !.told = told, !.notYet = later]]
    BY <1>1, <1>2 DEF TypeOK
<1> HIDE DEF later
<1>5. job'[s] = [job[s] EXCEPT !.done = TRUE, !.told = told, !.notYet = later]
    BY <1>4 DEF TypeOK
<1>6. job'[s] \in Job /\ job'[s].notYet = later
    BY <1>1, <1>3, <1>5, ZenonT(60) DEF Job
<1>7. Busy(s)'
    BY <1>6 DEF Job, Busy, Idle
<1>8. job' = [r \in Slot |-> job'[r]] /\ \A r \in Slot \ {s} : job'[r] = job[r]
    BY <1>4 DEF TypeOK
<1>9. job'[s].notYet = IF told = {} THEN {} ELSE {c \in Coupon : ~Created(c)}
    BY <1>6 DEF later
<1> QED BY <1>2, <1>5, <1>6, <1>7, <1>8, <1>9

(* The end of a transaction, and what the others learn of it. *)
LEMMA RollBackWorks ==
    ASSUME TypeOK, NEW s \in Slot, Abort(s)
    PROVE  /\ job' = [r \in Slot |-> job'[r]]
           /\ Busy(s) /\ job'[s] = Idle
           /\ \A r \in Slot \ {s} : ~Busy(r) => job'[r] = Idle
           /\ \A r \in Slot \ {s} : Busy(r) =>
                /\ job'[r] \in Job /\ Busy(r)'
                /\ job'[r] = [job[r] EXCEPT !.since = job'[r].since, !.notYet = job'[r].notYet]
                /\ job'[r].since = job[r].since \cup Unborn(s)
                /\ job'[r].notYet = IF job[r].told = {} THEN job[r].notYet
                                    ELSE job[r].notYet \cup Unborn(s)
<1>1. ASSUME NEW r \in Slot \ {s}, Busy(r)
      PROVE  /\ job'[r] \in Job /\ Busy(r)'
             /\ job'[r] = [job[r] EXCEPT !.since = job'[r].since, !.notYet = job'[r].notYet]
             /\ job'[r].since = job[r].since \cup Unborn(s)
             /\ job'[r].notYet = IF job[r].told = {} THEN job[r].notYet
                                 ELSE job[r].notYet \cup Unborn(s)
    <2> DEFINE later == IF job[r].told = {} THEN job[r].notYet ELSE job[r].notYet \cup Unborn(s)
               since == job[r].since \cup Unborn(s)
    <2>1. job[r] \in Job /\ Unborn(s) \subseteq Coupon
        BY <1>1, Carries DEF Unborn
    <2>2. job'[r] = [job[r] EXCEPT !.since = since, !.notYet = later]
        BY <1>1, <2>1 DEF Abort, RollBack, Job
    <2>3. since \subseteq Coupon /\ later \subseteq Coupon
        BY <2>1 DEF Job
    <2> HIDE DEF since, later
    <2>4. job'[r] \in Job /\ job'[r].since = since /\ job'[r].notYet = later
        BY <2>1, <2>2, <2>3 DEF Job
    <2>5. Busy(r)'
        BY <2>4 DEF Job, Busy, Idle
    <2> QED BY <2>2, <2>4, <2>5 DEF since, later
<1> QED BY <1>1 DEF Abort, RollBack

LEMMA CommitWorks ==
    ASSUME TypeOK, NEW s \in Slot, Commit(s)
    PROVE  /\ job' = [r \in Slot |-> job'[r]]
           /\ Busy(s) /\ job'[s] = Idle
           /\ \A r \in Slot \ {s} : ~Busy(r) => job'[r] = Idle
           /\ \A r \in Slot \ {s} : Busy(r) =>
                /\ job'[r] \in Job /\ Busy(r)'
                /\ job'[r] = [job[r] EXCEPT !.crossed = job'[r].crossed]
                /\ job'[r].crossed = (job[r].crossed \/ job[s].told # {})
<1>1. ASSUME NEW r \in Slot \ {s}, Busy(r)
      PROVE  /\ job'[r] \in Job /\ Busy(r)'
             /\ job'[r] = [job[r] EXCEPT !.crossed = job'[r].crossed]
             /\ job'[r].crossed = (job[r].crossed \/ job[s].told # {})
    <2> DEFINE crossed == job[r].crossed \/ job[s].told # {}
    <2>1. job[r] \in Job
        BY <1>1, Carries
    <2>2. job'[r] = [job[r] EXCEPT !.crossed = crossed]
        BY <1>1, <2>1 DEF Commit, Job
    <2>3. crossed \in BOOLEAN
        OBVIOUS
    <2> HIDE DEF crossed
    <2>4. job'[r] \in Job /\ job'[r].crossed = crossed
        BY <2>1, <2>2, <2>3 DEF Job
    <2>5. Busy(r)'
        BY <2>4 DEF Job, Busy, Idle
    <2> QED BY <2>2, <2>4, <2>5 DEF crossed
<1> QED BY <1>1 DEF Commit

----------------------------------------------------------------------------
(* Type correctness. *)
LEMMA PushedTypes ==
    ASSUME TypeOK, NEW s \in Slot, NEW C \in SUBSET Coupon,
           NEW object \in [Coupon -> Row \cup {Absent}], Pushed(s, C, object)
    PROVE  /\ doc' \in [Coupon -> {NoDoc} \cup Expiry]
           /\ ghosts' \subseteq Coupon /\ suspect' \subseteq Coupon
<1>1. \A c \in Coupon : Image(object[c]) \in {NoDoc} \cup Expiry
    BY Times
<1>2. doc' = [c \in Coupon |-> IF c \in C THEN Image(object[c]) ELSE doc[c]]
    BY DEF Pushed
<1>3. doc' \in [Coupon -> {NoDoc} \cup Expiry]
    BY <1>1, <1>2 DEF TypeOK
<1> QED BY <1>3 DEF Pushed, TypeOK

LEMMA JobsHold ==
    ASSUME TypeOK, NEW s \in Slot, job' = [r \in Slot |-> job'[r]], job'[s] \in {Idle} \cup Job,
           \A r \in Slot \ {s} : job'[r] \in {Idle} \cup Job
    PROVE  job' \in [Slot -> {Idle} \cup Job]
OBVIOUS

LEMMA CommittedRows ==
    ASSUME TypeOK, RowsStay, NEW s \in Slot, Commit(s), NEW c \in Coupon
    PROVE  /\ row'[c] = IF Touches(s, c) THEN Outcome(s, c) ELSE row[c]
           /\ row'[c] \in Row \cup {Absent}
           /\ Touches(s, c) => row'[c] \in Row
<1>1. Busy(s)
    BY DEF Commit
<1>2. row'[c] = IF Touches(s, c) THEN Outcome(s, c) ELSE row[c]
    BY <1>1 DEF Commit, Touches, Outcome
<1>3. CASE Touches(s, c)
    <2>1. job[s].mine[c] \in Row
        BY <1>1, <1>3, Carries DEF Touches
    <2> QED BY <1>1, <1>2, <1>3, <2>1, MergedType DEF Outcome
<1>4. CASE ~Touches(s, c)
    BY <1>2, <1>4 DEF TypeOK
<1> QED BY <1>2, <1>3, <1>4

LEMMA TypeStep ==
    ASSUME Typed, RequestsWriteOnce, RowsStay, opened' <= MaxOpened, EachPaysForItself',
           [Next]_vars
    PROVE  TypeOK'
<1>1. TypeOK
    BY DEF Typed
<1>2. \A r \in Slot : job[r] \in {Idle} \cup Job
    BY <1>1 DEF TypeOK
<1>3. notified' \in [Coupon -> Nat] => notified' \in [Coupon -> 0 .. MaxOpened]
    <2> SUFFICES ASSUME notified' \in [Coupon -> Nat], NEW c \in Coupon
                 PROVE  notified'[c] \in 0 .. MaxOpened
        OBVIOUS
    <2>1. Cardinality(Running') \in Nat
        BY FS_CardinalityType DEF EachPaysForItself
    <2> QED BY <2>1, CatalogAssumption DEF EachPaysForItself
<1>4. opened' \in 0 .. MaxOpened
    BY DEF EachPaysForItself
<1>5. ASSUME NEW s \in Slot, NEW op \in {"batch", "request"}, Open(s, op) PROVE TypeOK'
    <2>1. job' \in [Slot -> {Idle} \cup Job]
        BY <1>1, <1>2, <1>5, OpenWorks, JobsHold
    <2> QED BY <1>1, <1>4, <1>5, <2>1 DEF TypeOK, Open, tables, index
<1>6. ASSUME NEW s \in Slot, NEW c \in Coupon, NEW object \in Row, Write(s, c, object)
      PROVE  TypeOK'
    <2>1. job' \in [Slot -> {Idle} \cup Job]
        BY <1>1, <1>2, <1>6, WriteWorks, JobsHold
    <2>2. UNCHANGED <<now, row, fresh, notified, opened, excused, overlap>>
        BY <1>1, <1>6, WriteWorks
    <2>3. /\ doc' \in [Coupon -> {NoDoc} \cup Expiry]
          /\ ghosts' \subseteq Coupon /\ suspect' \subseteq Coupon
        <3>1. CASE WritePushes(s, c, object)
            <4>1. [d \in Coupon |-> object] \in [Coupon -> Row \cup {Absent}]
                OBVIOUS
            <4> QED BY <1>1, <3>1, <4>1, PushedTypes DEF WritePushes
        <3>2. CASE NotPushed(c, object)
            BY <1>1, <3>2 DEF NotPushed, TypeOK
        <3> QED BY <1>1, <1>6, <3>1, <3>2, WriteWorks
    <2> QED BY <1>1, <2>1, <2>2, <2>3 DEF TypeOK
<1>7. ASSUME NEW s \in Slot, NEW C \in SUBSET Coupon, Republish(s, C) PROVE TypeOK'
    <2>1. job' \in [Slot -> {Idle} \cup Job]
        BY <1>1, <1>2, <1>7, RepublishWorks, JobsHold
    <2>2. UNCHANGED <<now, row, fresh, notified, opened, excused, overlap>>
        BY <1>7 DEF Republish, PushUnlocked, tables
    <2>3. Pushed(s, C, job[s].snap) /\ job[s].snap \in [Coupon -> Row \cup {Absent}]
        BY <1>1, <1>7, Carries, SMTT(40) DEF Republish, PushUnlocked
    <2> QED BY <1>1, <2>1, <2>2, <2>3, PushedTypes DEF TypeOK
<1>8. ASSUME NEW s \in Slot, Abort(s) PROVE TypeOK'
    <2>1. job' \in [Slot -> {Idle} \cup Job]
        BY <1>1, <1>2, <1>8, RollBackWorks, JobsHold
    <2>2. job[s].pushed \subseteq Coupon /\ Unborn(s) \subseteq Coupon
        BY <1>1, <1>8, Carries DEF Abort, Unborn
    <2> QED BY <1>1, <1>8, <2>1, <2>2 DEF TypeOK, Abort, RollBack
<1>9. ASSUME NEW s \in Slot, Busy(s), Match(s) PROVE TypeOK'
    <2>1. job' \in [Slot -> {Idle} \cup Job]
        BY <1>1, <1>2, <1>9, MatchWorks, JobsHold
    <2>2. excused' \subseteq Coupon
        BY <1>1, <1>9 DEF Match, TypeOK
    <2> QED BY <1>1, <1>9, <2>1, <2>2 DEF TypeOK, Match, tables, index
<1>10. ASSUME NEW s \in Slot, Commit(s) PROVE TypeOK'
    <2>1. job' \in [Slot -> {Idle} \cup Job]
        BY <1>1, <1>2, <1>10, CommitWorks, JobsHold
    <2>2. row' = [c \in Coupon |-> row'[c]]
        BY <1>10 DEF Commit
    <2>3. row' \in [Coupon -> Row \cup {Absent}]
        BY <1>1, <1>10, <2>2, CommittedRows
    <2>4. notified' \in [Coupon -> Nat]
        BY <1>1, <1>10, CatalogAssumption DEF Commit, TypeOK
    <2>5. fresh' \subseteq Coupon
        BY <1>1, <1>10, Carries DEF Commit, LastFired, TypeOK
    <2>6. overlap' \in BOOLEAN
        BY <1>1, <1>10 DEF Commit, TypeOK
    <2> QED BY <1>1, <1>3, <1>10, <2>1, <2>3, <2>4, <2>5, <2>6 DEF TypeOK, Commit, index
<1>11. CASE ExpireStale
    <2>1. row' \in [Coupon -> Row \cup {Absent}]
        <3>1. \A c \in Coupon : row[c] \in Row \cup {Absent}
            BY <1>1 DEF TypeOK
        <3>2. \A c \in Coupon : Stale(c) => [row[c] EXCEPT !.status = "expired"] \in Row
            BY <3>1 DEF Stale, Row, Absent, Statuses
        <3> QED BY <1>11, <3>1, <3>2 DEF ExpireStale
    <2> QED BY <1>1, <1>11, <2>1 DEF TypeOK, ExpireStale, index
<1>12. CASE Tick
    <2>1. now' \in 0 .. LastTime
        BY <1>1, <1>12, CatalogAssumption DEF TypeOK, Tick
    <2> QED BY <1>1, <1>12, <2>1 DEF TypeOK, Tick, tables, index
<1>13. CASE UNCHANGED vars
    BY <1>1, <1>13 DEF TypeOK, vars, tables, index
<1> QED BY <1>1, <1>5, <1>6, <1>7, <1>8, <1>9, <1>10, <1>11, <1>12, <1>13, Steps DEF Kinds

(* Each transaction counts once, while it runs or when it has notified. *)
LEMMA PayStep ==
    ASSUME Typed, RequestsWriteOnce, [Next]_vars
    PROVE  EachPaysForItself' /\ opened' <= MaxOpened
<1>1. TypeOK /\ IsFiniteSet(Running) /\ opened \in Nat /\ opened <= MaxOpened
    BY CatalogAssumption DEF Typed, TypeOK, EachPaysForItself
<1>2. Cardinality(Running) \in Nat
    BY <1>1, FS_CardinalityType
<1>3. \A c \in Coupon : notified[c] \in Nat /\ notified[c] + Cardinality(Running) <= opened
    BY DEF Typed, EachPaysForItself
<1>4. ASSUME NEW s \in Slot, NEW op \in {"batch", "request"}, Open(s, op)
      PROVE  EachPaysForItself' /\ opened' <= MaxOpened
    <2>1. Running' = Running \cup {s} /\ s \notin Running
        BY <1>1, <1>4, OpenWorks DEF Running, Busy
    <2>2. IsFiniteSet(Running') /\ Cardinality(Running') = Cardinality(Running) + 1
        BY <1>1, <2>1, FS_AddElement
    <2>3. opened' = opened + 1 /\ opened < MaxOpened /\ notified' = notified
        BY <1>4 DEF Open, tables
    <2> QED BY <1>1, <1>2, <1>3, <2>2, <2>3, CatalogAssumption DEF EachPaysForItself
<1>5. ASSUME Running' = Running, notified' = notified, opened' = opened
      PROVE  EachPaysForItself' /\ opened' <= MaxOpened
    BY <1>1, <1>3, <1>5 DEF EachPaysForItself
<1>6. ASSUME NEW s \in Slot, NEW c \in Coupon, NEW object \in Row, Write(s, c, object)
      PROVE  EachPaysForItself' /\ opened' <= MaxOpened
    <2>1. Running' = Running
        <3>1. Busy(s) /\ Busy(s)' /\ \A r \in Slot \ {s} : job'[r] = job[r]
            BY <1>1, <1>6, WriteWorks
        <3> QED BY <3>1 DEF Running, Busy
    <2>2. notified' = notified /\ opened' = opened
        BY <1>1, <1>6, WriteWorks
    <2> QED BY <1>5, <2>1, <2>2
<1>7. ASSUME NEW s \in Slot, NEW C \in SUBSET Coupon, Republish(s, C)
      PROVE  EachPaysForItself' /\ opened' <= MaxOpened
    <2>1. Running' = Running
        BY <1>1, <1>7, RepublishWorks DEF Running, Busy
    <2> QED BY <1>5, <1>7, <2>1 DEF Republish, PushUnlocked, tables
<1>8. ASSUME NEW s \in Slot, Busy(s), Match(s)
      PROVE  EachPaysForItself' /\ opened' <= MaxOpened
    <2>1. Running' = Running
        BY <1>1, <1>8, MatchWorks DEF Running, Busy
    <2> QED BY <1>5, <1>8, <2>1 DEF Match, tables
<1>9. ASSUME NEW s \in Slot, Running' = Running \ {s}, s \in Running, opened' = opened,
             \A c \in Coupon : notified'[c] \in Nat /\ notified'[c] <= notified[c] + 1
      PROVE  EachPaysForItself' /\ opened' <= MaxOpened
    <2> DEFINE n == Cardinality(Running)
    <2>1. IsFiniteSet(Running') /\ Cardinality(Running') = n - 1
        BY <1>1, <1>9, FS_RemoveElement
    <2>2. n \in Nat /\ opened \in Nat /\ opened <= MaxOpened
        BY <1>1, <1>2
    <2>3. ASSUME NEW c \in Coupon
          PROVE  notified'[c] + (n - 1) <= opened
        <3>1. notified[c] \in Nat /\ notified[c] + n <= opened
            BY <1>3
        <3>2. notified'[c] \in Nat /\ notified'[c] <= notified[c] + 1
            BY <1>9
        <3> HIDE DEF n
        <3> QED BY <2>2, <3>1, <3>2
    <2>4. \A c \in Coupon : notified'[c] + Cardinality(Running') <= opened'
        BY <1>9, <2>1, <2>3
    <2>5. opened' \in Nat /\ opened' <= MaxOpened
        BY <1>9, <2>2
    <2>6. \A c \in Coupon : notified'[c] \in Nat
        BY <1>9
    <2> QED BY <2>1, <2>4, <2>5, <2>6 DEF EachPaysForItself
<1>10. ASSUME NEW s \in Slot, Abort(s)
       PROVE  EachPaysForItself' /\ opened' <= MaxOpened
    <2>1. Running' = Running \ {s} /\ s \in Running
        BY <1>1, <1>10, RollBackWorks DEF Running, Busy
    <2>2. notified' = notified /\ opened' = opened
        BY <1>10 DEF Abort, RollBack
    <2> QED BY <1>3, <1>9, <2>1, <2>2
<1>11. ASSUME NEW s \in Slot, Commit(s)
       PROVE  EachPaysForItself' /\ opened' <= MaxOpened
    <2>1. Running' = Running \ {s} /\ s \in Running
        BY <1>1, <1>11, CommitWorks DEF Running, Busy
    <2>2. opened' = opened
        BY <1>11 DEF Commit
    <2>3. \A c \in Coupon : notified'[c] \in Nat /\ notified'[c] <= notified[c] + 1
        BY <1>3, <1>11 DEF Commit
    <2> QED BY <1>9, <2>1, <2>2, <2>3
<1>12. CASE ExpireStale \/ Tick \/ UNCHANGED vars
    <2>1. Running' = Running
        BY <1>12 DEF Running, Busy, ExpireStale, Tick, vars
    <2> QED BY <1>5, <1>12, <2>1 DEF ExpireStale, Tick, vars, tables
<1> QED BY <1>1, <1>4, <1>6, <1>7, <1>8, <1>10, <1>11, <1>12, Steps DEF Kinds

(* What a transaction has read and written so far is left alone by the     *)
(* others, and by its own steps other than a write.                        *)
Keeps(s) ==
    Busy(s)' => /\ Busy(s)
                /\ job'[s].snap = job[s].snap /\ job'[s].mine = job[s].mine
                /\ job'[s].op = job[s].op
                /\ job[s].done => job'[s].done

LEMMA SameKeeps ==
    ASSUME NEW s \in Slot, job'[s] = job[s]
    PROVE  Keeps(s)
BY DEF Keeps, Busy

LEMMA MostStepsKeep ==
    ASSUME TypeOK, NEW s \in Slot,
           \/ \E t \in Slot \ {s}, op \in {"batch", "request"} : Open(t, op)
           \/ \E t \in Slot \ {s}, c \in Coupon, object \in Row : Write(t, c, object)
           \/ \E t \in Slot, C \in SUBSET Coupon : Republish(t, C)
           \/ \E t \in Slot : Abort(t)
           \/ \E t \in Slot : Busy(t) /\ ~job[t].done /\ Match(t)
           \/ \E t \in Slot : Commit(t)
           \/ ExpireStale
           \/ Tick
           \/ UNCHANGED vars
    PROVE  Keeps(s)
<1>1. ASSUME NEW t \in Slot \ {s}, NEW op \in {"batch", "request"}, Open(t, op) PROVE Keeps(s)
    BY <1>1, OpenWorks, SameKeeps
<1>2. ASSUME NEW t \in Slot \ {s}, NEW c \in Coupon, NEW object \in Row, Write(t, c, object)
      PROVE  Keeps(s)
    BY <1>2, WriteWorks, SameKeeps
<1>3. ASSUME NEW t \in Slot, NEW C \in SUBSET Coupon, Republish(t, C) PROVE Keeps(s)
    <2>1. CASE t = s
        <3>1. job[s] \in Job /\ job'[s] = [job[s] EXCEPT !.done = TRUE, !.pushed = C] /\ Busy(s)
            BY <1>3, <2>1, RepublishWorks, Carries
        <3> QED BY <3>1 DEF Keeps, Job
    <2> QED BY <1>3, <2>1, RepublishWorks, SameKeeps
<1>4. ASSUME NEW t \in Slot, Abort(t) PROVE Keeps(s)
    <2>1. CASE s # t /\ Busy(s)
        <3>1. job[s] \in Job
            BY <2>1, Carries
        <3>2. job'[s] = [job[s] EXCEPT !.since = job'[s].since, !.notYet = job'[s].notYet]
            BY <1>4, <2>1, RollBackWorks
        <3> QED BY <2>1, <3>1, <3>2 DEF Keeps, Job
    <2>2. CASE s = t \/ ~Busy(s)
        <3>1. job'[s] = Idle
            BY <1>4, <2>2, RollBackWorks
        <3> QED BY <3>1 DEF Keeps, Busy
    <2> QED BY <2>1, <2>2
<1>5. ASSUME NEW t \in Slot, Busy(t), Match(t) PROVE Keeps(s)
    <2>1. CASE t = s
        <3>1. PICK told : job'[s] = [job[s] EXCEPT !.done = TRUE, !.told = told, !.notYet = job'[s].notYet]
            BY <1>5, <2>1, MatchWorks
        <3>2. job[s] \in Job
            BY <1>5, <2>1, Carries
        <3> QED BY <1>5, <2>1, <3>1, <3>2 DEF Keeps, Job
    <2> QED BY <1>5, <2>1, MatchWorks, SameKeeps
<1>6. ASSUME NEW t \in Slot, Commit(t) PROVE Keeps(s)
    <2>1. CASE s # t /\ Busy(s)
        <3>1. job[s] \in Job
            BY <2>1, Carries
        <3>2. job'[s] = [job[s] EXCEPT !.crossed = job'[s].crossed]
            BY <1>6, <2>1, CommitWorks
        <3> QED BY <2>1, <3>1, <3>2 DEF Keeps, Job
    <2>2. CASE s = t \/ ~Busy(s)
        <3>1. job'[s] = Idle
            BY <1>6, <2>2, CommitWorks
        <3> QED BY <3>1 DEF Keeps, Busy
    <2> QED BY <2>1, <2>2
<1>7. CASE ExpireStale \/ Tick \/ UNCHANGED vars
    BY <1>7, SameKeeps DEF ExpireStale, Tick, vars
<1> QED BY <1>1, <1>2, <1>3, <1>4, <1>5, <1>6, <1>7

LEMMA BaseStep ==
    ASSUME Base, [Next]_vars
    PROVE  Base'
<1>1. TypeOK /\ Typed'
    BY PayStep, TypeStep DEF Base, Typed
<1>2. \A s \in Slot, c \in Coupon : Keeps(s) /\ Touches(s, c)' => Touches(s, c)
    BY DEF Keeps, Touches
<1>3. Exclusive'
    <2> SUFFICES ASSUME NEW r \in Slot, NEW s \in Slot, NEW c \in Coupon,
                        Touches(r, c)', Touches(s, c)', r # s
                 PROVE  FALSE
        BY DEF Exclusive
    <2>1. CASE \E t \in {r, s}, d \in Coupon, object \in Row : Write(t, d, object)
        <3>1. PICK t \in {r, s}, d \in Coupon, object \in Row : Write(t, d, object)
            BY <2>1
        <3> DEFINE o == IF t = r THEN s ELSE r
        <3>2. o \in Slot /\ o # t /\ Touches(o, c)' /\ Touches(t, c)' /\ t \in Slot
            OBVIOUS
        <3>3. Touches(o, c)
            BY <1>1, <1>2, <3>1, <3>2, MostStepsKeep
        <3>4. ~Touches(t, c)
            BY <3>2, <3>3 DEF Base, Exclusive
        <3>5. c = d
            <4>1. /\ Busy(t) /\ job'[t].mine = [e \in Coupon |-> IF e = d THEN object ELSE job[t].mine[e]]
                BY <1>1, <3>1, <3>2, WriteWorks
            <4> QED BY <3>2, <3>4, <4>1 DEF Touches
        <3>6. ~LockedByOther(t, d)
            BY <1>1, <3>1, <3>2, WriteWorks
        <3> QED BY <3>2, <3>3, <3>5, <3>6 DEF LockedByOther, Touches
    <2>2. CASE \E t \in {r, s}, op \in {"batch", "request"} : Open(t, op)
        BY <1>1, <2>2, OpenWorks DEF Touches
    <2>3. CASE Keeps(r) /\ Keeps(s)
        BY <1>2, <2>3 DEF Base, Exclusive
    <2> QED BY <1>1, <2>1, <2>2, <2>3, Steps, MostStepsKeep DEF Kinds, Base
<1>4. RequestsWriteOnce'
    <2> SUFFICES ASSUME NEW s \in Slot, NEW c \in Coupon, Touches(s, c)'
                 PROVE  job'[s].op = "batch" \/ job'[s].done
        BY DEF RequestsWriteOnce
    <2>1. CASE Keeps(s)
        BY <1>2, <2>1 DEF Base, RequestsWriteOnce, Keeps, Touches
    <2>2. CASE \E op \in {"batch", "request"} : Open(s, op)
        BY <1>1, <2>2, OpenWorks DEF Touches
    <2>3. CASE \E d \in Coupon, object \in Row : Write(s, d, object)
        <3>1. PICK d \in Coupon, object \in Row : Write(s, d, object)
            BY <2>3
        <3>2. job'[s].op = job[s].op /\ (job[s].op = "batch" \/ job'[s].done)
            BY <1>1, <3>1, WriteWorks
        <3> QED BY <3>2
    <2> QED BY <1>1, <2>1, <2>2, <2>3, Steps, MostStepsKeep DEF Kinds, Base
<1>5. RowsStay'
    <2> SUFFICES ASSUME NEW s \in Slot, NEW c \in Coupon, Busy(s)', row'[c] = Absent
                 PROVE  job'[s].snap[c] = Absent
        BY DEF RowsStay
    <2>1. row[c] = Absent
        <3>1. CASE \E t \in Slot : Commit(t)
            BY <1>1, <3>1, CommittedRows, NotARow DEF Base
        <3>2. CASE ExpireStale
            <4>1. row[c] \in Row \cup {Absent}
                BY <1>1 DEF TypeOK
            <4>2. Stale(c) => [row[c] EXCEPT !.status = "expired"] # Absent
                BY <4>1 DEF Stale, Absent, Row
            <4> QED BY <3>2, <4>2 DEF ExpireStale
        <3>3. CASE UNCHANGED row
            BY <3>3
        <3>4. ASSUME NEW t \in Slot, NEW d \in Coupon, NEW object \in Row, Write(t, d, object)
              PROVE  UNCHANGED row
            BY <1>1, <3>4, WriteWorks
        <3>5. ASSUME \/ \E t \in Slot, op \in {"batch", "request"} : Open(t, op)
                     \/ \E t \in Slot, C \in SUBSET Coupon : Republish(t, C)
                     \/ \E t \in Slot : Abort(t) \/ Match(t)
                     \/ Tick \/ UNCHANGED vars
              PROVE  UNCHANGED row
            BY <3>5 DEF Open, Republish, PushUnlocked, Abort, RollBack, Match, Tick, vars, tables
        <3> QED BY <1>1, <3>1, <3>2, <3>3, <3>4, <3>5, Steps DEF Kinds, Base
    <2>2. CASE Keeps(s)
        BY <2>1, <2>2 DEF Base, RowsStay, Keeps
    <2>3. CASE \E op \in {"batch", "request"} : Open(s, op)
        BY <1>1, <2>1, <2>3, OpenWorks
    <2>4. CASE \E d \in Coupon, object \in Row : Write(s, d, object)
        <3>1. job'[s].snap = job[s].snap /\ Busy(s)
            BY <1>1, <2>4, WriteWorks
        <3> QED BY <2>1, <3>1 DEF Base, RowsStay
    <2> QED BY <1>1, <2>2, <2>3, <2>4, Steps, MostStepsKeep DEF Kinds, Base
<1> QED BY <1>1, <1>3, <1>4, <1>5 DEF Base

LEMMA BaseInit ==
    Init => Base
<1> SUFFICES ASSUME Init PROVE Base
    OBVIOUS
<1>1. \A s \in Slot : ~Busy(s)
    BY DEF Init, Busy
<1>2. TypeOK
    <2>1. 0 \in 0 .. MaxOpened /\ 0 \in 0 .. LastTime
        BY CatalogAssumption
    <2>2. /\ row \in [Coupon -> Row \cup {Absent}] /\ doc \in [Coupon -> {NoDoc} \cup Expiry]
          /\ notified \in [Coupon -> 0 .. MaxOpened] /\ job \in [Slot -> {Idle} \cup Job]
        BY <2>1 DEF Init
    <2> QED BY <2>1, <2>2 DEF Init, TypeOK
<1>3. Running = {}
    BY <1>1 DEF Running
<1>4. EachPaysForItself
    BY <1>3, FS_EmptySet DEF Init, EachPaysForItself
<1> QED
    BY <1>1, <1>2, <1>4 DEF Base, Typed, Exclusive, RequestsWriteOnce, RowsStay, Touches

(* Type correctness of Catalog: rows, documents, transactions and the      *)
(* number of notifications keep their types.  The code is store_coupon,    *)
(* the coupon service, the indexing service and run_alert_matching.        *)
THEOREM CatalogTypes == Spec => []TypeOK
<1>1. Base => TypeOK
    BY DEF Base, Typed
<1> QED BY <1>1, BaseInit, BaseStep, PTL DEF Spec

(* A transaction that found a coupon active cannot make it active again    *)
(* when it was rejected or expired meanwhile: the UPDATE of a flush names  *)
(* only the columns that changed.  It is the commit of any of the writers  *)
(* of coupons.                                                             *)
THEOREM NothingIsRevived == Spec => ConfirmationRevivesNothing
<1>1. ASSUME NEW s \in Slot, NEW c \in Coupon, Commit(s),
             row[c].status \in {"revoked", "expired"}, row'[c].status = "active"
      PROVE  job[s].snap[c].status # "active"
    <2>1. job[s].mine[c] # Untouched /\ row'[c] = Merged(s, c, job[s].mine[c])
        BY <1>1 DEF Commit
    <2>2. CASE job[s].snap[c] = Absent
        BY <2>2 DEF Absent
    <2>3. CASE job[s].snap[c] # Absent
        BY <1>1, <2>1, <2>3 DEF Merged
    <2> QED BY <2>2, <2>3
<1>2. [\A s \in Slot, c \in Coupon :
          Commit(s) /\ row[c].status \in {"revoked", "expired"} /\ row'[c].status = "active"
          => job[s].snap[c].status # "active"]_vars
    BY <1>1
<1> QED BY <1>2, PTL DEF ConfirmationRevivesNothing

----------------------------------------------------------------------------
(* Deal alerts.  Most steps are no business of theirs. *)
Quiet ==
    /\ UNCHANGED <<fresh, notified, excused, overlap>>
    /\ \A c \in Coupon : row'[c] = Absent => row[c] = Absent
    /\ \A s \in Slot :
         /\ Busy(s)' <=> Busy(s)
         /\ Busy(s) =>
              /\ job'[s].since = job[s].since /\ job'[s].told = job[s].told
              /\ job'[s].notYet = job[s].notYet /\ job'[s].snap = job[s].snap
              /\ job'[s].crossed <=> job[s].crossed
              /\ \A c \in Coupon : job[s].mine[c] # Untouched => job'[s].mine[c] # Untouched

LEMMA QuietSteps ==
    ASSUME Base,
           \/ \E s \in Slot, c \in Coupon, object \in Row : Write(s, c, object)
           \/ \E s \in Slot, C \in SUBSET Coupon : Republish(s, C)
           \/ ExpireStale \/ Tick \/ UNCHANGED vars
    PROVE  Quiet
<1>1. TypeOK
    BY DEF Base, Typed
<1>2. ASSUME NEW s \in Slot, NEW c \in Coupon, NEW object \in Row, Write(s, c, object)
      PROVE  Quiet
    <2>1. \A r \in Slot \ {s} : job'[r] = job[r]
        BY <1>1, <1>2, WriteWorks
    <2>2. /\ Busy(s) /\ Busy(s)' /\ job'[s].snap = job[s].snap
          /\ job'[s].since = job[s].since /\ job'[s].told = job[s].told
          /\ job'[s].notYet = job[s].notYet /\ (job'[s].crossed <=> job[s].crossed)
        BY <1>1, <1>2, WriteWorks
    <2>3. job'[s].mine = [d \in Coupon |-> IF d = c THEN object ELSE job[s].mine[d]]
        BY <1>1, <1>2, WriteWorks
    <2>4. UNCHANGED <<row, fresh, notified, excused, overlap>>
        BY <1>1, <1>2, WriteWorks
    <2>5. \A d \in Coupon : job[s].mine[d] # Untouched => job'[s].mine[d] # Untouched
        BY <2>3, NotARow
    <2>6. \A r \in Slot \ {s} : Busy(r)' <=> Busy(r)
        BY <2>1 DEF Busy
    <2> QED BY <2>1, <2>2, <2>4, <2>5, <2>6 DEF Quiet
<1>3. ASSUME NEW s \in Slot, NEW C \in SUBSET Coupon, Republish(s, C) PROVE Quiet
    <2>1. /\ \A r \in Slot \ {s} : job'[r] = job[r]
          /\ Busy(s) /\ Busy(s)' /\ job[s] \in Job
          /\ job'[s] = [job[s] EXCEPT !.done = TRUE, !.pushed = C]
        BY <1>1, <1>3, RepublishWorks, Carries
    <2>2. UNCHANGED <<row, fresh, notified, excused, overlap>>
        BY <1>3 DEF Republish, PushUnlocked, tables
    <2>3. /\ job'[s].since = job[s].since /\ job'[s].told = job[s].told
          /\ job'[s].notYet = job[s].notYet /\ job'[s].snap = job[s].snap
          /\ job'[s].crossed = job[s].crossed /\ job'[s].mine = job[s].mine
        BY <2>1 DEF Job
    <2> QED BY <2>1, <2>2, <2>3 DEF Quiet, Busy
<1>4. CASE ExpireStale
    <2>1. \A c \in Coupon : row[c] = Absent => ~Stale(c)
        BY DEF Stale, Absent
    <2>2. \A c \in Coupon : row'[c] = Absent => row[c] = Absent
        <3> SUFFICES ASSUME NEW c \in Coupon, row[c] # Absent PROVE row'[c] # Absent
            OBVIOUS
        <3>1. row[c] \in Row
            BY <1>1 DEF TypeOK
        <3>2. [row[c] EXCEPT !.status = "expired"] # Absent
            BY <3>1 DEF Absent, Row
        <3> QED BY <1>4, <3>2 DEF ExpireStale
    <2> QED BY <1>4, <2>2 DEF Quiet, ExpireStale, Busy
<1>5. CASE Tick \/ UNCHANGED vars
    BY <1>5 DEF Quiet, Tick, vars, tables, Busy
<1> QED BY <1>2, <1>3, <1>4, <1>5

LEMMA AlertQuiet ==
    ASSUME AlertInv, Base', Quiet
    PROVE  AlertInv'
<1>1. ToldExist' /\ ToldNews' /\ LaterIsNotNow'
    BY DEF AlertInv, Quiet, ToldExist, ToldNews, LaterIsNotNow
<1>2. UnbornUntold'
    BY DEF AlertInv, Quiet, UnbornUntold
<1>3. ~overlap' => RunsSeeNews' /\ FreshIsUntold'
    BY DEF AlertInv, Quiet, RunsSeeNews, FreshIsUntold
<1> QED BY <1>1, <1>2, <1>3 DEF AlertInv

LEMMA SettledQuiet ==
    ASSUME SettledInv, Base', Quiet
    PROVE  SettledInv'
BY DEF SettledInv, Quiet, Settled

(* Those that a run tells are there, and are not among those left for the  *)
(* next run.                                                               *)
LEMMA ToldAreCreated ==
    ASSUME Base, NEW s \in Slot, Busy(s), NEW c \in Coupon,
           job[s].snap[c] # Absent \/ job[s].mine[c] # Untouched
    PROVE  Created(c)
BY DEF Base, RowsStay, Created

LEMMA AlertOpen ==
    ASSUME AlertInv, Base', NEW s \in Slot, NEW op \in {"batch", "request"}, Open(s, op)
    PROVE  AlertInv'
<1>1. TypeOK
    BY DEF AlertInv, Base, Typed
<1>2. /\ job'[s] = [op |-> op, done |-> FALSE, snap |-> row, since |-> fresh,
                    mine |-> [c \in Coupon |-> Untouched],
                    pushed |-> {}, told |-> {}, notYet |-> {}, crossed |-> FALSE]
      /\ \A r \in Slot \ {s} : job'[r] = job[r]
    BY <1>1, OpenWorks
<1>3. UNCHANGED <<row, fresh, notified, overlap>>
    BY DEF Open, tables
<1>4. job'[s].told = {} /\ job'[s].notYet = {} /\ job'[s].since = fresh
    BY <1>2
<1>5. ToldExist' /\ ToldNews' /\ LaterIsNotNow'
    BY <1>2, <1>4 DEF AlertInv, ToldExist, ToldNews, LaterIsNotNow, Busy
<1>6. ~overlap => RunsSeeNews' /\ FreshIsUntold'
    BY <1>2, <1>3, <1>4 DEF AlertInv, RunsSeeNews, FreshIsUntold, Busy
<1> QED BY <1>3, <1>5, <1>6 DEF AlertInv, UnbornUntold

LEMMA AlertMatch ==
    ASSUME AlertInv, Base', NEW s \in Slot, Busy(s), Match(s)
    PROVE  AlertInv'
<1>1. TypeOK /\ Base
    BY DEF AlertInv, Base, Typed
<1>2. PICK told \in SUBSET Candidates(s) :
         /\ job'[s] = [job[s] EXCEPT !.done = TRUE, !.told = told, !.notYet = job'[s].notYet]
         /\ job'[s].notYet = IF told = {} THEN {} ELSE {c \in Coupon : ~Created(c)}
    BY <1>1, MatchWorks, ZenonT(60)
<1>3. /\ job[s] \in Job /\ Busy(s)'
      /\ \A r \in Slot \ {s} : job'[r] = job[r]
    BY <1>1, MatchWorks, Carries
<1>4. /\ job'[s].told = told /\ job'[s].since = job[s].since /\ job'[s].snap = job[s].snap
      /\ job'[s].mine = job[s].mine /\ (job'[s].crossed <=> job[s].crossed)
    BY <1>2, <1>3 DEF Job
<1>5. UNCHANGED <<row, fresh, notified, overlap>>
    BY DEF Match, tables
<1>6. \A c \in told : job[s].snap[c] # Absent \/ job[s].mine[c] # Untouched
    BY DEF Candidates, Object, Absent, Untouched
<1>7. told \subseteq job[s].since /\ told \subseteq Coupon
    BY <1>3 DEF Candidates, Job
<1>8. ToldExist'
    BY <1>3, <1>4, <1>6 DEF AlertInv, ToldExist, Busy
<1>9. ToldNews'
    BY <1>3, <1>4, <1>7 DEF AlertInv, ToldNews, Busy
<1>10. job'[s].notYet \cap told = {}
    BY <1>1, <1>2, <1>6, <1>7, ToldAreCreated
<1>11. LaterIsNotNow'
    BY <1>3, <1>4, <1>10 DEF AlertInv, LaterIsNotNow, Busy
<1>12. \A c \in job'[s].notYet : c \in Coupon /\ notified[c] = 0
    BY <1>2 DEF AlertInv, UnbornUntold, Created
<1>13. ~overlap => RunsSeeNews'
    BY <1>3, <1>4, <1>5, <1>12 DEF AlertInv, RunsSeeNews, Busy
<1> QED BY <1>5, <1>8, <1>9, <1>11, <1>13 DEF AlertInv, UnbornUntold, FreshIsUntold

LEMMA AlertAbort ==
    ASSUME AlertInv, Base', NEW s \in Slot, Abort(s)
    PROVE  AlertInv'
<1>1. TypeOK /\ Base /\ Busy(s) /\ job'[s] = Idle
    BY RollBackWorks DEF AlertInv, Base, Typed
<1>2. \A c \in Unborn(s) : c \in Coupon /\ row[c] = Absent /\ notified[c] = 0 /\ Touches(s, c)
    BY <1>1, SMTT(40) DEF Unborn, Touches, AlertInv, UnbornUntold
<1>3. ASSUME NEW r \in Slot, Busy(r)'
      PROVE  /\ r # s /\ Busy(r) /\ job[r] \in Job
             /\ job'[r].told = job[r].told /\ job'[r].snap = job[r].snap
             /\ job'[r].mine = job[r].mine /\ (job'[r].crossed <=> job[r].crossed)
             /\ job'[r].since = job[r].since \cup Unborn(s)
             /\ job'[r].notYet = IF job[r].told = {} THEN job[r].notYet
                                 ELSE job[r].notYet \cup Unborn(s)
    <2>1. r # s /\ Busy(r)
        BY <1>1, <1>3, RollBackWorks DEF Busy
    <2>2. job[r] \in Job
        BY <1>1, <2>1, Carries
    <2>3. job'[r] = [job[r] EXCEPT !.since = job'[r].since, !.notYet = job'[r].notYet]
        BY <1>1, <2>1, RollBackWorks
    <2>4. /\ job'[r].told = job[r].told /\ job'[r].snap = job[r].snap
          /\ job'[r].mine = job[r].mine /\ (job'[r].crossed <=> job[r].crossed)
        BY <2>2, <2>3 DEF Job
    <2> QED BY <1>1, <2>1, <2>2, <2>4, RollBackWorks
<1>4. UNCHANGED <<row, notified, overlap>> /\ fresh' = fresh \cup Unborn(s)
    BY DEF Abort, RollBack
<1>5. ToldExist'
    <2> SUFFICES ASSUME NEW r \in Slot, NEW c \in Coupon, Busy(r)', c \in job'[r].told
                 PROVE  job'[r].snap[c] # Absent \/ job'[r].mine[c] # Untouched
        BY DEF ToldExist
    <2>1. /\ Busy(r) /\ c \in job[r].told
          /\ job'[r].snap = job[r].snap /\ job'[r].mine = job[r].mine
        BY <1>3
    <2> QED BY <2>1 DEF AlertInv, ToldExist
<1>6. ToldNews'
    BY <1>3 DEF AlertInv, ToldNews
<1>7. LaterIsNotNow'
    <2> SUFFICES ASSUME NEW r \in Slot, Busy(r)' PROVE job'[r].notYet \cap job'[r].told = {}
        BY DEF LaterIsNotNow
    <2>1. \A c \in Unborn(s) : c \notin job[r].told
        <3> SUFFICES ASSUME NEW c \in Unborn(s), c \in job[r].told PROVE FALSE
            OBVIOUS
        <3>1. job[r].snap[c] = Absent
            BY <1>1, <1>2, <1>3 DEF Base, RowsStay
        <3>2. job[r].mine[c] # Untouched
            BY <1>2, <1>3, <3>1 DEF AlertInv, ToldExist
        <3> QED BY <1>1, <1>2, <1>3, <3>2 DEF Base, Exclusive, Touches
    <2>2. job[r].notYet \cap job[r].told = {}
        BY <1>3 DEF AlertInv, LaterIsNotNow
    <2> QED BY <1>3, <2>1, <2>2
<1>8. ~overlap => RunsSeeNews'
    <2> SUFFICES ASSUME ~overlap, NEW r \in Slot, NEW c \in Coupon, Busy(r)', ~job'[r].crossed,
                        c \in job'[r].since \cup job'[r].notYet
                 PROVE  notified[c] = 0
        BY <1>4 DEF RunsSeeNews
    <2> QED BY <1>2, <1>3 DEF AlertInv, RunsSeeNews
<1>9. ~overlap => FreshIsUntold'
    BY <1>2, <1>4 DEF AlertInv, FreshIsUntold
<1> QED BY <1>4, <1>5, <1>6, <1>7, <1>8, <1>9 DEF AlertInv, UnbornUntold

LEMMA AlertCommit ==
    ASSUME AlertInv, Base', NEW s \in Slot, Commit(s)
    PROVE  AlertInv'
<1>1. TypeOK /\ Base /\ RowsStay /\ Busy(s) /\ job'[s] = Idle /\ job[s] \in Job
    BY CommitWorks, Carries DEF AlertInv, Base, Typed
<1>2. ASSUME NEW r \in Slot, Busy(r)'
      PROVE  /\ r # s /\ Busy(r)
             /\ job'[r].told = job[r].told /\ job'[r].snap = job[r].snap
             /\ job'[r].mine = job[r].mine /\ job'[r].since = job[r].since
             /\ job'[r].notYet = job[r].notYet
             /\ ~job'[r].crossed => ~job[r].crossed /\ job[s].told = {}
    <2>1. r # s /\ Busy(r)
        BY <1>1, <1>2, CommitWorks DEF Busy
    <2>2. job[r] \in Job
        BY <1>1, <2>1, Carries
    <2>3. job'[r] = [job[r] EXCEPT !.crossed = job'[r].crossed]
        BY <1>1, <2>1, CommitWorks
    <2>4. /\ job'[r].told = job[r].told /\ job'[r].snap = job[r].snap
          /\ job'[r].mine = job[r].mine /\ job'[r].since = job[r].since
          /\ job'[r].notYet = job[r].notYet
        BY <2>2, <2>3 DEF Job
    <2>5. ~job'[r].crossed => ~job[r].crossed /\ job[s].told = {}
        BY <1>1, <2>1, CommitWorks
    <2> QED BY <2>1, <2>4, <2>5
<1>3. \A c \in Coupon : notified'[c] = IF c \in job[s].told THEN notified[c] + 1 ELSE notified[c]
    BY DEF Commit
<1>4. \A c \in Coupon : notified[c] \in Nat
    BY <1>1 DEF Base, Typed, EachPaysForItself
<1>5. ToldExist' /\ ToldNews' /\ LaterIsNotNow'
    BY <1>2 DEF AlertInv, ToldExist, ToldNews, LaterIsNotNow
<1>6. UnbornUntold'
    <2> SUFFICES ASSUME NEW c \in Coupon, row'[c] = Absent PROVE notified'[c] = 0
        BY DEF UnbornUntold
    <2>1. row[c] = Absent /\ ~Touches(s, c)
        BY <1>1, CommittedRows, NotARow
    <2>2. job[s].snap[c] = Absent
        BY <1>1, <2>1 DEF RowsStay
    <2>3. c \notin job[s].told
        BY <1>1, <2>1, <2>2 DEF AlertInv, ToldExist, Touches
    <2> QED BY <1>3, <2>1, <2>3 DEF AlertInv, UnbornUntold
<1>7. ~overlap' => ~overlap /\ (job[s].told # {} => ~job[s].crossed)
    BY DEF Commit
<1>8. ~overlap' => RunsSeeNews'
    <2> SUFFICES ASSUME ~overlap', NEW r \in Slot, NEW c \in Coupon, Busy(r)', ~job'[r].crossed,
                        c \in job'[r].since \cup job'[r].notYet
                 PROVE  notified'[c] = 0
        BY DEF RunsSeeNews
    <2>1. ~job[r].crossed /\ job[s].told = {} /\ Busy(r) /\ c \in job[r].since \cup job[r].notYet
        BY <1>2
    <2>2. notified[c] = 0
        BY <1>7, <2>1 DEF AlertInv, RunsSeeNews
    <2> QED BY <1>3, <2>1, <2>2
<1>9. ~overlap' => FreshIsUntold'
    <2> SUFFICES ASSUME ~overlap', NEW c \in Coupon
                 PROVE  notified'[c] <= 1 /\ (c \in fresh' => notified'[c] = 0)
        BY DEF FreshIsUntold
    <2>1. notified[c] <= 1 /\ (c \in fresh => notified[c] = 0)
        BY <1>7 DEF AlertInv, FreshIsUntold
    <2>2. CASE job[s].told = {}
        <3>1. fresh' = fresh /\ notified'[c] = notified[c]
            BY <1>3, <2>2 DEF Commit, LastFired
        <3> QED BY <2>1, <3>1
    <2>3. CASE job[s].told # {}
        <3>1. fresh' = job[s].notYet /\ ~job[s].crossed
            BY <1>7, <2>3 DEF Commit, LastFired
        <3>2. c \in job[s].told => notified[c] = 0
            BY <1>1, <1>7, <3>1 DEF AlertInv, ToldNews, RunsSeeNews
        <3>3. c \in job[s].notYet => notified[c] = 0 /\ c \notin job[s].told
            BY <1>1, <1>7, <3>1 DEF AlertInv, RunsSeeNews, LaterIsNotNow
        <3> QED BY <1>3, <1>4, <2>1, <3>1, <3>2, <3>3
    <2> QED BY <2>2, <2>3
<1> QED BY <1>5, <1>6, <1>8, <1>9 DEF AlertInv

(* "a coupon notifies at most once per alert": whatever ends, crosses or   *)
(* is rolled back, unless a run of an alert began before another one       *)
(* committed.  The code is run_alert_matching of alerts_service.py.        *)
THEOREM AlertsNotifyOnce == Spec => []NotifiedOnce
<1>1. Init => AlertInv
    <2> SUFFICES ASSUME Init PROVE AlertInv
        OBVIOUS
    <2>1. Base /\ (\A s \in Slot : ~Busy(s)) /\ \A c \in Coupon : notified[c] = 0
        BY BaseInit DEF Init, Busy
    <2> QED BY <2>1 DEF AlertInv, ToldExist, ToldNews, UnbornUntold, LaterIsNotNow, RunsSeeNews,
                        FreshIsUntold
<1>2. AlertInv /\ [Next]_vars => AlertInv'
    <2> SUFFICES ASSUME AlertInv, [Next]_vars PROVE AlertInv'
        OBVIOUS
    <2>1. Base /\ Base' /\ TypeOK /\ RequestsWriteOnce
        BY BaseStep DEF AlertInv, Base, Typed
    <2> QED BY <2>1, Steps, QuietSteps, AlertQuiet, AlertOpen, AlertMatch, AlertAbort, AlertCommit
            DEF Kinds
<1>3. AlertInv => NotifiedOnce
    BY DEF AlertInv, FreshIsUntold, NotifiedOnce
<1> QED BY <1>1, <1>2, <1>3, PTL DEF Spec

----------------------------------------------------------------------------
(* Nobody is forgotten. *)
LEMMA SettledOpen ==
    ASSUME SettledInv, Base', NEW s \in Slot, NEW op \in {"batch", "request"}, Open(s, op)
    PROVE  SettledInv'
<1>1. TypeOK
    BY DEF SettledInv, Base, Typed
<1>2. /\ job'[s] = [op |-> op, done |-> FALSE, snap |-> row, since |-> fresh,
                    mine |-> [c \in Coupon |-> Untouched],
                    pushed |-> {}, told |-> {}, notYet |-> {}, crossed |-> FALSE]
      /\ \A r \in Slot \ {s} : job'[r] = job[r]
    BY <1>1, OpenWorks
<1>3. job'[s].told = {} /\ job'[s].since = fresh
    BY <1>2
<1>4. UNCHANGED <<fresh, notified, excused>>
    BY DEF Open, tables
<1> QED BY <1>2, <1>3, <1>4 DEF SettledInv, Settled, Busy

LEMMA SettledMatch ==
    ASSUME SettledInv, Base', NEW s \in Slot, Busy(s), Match(s)
    PROVE  SettledInv'
<1>1. TypeOK
    BY DEF SettledInv, Base, Typed
<1>2. PICK told \in SUBSET Candidates(s) :
         /\ job'[s] = [job[s] EXCEPT !.done = TRUE, !.told = told, !.notYet = job'[s].notYet]
         /\ job'[s].notYet = IF told = {} THEN {} ELSE {c \in Coupon : ~Created(c)}
         /\ excused' = IF told = {} THEN excused
                       ELSE excused \cup {c \in Coupon : Created(c) /\ LeftOut(s, c, told)}
    BY <1>1, MatchWorks
<1>3. /\ job[s] \in Job
      /\ \A r \in Slot \ {s} : job'[r] = job[r]
    BY <1>1, MatchWorks, Carries
<1>4. job'[s].told = told /\ job'[s].since = job[s].since
    BY <1>2, <1>3 DEF Job
<1>5. UNCHANGED <<fresh, notified>>
    BY DEF Match, tables
<1>6. \A c \in Coupon : Settled(c) => Settled(c)'
    BY <1>2, <1>5 DEF Settled
<1>7. ASSUME NEW c \in Coupon, told # {}
      PROVE  c \in job'[s].notYet \cup told \/ Settled(c)'
    <2>1. CASE ~Created(c)
        BY <1>2, <1>7, <2>1
    <2>2. CASE Created(c) /\ LeftOut(s, c, told)
        BY <1>2, <1>7, <2>2 DEF Settled
    <2>3. CASE Created(c) /\ ~LeftOut(s, c, told)
        <3>1. c \in told \/ c \notin job[s].since
            BY <2>3 DEF LeftOut, Candidates
        <3> QED BY <1>6, <3>1 DEF SettledInv
    <2> QED BY <2>1, <2>2, <2>3
<1>8. ASSUME NEW r \in Slot, NEW c \in Coupon, Busy(r)'
      PROVE  /\ c \in job'[r].since \/ Settled(c)'
             /\ job'[r].told # {} => c \in job'[r].notYet \cup job'[r].told \/ Settled(c)'
    <2>1. CASE r = s
        BY <1>4, <1>6, <1>7, <2>1 DEF SettledInv
    <2>2. CASE r # s
        BY <1>3, <1>6, <1>8, <2>2 DEF SettledInv, Busy
    <2> QED BY <2>1, <2>2
<1> QED BY <1>5, <1>6, <1>8 DEF SettledInv

LEMMA SettledAbort ==
    ASSUME SettledInv, Base', NEW s \in Slot, Abort(s)
    PROVE  SettledInv'
<1>1. TypeOK /\ job'[s] = Idle
    BY RollBackWorks DEF SettledInv, Base, Typed
<1>2. UNCHANGED <<notified, excused>> /\ fresh' = fresh \cup Unborn(s)
    BY DEF Abort, RollBack
<1>3. ASSUME NEW r \in Slot, NEW c \in Coupon, Busy(r)'
      PROVE  /\ c \in job'[r].since \/ Settled(c)
             /\ job'[r].told # {} => c \in job'[r].notYet \cup job'[r].told \/ Settled(c)
    <2>1. r # s /\ Busy(r)
        BY <1>1, <1>3, RollBackWorks DEF Busy
    <2>2. job[r] \in Job
        BY <1>1, <2>1, Carries
    <2>3. /\ job'[r] = [job[r] EXCEPT !.since = job'[r].since, !.notYet = job'[r].notYet]
          /\ job'[r].since = job[r].since \cup Unborn(s)
          /\ job'[r].notYet = IF job[r].told = {} THEN job[r].notYet ELSE job[r].notYet \cup Unborn(s)
        BY <1>1, <2>1, RollBackWorks
    <2>4. job'[r].told = job[r].told
        BY <2>2, <2>3 DEF Job
    <2> QED BY <2>1, <2>3, <2>4 DEF SettledInv
<1> QED BY <1>2, <1>3 DEF SettledInv, Settled

LEMMA SettledCommit ==
    ASSUME SettledInv, Base', NEW s \in Slot, Commit(s)
    PROVE  SettledInv'
<1>1. TypeOK /\ Busy(s) /\ job'[s] = Idle
    BY CommitWorks DEF SettledInv, Base, Typed
<1>2. excused' = excused
      /\ \A c \in Coupon : notified'[c] = IF c \in job[s].told THEN notified[c] + 1 ELSE notified[c]
    BY DEF Commit
<1>3. \A c \in Coupon : notified[c] \in Nat
    BY DEF SettledInv, Base, Typed, EachPaysForItself
<1>4. \A c \in Coupon : Settled(c) \/ c \in job[s].told => Settled(c)'
    BY <1>2, <1>3 DEF Settled
<1>5. \A c \in Coupon : c \in fresh' \/ Settled(c)'
    <2>1. CASE job[s].told = {}
        BY <1>4, <2>1 DEF Commit, LastFired, SettledInv
    <2>2. CASE job[s].told # {}
        BY <1>1, <1>4, <2>2 DEF Commit, LastFired, SettledInv
    <2> QED BY <2>1, <2>2
<1>6. ASSUME NEW r \in Slot, NEW c \in Coupon, Busy(r)'
      PROVE  /\ c \in job'[r].since \/ Settled(c)'
             /\ job'[r].told # {} => c \in job'[r].notYet \cup job'[r].told \/ Settled(c)'
    <2>1. r # s /\ Busy(r)
        BY <1>1, <1>6, CommitWorks DEF Busy
    <2>2. job[r] \in Job /\ job'[r] = [job[r] EXCEPT !.crossed = job'[r].crossed]
        BY <1>1, <2>1, CommitWorks, Carries
    <2>3. /\ job'[r].told = job[r].told /\ job'[r].since = job[r].since
          /\ job'[r].notYet = job[r].notYet
        BY <2>2 DEF Job
    <2> QED BY <1>4, <2>1, <2>3 DEF SettledInv
<1> QED BY <1>5, <1>6 DEF SettledInv

(* No coupon is passed over without a reason: one that no later run will   *)
(* look at was in a notification, or was left out of a run for the cap,    *)
(* for its status, or because the run could not see it yet.  The code is   *)
(* run_alert_matching of alerts_service.py.                                *)
THEOREM NobodyIsForgotten == Spec => []LeftOutForAReason
<1>1. Init => SettledInv
    <2> SUFFICES ASSUME Init PROVE SettledInv
        OBVIOUS
    <2>1. Base /\ (\A s \in Slot : ~Busy(s)) /\ fresh = Coupon
        BY BaseInit DEF Init, Busy
    <2> QED BY <2>1 DEF SettledInv
<1>2. SettledInv /\ [Next]_vars => SettledInv'
    <2> SUFFICES ASSUME SettledInv, [Next]_vars PROVE SettledInv'
        OBVIOUS
    <2>1. Base /\ Base' /\ TypeOK /\ RequestsWriteOnce
        BY BaseStep DEF SettledInv, Base, Typed
    <2> QED BY <2>1, Steps, QuietSteps, SettledQuiet, SettledOpen, SettledMatch, SettledAbort,
               SettledCommit DEF Kinds
<1>3. SettledInv => LeftOutForAReason
    BY DEF SettledInv, Settled, LeftOutForAReason, Base, Typed, EachPaysForItself
<1> QED BY <1>1, <1>2, <1>3, PTL DEF Spec

----------------------------------------------------------------------------
(* The search index. *)
Unmoved(c) ==
    /\ doc'[c] = doc[c] /\ row'[c] = row[c] /\ now' >= now
    /\ \A s \in Slot :
         /\ Touches(s, c)' <=> Touches(s, c)
         /\ Touches(s, c) =>
              /\ job'[s].mine[c] = job[s].mine[c] /\ job'[s].snap[c] = job[s].snap[c]
              /\ c \in job[s].pushed => c \in job'[s].pushed

LEMMA ShowsStays ==
    ASSUME TypeOK, TypeOK', NEW c \in Coupon, NEW r \in Row \cup {Absent}, Shows(c, r),
           doc'[c] = doc[c], now' >= now
    PROVE  doc'[c] = Image(r) \/ (r.status = "expired" /\ doc'[c] = r.expires /\ r.expires <= now')
<1>1. now \in Nat /\ now' \in Nat /\ r.expires \in Nat
    <2>1. r.expires \in Nat
        BY Times
    <2> QED BY <2>1, CatalogAssumption DEF TypeOK
<1> QED BY <1>1 DEF Shows

LEMMA UnmovedStays ==
    ASSUME Base, Base', NEW c \in Coupon, Indexed(c), Unmoved(c)
    PROVE  Indexed(c)'
<1>1. TypeOK /\ TypeOK' /\ RowsStay /\ row[c] \in Row \cup {Absent}
    BY DEF Base, Typed, TypeOK
<1>2. Locked(c)' <=> Locked(c)
    BY DEF Unmoved, Locked, Touches
<1>3. Shows(c, row[c]) => Shows(c, row[c])'
    BY <1>1, ShowsStays DEF Unmoved, Shows
<1>4. ASSUME NEW s \in Slot, Touches(s, c)
      PROVE  Shows(c, Outcome(s, c))'
    <2>1. job[s].mine[c] \in Row
        BY <1>1, <1>4, Carries DEF Touches
    <2>2. Outcome(s, c) \in Row
        BY <1>1, <1>4, <2>1, MergedType DEF Outcome, Touches
    <2>3. Outcome(s, c)' = Outcome(s, c)
        BY <1>4 DEF Outcome, Merged, Unmoved
    <2>4. Shows(c, Outcome(s, c))
        BY <1>4 DEF Indexed
    <2> QED BY <1>1, <2>2, <2>3, <2>4, ShowsStays DEF Unmoved, Shows
<1> QED BY <1>2, <1>3, <1>4 DEF Indexed, Unmoved

(* A write, with a push and without one. *)
LEMMA WriteIndexed ==
    ASSUME IndexInv, Base', NEW s \in Slot, NEW c \in Coupon, NEW object \in Row,
           Write(s, c, object), c \notin suspect'
    PROVE  Indexed(c)'
<1>1. TypeOK /\ TypeOK' /\ RowsStay /\ row[c] \in Row \cup {Absent} /\ Base
    BY DEF IndexInv, Base, Typed, TypeOK
<1>2. /\ Busy(s) /\ Busy(s)' /\ job'[s].snap = job[s].snap
      /\ job'[s].mine = [d \in Coupon |-> IF d = c THEN object ELSE job[s].mine[d]]
      /\ \A r \in Slot \ {s} : job'[r] = job[r]
      /\ now' = now /\ row' = row /\ ~LockedByOther(s, c)
    BY <1>1, WriteWorks
<1>3. \/ job'[s].pushed = job[s].pushed \cup {c} /\ WritePushes(s, c, object)
      \/ job'[s].pushed = job[s].pushed /\ NotPushed(c, object)
    BY <1>1, WriteWorks
<1>4. \A r \in Slot : Touches(r, c)' <=> r = s
    BY <1>2, NotARow DEF Touches, LockedByOther, Busy
<1>5. ~Locked(c)
    BY <1>2 DEF Write, Locked, LockedByOther
<1>6. Outcome(s, c)' = Merged(s, c, object)
    BY <1>2 DEF Outcome, Merged
<1>7. Locked(c)'
    BY <1>4 DEF Locked, Touches
<1>8. CASE job'[s].pushed = job[s].pushed \cup {c} /\ WritePushes(s, c, object)
    <2>1. doc'[c] = Image(object) /\ Merged(s, c, object) = object
        BY <1>8 DEF WritePushes, Pushed, Clean
    <2> QED BY <1>4, <1>6, <1>7, <1>8, <2>1 DEF Indexed, Shows
<1>9. CASE job'[s].pushed = job[s].pushed /\ NotPushed(c, object)
    <2>1. doc' = doc /\ doc[c] = Image(object) /\ c \notin suspect
        BY <1>9 DEF NotPushed
    <2>2. Shows(c, row[c])
        BY <1>5, <2>1 DEF IndexInv, Indexed
    <2>3. Shows(c, Merged(s, c, object))
        <3>1. CASE job[s].snap[c] = Absent
            BY <2>1, <3>1 DEF Merged, Shows
        <3>2. CASE job[s].snap[c] # Absent
            <4> DEFINE old == job[s].snap[c]
                       new == Merged(s, c, object)
            <4>1. /\ new.status = IF object.status # old.status THEN object.status ELSE row[c].status
                  /\ new.expires = IF object.expires # old.expires THEN object.expires ELSE row[c].expires
                BY <3>2 DEF Merged
            <4>2. object.expires # NoDoc /\ row[c].expires # NoDoc
                BY <1>1, Times DEF NoDoc
            <4> QED BY <2>1, <2>2, <4>1, <4>2 DEF Shows, Image
        <3> QED BY <3>1, <3>2
    <2>4. Shows(c, Outcome(s, c))'
        BY <1>2, <1>6, <2>1, <2>3 DEF Shows
    <2>5. Shows(c, row[c])'
        BY <1>2, <2>1, <2>2 DEF Shows
    <2> QED BY <1>4, <1>7, <2>4, <2>5 DEF Indexed
<1> QED BY <1>3, <1>8, <1>9

LEMMA IndexWrite ==
    ASSUME IndexInv, Base', NEW s \in Slot, NEW d \in Coupon, NEW object \in Row,
           Write(s, d, object)
    PROVE  IndexInv'
<1>1. TypeOK /\ Base
    BY DEF IndexInv, Base, Typed
<1>2. ASSUME NEW c \in Coupon, c \notin suspect', c # d PROVE Indexed(c)'
    <2>1. /\ Busy(s) /\ Busy(s)' /\ job'[s].snap = job[s].snap
          /\ job'[s].mine = [e \in Coupon |-> IF e = d THEN object ELSE job[s].mine[e]]
          /\ \A r \in Slot \ {s} : job'[r] = job[r]
          /\ now' = now /\ row' = row
        BY <1>1, WriteWorks
    <2>2. \/ job'[s].pushed = job[s].pushed \cup {d} /\ WritePushes(s, d, object)
          \/ job'[s].pushed = job[s].pushed /\ NotPushed(d, object)
        BY <1>1, WriteWorks
    <2>3. c \notin suspect /\ doc'[c] = doc[c]
        BY <1>2, <2>2 DEF WritePushes, Pushed, NotPushed
    <2>4. now' >= now
        BY <1>1, <2>1, CatalogAssumption DEF TypeOK
    <2>5. Unmoved(c)
        BY <1>2, <2>1, <2>2, <2>3, <2>4 DEF Unmoved, Touches, Busy
    <2> QED BY <1>1, <2>3, <2>5, UnmovedStays DEF IndexInv
<1> QED BY <1>2, WriteIndexed DEF IndexInv

(* A push without a lock is clean only if nobody has the row locked and it *)
(* is as the snapshot shows it.                                            *)
LEMMA IndexRepublish ==
    ASSUME IndexInv, Base', NEW s \in Slot, NEW C \in SUBSET Coupon, Republish(s, C)
    PROVE  IndexInv'
<1>1. TypeOK /\ Base /\ \A c \in Coupon : row[c] \in Row \cup {Absent}
    BY DEF IndexInv, Base, Typed, TypeOK
<1>2. /\ Busy(s) /\ Busy(s)' /\ job[s] \in Job
      /\ \A r \in Slot \ {s} : job'[r] = job[r]
      /\ job'[s] = [job[s] EXCEPT !.done = TRUE, !.pushed = C]
    BY <1>1, RepublishWorks, Carries
<1>3. /\ job'[s].mine = job[s].mine /\ job'[s].snap = job[s].snap /\ job'[s].pushed = C
    BY <1>2 DEF Job
<1>4. /\ now' = now /\ row' = row /\ Pushed(s, C, job[s].snap)
    BY DEF Republish, PushUnlocked, tables
<1>5. \A c \in Coupon : ~Touches(s, c)
    BY DEF Republish, IndexInv, Base, RequestsWriteOnce, Touches
<1>6. ASSUME NEW c \in Coupon, c \notin suspect', c \notin C PROVE Indexed(c)'
    <2>1. c \notin suspect /\ doc'[c] = doc[c]
        BY <1>4, <1>6 DEF Pushed
    <2>2. now' >= now
        BY <1>1, <1>4, CatalogAssumption DEF TypeOK
    <2>3. \A r \in Slot : Touches(r, c)' <=> Touches(r, c)
        BY <1>2, <1>3 DEF Touches, Busy
    <2>4. \A r \in Slot : Touches(r, c) => job'[r] = job[r]
        BY <1>2, <1>5
    <2>5. Unmoved(c)
        BY <1>4, <2>1, <2>2, <2>3, <2>4 DEF Unmoved
    <2> QED BY <1>1, <2>1, <2>5, UnmovedStays DEF IndexInv
<1>7. ASSUME NEW c \in Coupon, c \notin suspect', c \in C PROVE Indexed(c)'
    <2>1. doc'[c] = Image(job[s].snap[c]) /\ Clean(s, c, job[s].snap[c])
        BY <1>4, <1>7 DEF Pushed
    <2>2. ~LockedByOther(s, c) /\ Merged(s, c, job[s].snap[c]) = job[s].snap[c]
        BY <2>1 DEF Clean
    <2>3. \A r \in Slot : ~Touches(r, c)'
        BY <1>2, <1>3, <1>5, <2>2, ZenonT(60) DEF LockedByOther, Touches, Busy
    <2>4. job[s].snap[c] # Absent
        BY <1>7 DEF Republish
    <2>5. job[s].snap[c].status = row[c].status /\ job[s].snap[c].expires = row[c].expires
        BY <2>2, <2>4 DEF Merged
    <2>6. Image(job[s].snap[c]) = Image(row[c])
        BY <2>5 DEF Image
    <2>7. ~Locked(c)'
        BY <2>3 DEF Locked, Touches
    <2> QED BY <1>4, <2>1, <2>3, <2>6, <2>7 DEF Indexed, Shows
<1> QED BY <1>6, <1>7 DEF IndexInv

(* A transaction that ends: what it did not touch stays, what it touched   *)
(* is as it left it, or as it was.                                         *)
LEMMA IndexAbort ==
    ASSUME IndexInv, Base', NEW s \in Slot, Abort(s)
    PROVE  IndexInv'
<1>1. TypeOK /\ Base /\ Busy(s) /\ job'[s] = Idle
    BY RollBackWorks DEF IndexInv, Base, Typed
<1>2. /\ now' = now /\ row' = row /\ suspect' = suspect \cup job[s].pushed
      /\ doc' = [c \in Coupon |-> IF c \in Unborn(s) THEN NoDoc ELSE doc[c]]
    BY DEF Abort, RollBack
<1>3. \A r \in Slot : Keeps(r)
    BY <1>1, MostStepsKeep, SMTT(40)
<1>4. ASSUME NEW r \in Slot \ {s}
      PROVE  /\ Busy(r)' <=> Busy(r)
             /\ Busy(r) => job'[r].pushed = job[r].pushed
    <2>1. CASE Busy(r)
        <3>1. /\ job[r] \in Job /\ Busy(r)'
              /\ job'[r] = [job[r] EXCEPT !.since = job'[r].since, !.notYet = job'[r].notYet]
            BY <1>1, <2>1, RollBackWorks, Carries
        <3> QED BY <2>1, <3>1 DEF Job
    <2> QED BY <1>1, <2>1, RollBackWorks DEF Busy
<1>5. ASSUME NEW c \in Coupon, c \notin suspect', Touches(s, c) PROVE Indexed(c)'
    <2>1. \A r \in Slot : ~Touches(r, c)'
        <3>1. \A r \in Slot : Touches(r, c)' => Touches(r, c)
            BY <1>3 DEF Keeps, Touches
        <3> QED BY <1>1, <1>5, <3>1 DEF Base, Exclusive, Touches, Busy
    <2>2. Shows(c, row[c])'
        <3>1. CASE row[c] = Absent
            <4>1. c \in Unborn(s)
                BY <1>5, <3>1 DEF Unborn, Touches
            <4> QED BY <1>2, <3>1, <4>1 DEF Shows, Image, Absent
        <3>2. CASE row[c] # Absent
            <4>1. c \notin Unborn(s) /\ c \notin job[s].pushed /\ c \notin suspect
                BY <1>2, <1>5, <3>2 DEF Unborn
            <4> QED BY <1>2, <1>5, <3>2, <4>1 DEF IndexInv, Indexed, Shows
        <3> QED BY <3>1, <3>2
    <2> QED BY <2>1, <2>2 DEF Indexed, Locked, Touches
<1>6. ASSUME NEW c \in Coupon, c \notin suspect', ~Touches(s, c) PROVE Indexed(c)'
    <2>1. c \notin suspect /\ doc'[c] = doc[c]
        BY <1>1, <1>2, <1>6 DEF Unborn, Touches
    <2>2. now' >= now
        BY <1>1, <1>2, CatalogAssumption DEF TypeOK
    <2>3. \A r \in Slot : Touches(r, c)' <=> Touches(r, c)
        BY <1>1, <1>3, <1>4, <1>6 DEF Keeps, Touches, Busy
    <2>4. \A r \in Slot : Touches(r, c) =>
              /\ job'[r].mine[c] = job[r].mine[c] /\ job'[r].snap[c] = job[r].snap[c]
              /\ job'[r].pushed = job[r].pushed
        BY <1>3, <1>4, <1>6, <2>3 DEF Keeps, Touches
    <2>5. Unmoved(c)
        BY <1>2, <2>1, <2>2, <2>3, <2>4 DEF Unmoved
    <2> QED BY <1>1, <2>1, <2>5, UnmovedStays DEF IndexInv
<1> QED BY <1>5, <1>6 DEF IndexInv

LEMMA IndexCommit ==
    ASSUME IndexInv, Base', NEW s \in Slot, Commit(s)
    PROVE  IndexInv'
<1>1. TypeOK /\ Base /\ RowsStay /\ Busy(s) /\ job'[s] = Idle
    BY CommitWorks DEF IndexInv, Base, Typed
<1>2. now' = now /\ suspect' = suspect /\ doc' = doc
    BY DEF Commit, index
<1>3. \A r \in Slot : Keeps(r)
    BY <1>1, MostStepsKeep
<1>4. ASSUME NEW r \in Slot \ {s}
      PROVE  /\ Busy(r)' <=> Busy(r)
             /\ Busy(r) => job'[r].pushed = job[r].pushed
    <2>1. CASE Busy(r)
        <3>1. /\ job[r] \in Job /\ Busy(r)'
              /\ job'[r] = [job[r] EXCEPT !.crossed = job'[r].crossed]
            BY <1>1, <2>1, CommitWorks, Carries
        <3> QED BY <2>1, <3>1 DEF Job
    <2> QED BY <1>1, <2>1, CommitWorks DEF Busy
<1>5. ASSUME NEW c \in Coupon, c \notin suspect, Touches(s, c) PROVE Indexed(c)'
    <2>1. \A r \in Slot : ~Touches(r, c)'
        <3>1. \A r \in Slot : Touches(r, c)' => Touches(r, c)
            BY <1>3 DEF Keeps, Touches
        <3> QED BY <1>1, <1>5, <3>1 DEF Base, Exclusive, Touches, Busy
    <2>2. row'[c] = Outcome(s, c)
        BY <1>1, <1>5, CommittedRows
    <2>3. Shows(c, Outcome(s, c))
        BY <1>5 DEF IndexInv, Indexed
    <2>4. Shows(c, row[c])'
        BY <1>2, <2>2, <2>3 DEF Shows
    <2> QED BY <2>1, <2>4 DEF Indexed, Locked, Touches
<1>6. ASSUME NEW c \in Coupon, c \notin suspect, ~Touches(s, c) PROVE Indexed(c)'
    <2>1. row'[c] = row[c]
        BY <1>1, <1>6, CommittedRows
    <2>2. now' >= now
        BY <1>1, <1>2, CatalogAssumption DEF TypeOK
    <2>3. \A r \in Slot : Touches(r, c)' <=> Touches(r, c)
        BY <1>1, <1>3, <1>4, <1>6 DEF Keeps, Touches, Busy
    <2>4. \A r \in Slot : Touches(r, c) =>
              /\ job'[r].mine[c] = job[r].mine[c] /\ job'[r].snap[c] = job[r].snap[c]
              /\ job'[r].pushed = job[r].pushed
        BY <1>3, <1>4, <1>6, <2>3 DEF Keeps, Touches
    <2>5. Unmoved(c)
        BY <1>2, <2>1, <2>2, <2>3, <2>4 DEF Unmoved
    <2> QED BY <1>1, <1>6, <2>5, UnmovedStays DEF IndexInv
<1> QED BY <1>2, <1>5, <1>6 DEF IndexInv

(* The sweep waits until nobody has a row locked, and what it expires has  *)
(* a document that has expired, too.                                       *)
LEMMA IndexSweep ==
    ASSUME IndexInv, Base', ExpireStale
    PROVE  IndexInv'
<1>1. TypeOK /\ Base
    BY DEF IndexInv, Base, Typed
<1>2. /\ now' = now /\ doc' = doc /\ suspect' = suspect /\ job' = job
      /\ \A c \in Coupon : ~Locked(c)
      /\ \A c \in Coupon : row'[c] = IF Stale(c) THEN [row[c] EXCEPT !.status = "expired"] ELSE row[c]
    BY DEF ExpireStale, index
<1>3. ASSUME NEW c \in Coupon, c \notin suspect PROVE Indexed(c)'
    <2>1. Shows(c, row[c])
        BY <1>2, <1>3 DEF IndexInv, Indexed
    <2>2. \A s \in Slot : ~Touches(s, c)'
        BY <1>2 DEF Locked, Touches, Busy
    <2>3. Shows(c, row[c])'
        <3>1. CASE Stale(c)
            <4>1. row[c] \in Row
                BY <1>1, <3>1 DEF TypeOK, Stale, Absent
            <4>2. row'[c].status = "expired" /\ row'[c].expires = row[c].expires
                BY <1>2, <3>1, <4>1 DEF Row
            <4>3. doc[c] = row[c].expires /\ row[c].expires <= now
                BY <2>1, <3>1 DEF Shows, Stale, Image
            <4> QED BY <1>2, <4>2, <4>3 DEF Shows
        <3>2. CASE ~Stale(c)
            BY <1>2, <2>1, <3>2 DEF Shows
        <3> QED BY <3>1, <3>2
    <2> QED BY <2>2, <2>3 DEF Indexed, Locked, Touches
<1> QED BY <1>2, <1>3 DEF IndexInv

LEMMA IndexOther ==
    ASSUME IndexInv, Base',
           \/ \E s \in Slot, op \in {"batch", "request"} : Open(s, op)
           \/ \E s \in Slot : Busy(s) /\ ~job[s].done /\ Match(s)
           \/ Tick \/ UNCHANGED vars
    PROVE  IndexInv'
<1>1. TypeOK /\ Base
    BY DEF IndexInv, Base, Typed
<1>2. UNCHANGED <<row, doc, suspect>>
    BY DEF Open, Match, Tick, vars, tables, index
<1>3. now' >= now
    <2>1. now \in Nat
        BY <1>1, CatalogAssumption DEF TypeOK
    <2>2. now' = now \/ now' = now + 1
        BY DEF Open, Match, Tick, vars
    <2> QED BY <2>1, <2>2
<1>4. ASSUME NEW c \in Coupon PROVE Unmoved(c)
    <2>1. CASE \E s \in Slot, op \in {"batch", "request"} : Open(s, op)
        <3>1. PICK s \in Slot, op \in {"batch", "request"} : Open(s, op)
            BY <2>1
        <3>2. ~Busy(s) /\ job'[s].mine[c] = Untouched /\ \A r \in Slot \ {s} : job'[r] = job[r]
            BY <1>1, <3>1, OpenWorks
        <3>3. \A r \in Slot : Touches(r, c)' <=> Touches(r, c)
            BY <3>2 DEF Touches, Busy
        <3>4. \A r \in Slot : Touches(r, c) => job'[r] = job[r]
            BY <3>2 DEF Touches
        <3> QED BY <1>2, <1>3, <3>3, <3>4 DEF Unmoved
    <2>2. CASE \E s \in Slot : Busy(s) /\ ~job[s].done /\ Match(s)
        <3>1. PICK s \in Slot : Busy(s) /\ ~job[s].done /\ Match(s)
            BY <2>2
        <3>2. PICK told : job'[s] = [job[s] EXCEPT !.done = TRUE, !.told = told, !.notYet = job'[s].notYet]
            BY <1>1, <3>1, MatchWorks
        <3>3. job[s] \in Job /\ Busy(s)' /\ \A r \in Slot \ {s} : job'[r] = job[r]
            BY <1>1, <3>1, MatchWorks, Carries
        <3>4. job'[s].mine = job[s].mine /\ job'[s].snap = job[s].snap /\ job'[s].pushed = job[s].pushed
            BY <3>2, <3>3 DEF Job
        <3>5. \A r \in Slot : Touches(r, c)' <=> Touches(r, c)
            BY <3>1, <3>3, <3>4 DEF Touches, Busy
        <3>6. \A r \in Slot : /\ job'[r].mine = job[r].mine /\ job'[r].snap = job[r].snap
                              /\ job'[r].pushed = job[r].pushed
            BY <3>3, <3>4
        <3> QED BY <1>2, <1>3, <3>5, <3>6 DEF Unmoved
    <2>3. CASE Tick \/ UNCHANGED vars
        <3>1. job' = job
            BY <2>3 DEF Tick, vars
        <3> QED BY <1>2, <1>3, <3>1 DEF Unmoved, Touches, Busy
    <2> QED BY <2>1, <2>2, <2>3
<1> QED BY <1>1, <1>2, <1>4, UnmovedStays DEF IndexInv

(* "Keeps MySQL (source of truth) and Meilisearch (search index) in sync": *)
(* a coupon is in the search results if and only if it is live, unless the *)
(* last thing that happened to its document is a push that failed, was     *)
(* skipped, was of an outdated object, or was rolled back.  The code is    *)
(* indexing_service.py and every caller of index_coupon.                   *)
THEOREM IndexAgreesWithRows == Spec => []IndexAgrees
<1>1. Init => IndexInv
    <2> SUFFICES ASSUME Init PROVE IndexInv
        OBVIOUS
    <2>1. Base /\ (\A s \in Slot : ~Busy(s))
        BY BaseInit DEF Init, Busy
    <2>2. \A c \in Coupon : doc[c] = Image(row[c])
        BY DEF Init, Image, Absent
    <2> QED BY <2>1, <2>2 DEF IndexInv, Indexed, Shows, Touches
<1>2. IndexInv /\ [Next]_vars => IndexInv'
    <2> SUFFICES ASSUME IndexInv, [Next]_vars PROVE IndexInv'
        OBVIOUS
    <2>1. Base /\ Base' /\ TypeOK /\ RequestsWriteOnce
        BY BaseStep DEF IndexInv, Base, Typed
    <2> QED BY <2>1, Steps, IndexWrite, IndexRepublish, IndexAbort, IndexCommit, IndexSweep, IndexOther
            DEF Kinds
<1>3. IndexInv => IndexAgrees
    <2> SUFFICES ASSUME IndexInv, NEW c \in Coupon, ~Locked(c), c \notin suspect,
                        row[c].expires # now
                 PROVE  Shown(c) <=> Live(c)
        BY DEF IndexAgrees
    <2>1. Shows(c, row[c])
        BY DEF IndexInv, Indexed
    <2>2. now \in Nat /\ row[c].expires \in Nat /\ row[c].expires > 0
        <3>1. row[c] \in Row \cup {Absent} /\ now \in 0 .. LastTime
            BY DEF IndexInv, Base, Typed, TypeOK
        <3>2. row[c].expires \in Nat /\ row[c].expires > 0
            BY <3>1, Times
        <3> QED BY <3>1, <3>2, CatalogAssumption
    <2> QED BY <2>1, <2>2 DEF Shows, Image, Shown, Live, NoDoc
<1> QED BY <1>1, <1>2, <1>3, PTL DEF Spec
=============================================================================
