------------------------------ MODULE Catalog ------------------------------
(***************************************************************************)
(* Coupon rows, their documents in the search index, and the deal alerts:  *)
(* ingestion/storage.py, services/coupon_service.py, indexing_service.py,  *)
(* alerts_service.py, and the worker, endpoints and commands that call     *)
(* them.                                                                   *)
(*                                                                         *)
(* A slot is one transaction in flight: a worker's batch or a request.     *)
(* Opening it takes the REPEATABLE READ snapshot.  The handler works on    *)
(* objects loaded from it; a flush writes the columns that it changed to   *)
(* the current row and locks that row until the transaction ends.  The     *)
(* document is pushed at once, before the commit, and nothing takes it     *)
(* back.                                                                   *)
(*                                                                         *)
(* A coupon is known by its content hash, which is unique.                 *)
(***************************************************************************)
EXTENDS Naturals, FiniteSets

CONSTANTS
    Slot,       \* the transactions in flight
    Coupon,     \* the content hashes
    Cap,        \* _MAX_PER_ALERT
    MaxOpened,  \* BOUND: transactions ever opened
    LastTime    \* BOUND: the last time of the clock

ASSUME CatalogAssumption == Cap \in Nat \ {0} /\ MaxOpened \in Nat /\ LastTime \in Nat \ {0}

VARIABLES
    now,        \* the wall clock
    row,        \* row[c]: the committed row of c
    doc,        \* doc[c]: when the document of c's row expires, or NoDoc
    ghosts,     \* documents of rows that were never committed
    fresh,      \* the coupons not created before the alert's last_fired_at
    notified,   \* notified[c]: the notifications about c
    job,        \* job[s]: the transaction in slot s
    opened,     \* the number of transactions opened
    suspect,    \* history: the coupons whose document may not follow the row
    excused,    \* history: the coupons that an alert run had to leave out
    overlap     \* history: two alert runs were in flight at once

tables == <<row, fresh, notified>>
index == <<doc, ghosts, suspect>>
vars == <<now, row, doc, ghosts, fresh, notified, job, opened, suspect, excused, overlap>>

(* expires_at is NULL, or a time that the clock reaches. *)
NoDoc == 0
Never == LastTime + 1
Expiry == {1, Never}
Statuses == {"active", "expired", "pending_review", "revoked"}
Row == [status : Statuses, expires : Expiry]
Absent == [status |-> "absent", expires |-> Never]
Untouched == [status |-> "untouched", expires |-> Never]

Idle == [op |-> "idle"]
Busy(s) == job[s] # Idle

Init ==
    /\ now = 0
    /\ row = [c \in Coupon |-> Absent]
    /\ doc = [c \in Coupon |-> NoDoc]
    /\ ghosts = {}
    /\ fresh = Coupon
    /\ notified = [c \in Coupon |-> 0]
    /\ job = [s \in Slot |-> Idle]
    /\ opened = 0
    /\ suspect = {}
    /\ excused = {}
    /\ overlap = FALSE

----------------------------------------------------------------------------
(* Transactions.  mine[c] is the object of c once it was flushed.          *)
Open(s, op) ==
    /\ ~Busy(s) /\ opened < MaxOpened
    /\ opened' = opened + 1
    /\ job' = [job EXCEPT ![s] =
          [op |-> op, done |-> FALSE, snap |-> row, since |-> fresh,
           mine |-> [c \in Coupon |-> Untouched],
           pushed |-> {}, told |-> {}, notYet |-> {}, crossed |-> FALSE]]
    /\ UNCHANGED <<now, tables, index, excused, overlap>>

Created(c) == row[c] # Absent \/ \E s \in Slot : Busy(s) /\ job[s].mine[c] # Untouched
Locked(c) == \E s \in Slot : Busy(s) /\ job[s].mine[c] # Untouched
LockedByOther(s, c) == \E r \in Slot \ {s} : Busy(r) /\ job[r].mine[c] # Untouched

(* What the transaction reads: its snapshot and its own writes. *)
Object(s, c) == IF job[s].mine[c] = Untouched THEN job[s].snap[c] ELSE job[s].mine[c]

(* The row that the transaction leaves: the UPDATE names only the columns  *)
(* whose values differ from those that were loaded.                        *)
Merged_AllColumns(s, c, object) == object
Merged(s, c, object) ==
    LET old == job[s].snap[c]
    IN  IF old = Absent THEN object
        ELSE [status |-> IF object.status # old.status THEN object.status ELSE row[c].status,
              expires |-> IF object.expires # old.expires THEN object.expires ELSE row[c].expires]

(* index_coupon: the document that an object gets. *)
Image_NoExpiry(object) == IF object.status = "active" THEN Never ELSE NoDoc
Image(object) == IF object.status = "active" THEN object.expires ELSE NoDoc

(* A push is clean if it shows what the row will be, and nobody is about   *)
(* to change the row without knowing of the push.                          *)
Clean(s, c, object) == Merged(s, c, object) = object /\ ~LockedByOther(s, c)
Pushed(s, C, object) ==
    /\ doc' = [c \in Coupon |-> IF c \in C THEN Image(object[c]) ELSE doc[c]]
    /\ suspect' = (suspect \ C) \cup {c \in C : ~Clean(s, c, object[c])}
    /\ UNCHANGED ghosts
NotPushed(c, object) ==
    /\ suspect' = IF Image(object) = doc[c] THEN suspect ELSE suspect \cup {c}
    /\ UNCHANGED <<doc, ghosts>>

(* rollback: the rows are as if nothing had happened, the index is not. *)
Unborn(s) == {c \in Coupon : job[s].mine[c] # Untouched /\ row[c] = Absent}
RollBack(s) ==
    /\ job' = [r \in Slot |->
          IF r = s \/ ~Busy(r) THEN Idle
          ELSE [job[r] EXCEPT !.since = @ \cup Unborn(s),
                              !.notYet = IF job[r].told = {} THEN @ ELSE @ \cup Unborn(s)]]
    /\ fresh' = fresh \cup Unborn(s)
    /\ ghosts' = ghosts \cup {c \in Unborn(s) : doc[c] # NoDoc}
    /\ doc' = [c \in Coupon |-> IF c \in Unborn(s) THEN NoDoc ELSE doc[c]]
    /\ suspect' = suspect \cup job[s].pushed
    /\ UNCHANGED <<now, row, notified, opened, excused, overlap>>
Abort(s) == Busy(s) /\ RollBack(s)

LastFired_AtCommit(s) == IF job[s].told = {} THEN fresh ELSE {c \in Coupon : ~Created(c)}
LastFired(s) == IF job[s].told = {} THEN fresh ELSE job[s].notYet
Commit(s) ==
    /\ Busy(s) /\ job[s].done
    /\ row' = [c \in Coupon |-> IF job[s].mine[c] = Untouched THEN row[c]
                                ELSE Merged(s, c, job[s].mine[c])]
    /\ notified' = [c \in Coupon |-> IF c \in job[s].told THEN notified[c] + 1 ELSE notified[c]]
    /\ fresh' = LastFired(s)
    /\ job' = [r \in Slot |->
          IF r = s \/ ~Busy(r) THEN Idle
          ELSE [job[r] EXCEPT !.crossed = @ \/ job[s].told # {}]]
    /\ overlap' = (overlap \/ (job[s].told # {} /\ job[s].crossed))
    /\ UNCHANGED <<now, index, opened, excused>>

----------------------------------------------------------------------------
(* A flush of one object.  It waits for the row's lock.  An INSERT whose   *)
(* hash was committed after the snapshot violates the unique key; the      *)
(* session is then unusable, in run_source's handler too, so that the      *)
(* whole transaction is lost.                                              *)
Violates(s, c) == Object(s, c) = Absent /\ row[c] # Absent
Flushed(s, c, object, pushed, done) ==
    /\ ~LockedByOther(s, c)
    /\ job' = [r \in Slot |->
          IF r = s THEN [job[s] EXCEPT !.mine[c] = object, !.done = done,
                             !.pushed = IF pushed THEN @ \cup {c} ELSE @]
          ELSE job[r]]
    /\ UNCHANGED <<now, tables, opened, excused, overlap>>

(* store_coupon, by the worker, by a user's submission and by seed_demo.   *)
(* Indexing is best-effort, and fails too when the new row's timestamps,   *)
(* which only the database knows, are not loaded.                          *)
StoredStatus(old, expires, sure) ==
    IF expires <= now THEN "expired"
    ELSE IF sure THEN "active"
    ELSE IF old = Absent THEN "pending_review"
    ELSE old.status
Stored(s, c, expires, sure) ==
    [status |-> StoredStatus(Object(s, c), expires, sure), expires |-> expires]

Store(s, c) ==
    /\ job[s].op = "batch" /\ ~job[s].done /\ job[s].mine[c] = Untouched
    /\ IF Violates(s, c) THEN ~LockedByOther(s, c) /\ RollBack(s)
       ELSE \E expires \in Expiry, sure \in BOOLEAN :
            LET object == Stored(s, c, expires, sure)
            IN  \/ Flushed(s, c, object, TRUE, FALSE)
                   /\ Pushed(s, {c}, [d \in Coupon |-> object])
                \/ Flushed(s, c, object, FALSE, FALSE) /\ NotPushed(c, object)

StoreUnindexed(s, c, sure) ==
    IF Violates(s, c) THEN ~LockedByOther(s, c) /\ RollBack(s)
    ELSE LET object == Stored(s, c, Never, sure)
         IN  Flushed(s, c, object, FALSE, TRUE) /\ NotPushed(c, object)
Submit(s, c) == StoreUnindexed(s, c, FALSE)
Seed(s, c) == StoreUnindexed(s, c, TRUE)

(* The administrator's operations: update, moderate, rescore, and create   *)
(* below.  A failure of the index is an error of the request (Abort).      *)
Save(s, c, object) ==
    IF Violates(s, c) THEN ~LockedByOther(s, c) /\ RollBack(s)
    ELSE Flushed(s, c, object, TRUE, TRUE) /\ Pushed(s, {c}, [d \in Coupon |-> object])

(* A flush without a changed column writes nothing, and so locks nothing;  *)
(* the push that follows it is of what the snapshot showed.                *)
PushUnlocked(s, C) ==
    /\ job' = [job EXCEPT ![s].done = TRUE, ![s].pushed = C]
    /\ Pushed(s, C, job[s].snap)
    /\ UNCHANGED <<now, tables, opened, excused, overlap>>
Change(s, c, object) ==
    /\ job[s].snap[c] # Absent
    /\ IF object = job[s].snap[c] THEN PushUnlocked(s, {c}) ELSE Save(s, c, object)

(* create_coupon flushes its row, whereupon rescore reads a column that    *)
(* only the database knows yet, and outside an await may not ask for: the  *)
(* request always fails.                                                   *)
Create(s, c) == job[s].snap[c] = Absent /\ ~LockedByOther(s, c) /\ RollBack(s)
Update(s, c) == \E object \in Row : Change(s, c, object)
Moderate(s, c) ==
    \E status \in {"active", "revoked"} :
        Change(s, c, [job[s].snap[c] EXCEPT !.status = status])
(* The event that rescore inserts locks the row that it refers to. *)
Rescore_Unchecked(s, c) == Save(s, c, job[s].snap[c])
Rescore(s, c) == job[s].snap[c] # Absent /\ Save(s, c, job[s].snap[c])

Reindexed(s) == {c \in Coupon : job[s].snap[c].status = "active"}
Reindex(s) == PushUnlocked(s, Reindexed(s))

(* expire_stale acts on current rows; the documents stay. *)
Stale(c) == row[c].status = "active" /\ row[c].expires <= now
ExpireStale ==
    /\ \E c \in Coupon : Stale(c)
    /\ \A c \in Coupon : ~Locked(c)
    /\ row' = [c \in Coupon |-> IF Stale(c) THEN [row[c] EXCEPT !.status = "expired"] ELSE row[c]]
    /\ UNCHANGED <<now, fresh, notified, index, job, opened, excused, overlap>>

----------------------------------------------------------------------------
(* run_alert_matching for one alert that every coupon matches, in a        *)
(* worker's batch after its stores, or alone.  A coupon is a candidate     *)
(* while its created_at is not before last_fired_at.                       *)
Candidates_SinceEver(s) == {c \in Coupon : Object(s, c).status = "active"}
Candidates(s) == {c \in job[s].since : Object(s, c).status = "active"}
(* Not yet visible, not yet active, or beyond the cap. *)
LeftOut(s, c, told) ==
    Object(s, c).status # "active" \/ (c \in Candidates(s) /\ c \notin told)
Match(s) ==
    \E told \in SUBSET Candidates(s) :
        /\ told = Candidates(s) \/ (told \subseteq Candidates(s) /\ Cardinality(told) = Cap)
        /\ Cardinality(told) <= Cap
        /\ job' = [job EXCEPT ![s].done = TRUE, ![s].told = told,
                              ![s].notYet = IF told = {} THEN {} ELSE {c \in Coupon : ~Created(c)}]
        /\ excused' = IF told = {} THEN excused
                      ELSE excused \cup {c \in Coupon : Created(c) /\ LeftOut(s, c, told)}
        /\ UNCHANGED <<now, tables, index, opened, overlap>>

Request(s, c) ==
    /\ Busy(s) /\ job[s].op = "request" /\ ~job[s].done
    /\ \/ Submit(s, c) \/ Seed(s, c) \/ Create(s, c) \/ Update(s, c)
       \/ Moderate(s, c) \/ Rescore(s, c) \/ Reindex(s)

Tick ==
    /\ now < LastTime
    /\ now' = now + 1
    /\ UNCHANGED <<tables, index, job, opened, excused, overlap>>

Next ==
    \/ \E s \in Slot : \E op \in {"batch", "request"} : Open(s, op)
    \/ \E s \in Slot, c \in Coupon : Store(s, c) \/ Request(s, c)
    \/ \E s \in Slot : (Busy(s) /\ ~job[s].done /\ Match(s)) \/ Commit(s) \/ Abort(s)
    \/ ExpireStale
    \/ Tick

Spec == Init /\ [][Next]_vars

----------------------------------------------------------------------------
Job == [op : {"batch", "request"}, done : BOOLEAN, snap : [Coupon -> Row \cup {Absent}],
        since : SUBSET Coupon, mine : [Coupon -> Row \cup {Untouched}],
        pushed : SUBSET Coupon, told : SUBSET Coupon, notYet : SUBSET Coupon, crossed : BOOLEAN]
TypeOK ==
    /\ now \in 0 .. LastTime
    /\ row \in [Coupon -> Row \cup {Absent}]
    /\ doc \in [Coupon -> {NoDoc} \cup Expiry]
    /\ ghosts \subseteq Coupon /\ fresh \subseteq Coupon
    /\ notified \in [Coupon -> 0 .. MaxOpened]
    /\ job \in [Slot -> {Idle} \cup Job]
    /\ opened \in 0 .. MaxOpened
    /\ suspect \subseteq Coupon /\ excused \subseteq Coupon
    /\ overlap \in BOOLEAN

(* What a search returns: its filter asks for an active document that has  *)
(* not expired.  What it should return.                                    *)
Shown(c) == doc[c] # NoDoc /\ doc[c] >= now
Live(c) == row[c].status = "active" /\ row[c].expires >= now

(* "Keeps MySQL (source of truth) and Meilisearch (search index) in sync": *)
(* the search shows a coupon if and only if its row is active and has not  *)
(* expired, unless the last thing that happened to the document was a push *)
(* that failed, was skipped, was of an outdated object or was rolled back. *)
(* Neither the sweep of expired coupons, which leaves documents behind,    *)
(* nor any other interleaving parts the two.                               *)
IndexAgrees ==
    \A c \in Coupon :
        ~Locked(c) /\ c \notin suspect /\ row[c].expires # now => (Shown(c) <=> Live(c))

(* A transaction that found a coupon active and leaves it so does not      *)
(* bring back a coupon that was rejected or expired in the meantime.       *)
ConfirmationRevivesNothing ==
    [][\A s \in Slot, c \in Coupon :
          Commit(s) /\ row[c].status \in {"revoked", "expired"} /\ row'[c].status = "active"
          => job[s].snap[c].status # "active"]_vars

(* "a coupon notifies at most once per alert": so it is unless an alert    *)
(* run began before another one committed.                                 *)
NotifiedOnce == ~overlap => \A c \in Coupon : notified[c] <= 1

(* An active coupon that no later alert run will look at, and that nobody  *)
(* was told about, was beyond the cap, not yet active, or not yet visible  *)
(* when a run advanced last_fired_at past it.                              *)
LeftOutForAReason ==
    \A c \in Coupon :
        row[c].status = "active" /\ c \notin fresh /\ notified[c] = 0 => c \in excused
=============================================================================
