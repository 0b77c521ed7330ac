--------------------------- MODULE SessionsProofs ---------------------------
(***************************************************************************)
(* Sessions, for any number of requests and of users: revocation, account  *)
(* suspension and spent reset links take effect for every request that     *)
(* starts after them, and a family has one live token unless two refreshes *)
(* of one token overlapped.                                                *)
(*                                                                         *)
(* The argument is the same for the four.  A request that had ended before *)
(* another opened wrote rows that this one's snapshot contains; and a      *)
(* request that was still open then is in nobody's past.  The inductive    *)
(* invariant states what each committed request has written (Written),     *)
(* and what a granted decision says of the snapshot it was taken from      *)
(* (Granted).                                                              *)
(***************************************************************************)
EXTENDS Sessions, TLAPS

(* Only requests that have ended are in the past of another, and only a    *)
(* granted request is committed.                                           *)
PastHasEnded ==
    \A r \in Req : /\ earlier[r] \subseteq Ended
                   /\ Committed(r) => decision[r] = "grant"

(* A token that is presented was issued, and a token that is minted by     *)
(* rotation has the owner and the family of the one presented.             *)
Presented ==
    \A r \in Req : phase[r] # "idle" =>
        /\ kind[r] \in {"refresh", "logout"} => subject[r] \in Token
        /\ kind[r] = "refresh" => /\ owner[r] = owner[subject[r]]
                                  /\ family[r] = family[subject[r]]
                                  /\ family[r] \in Token
        /\ kind[r] = "login" => family[r] = r

(* What committed requests have written is still there. *)
Written ==
    /\ \A l \in Req, t \in Token : Revokes(l, t) => t \in revoked
    /\ \A s \in Req : Stands(s) => owner[s] \in inactive
    /\ \A k, s \in Req : UsedBy(k, s) => k \in spent

(* What granted requests may not have in their past. *)
GrantedTo(r) == phase[r] \in {"open", "done"} /\ decision[r] = "grant"
Granted ==
    \A r, l \in Req : GrantedTo(r) /\ l \in earlier[r] =>
        /\ kind[r] = "refresh" => ~Revokes(l, subject[r])
        /\ kind[r] \in Minting => ~(Stands(l) /\ owner[l] = owner[r])
        /\ kind[r] = "reset_password" => ~UsedBy(subject[r], l)

(* A token that was rotated is revoked, and a family in which no two       *)
(* rotations of one token overlapped has a single token not rotated.       *)
Rotated(t) == \E c \in Token : kind[c] = "refresh" /\ subject[c] = t
OneEndPerFamily ==
    \A s, t \in Token :
        s # t /\ family[s] = family[t] /\ ~Rotated(s) /\ ~Rotated(t) => Forked(family[s])

SessionsInv ==
    /\ TypeOK
    /\ PastHasEnded
    /\ Presented
    /\ Written
    /\ Granted
    /\ OneEndPerFamily

----------------------------------------------------------------------------
(* What the actions that open a request have in common. *)
Opens(r) ==
    \E what \in Kinds, user \in User, presented \in Req, fam \in Req,
       decided \in {"grant", "refuse", "reuse"} :
        /\ Open(r, what, user, presented, fam, decided)
        /\ what \in {"refresh", "logout"} => presented \in Token
        /\ what = "refresh" => /\ user = owner[presented] /\ fam = family[presented]
                               /\ decided = "grant" => presented \notin revoked
        /\ what = "login" => fam = r
        /\ what \in Minting /\ decided = "grant" => user \notin inactive
        /\ what = "reset_password" /\ decided = "grant" => presented \notin spent

LEMMA NextCases ==
    ASSUME TypeOK, Next
    PROVE  \E r \in Req : Opens(r) \/ Answer(r) \/ Abort(r) \/ Expire(r)
<1>1. PICK r \in Req :
        \/ \E u \in User : \/ Login(r, u) \/ LogoutAll(r, u) \/ ForgotPassword(r, u)
                           \/ UpdateUser(r, u, "suspend") \/ UpdateUser(r, u, "activate")
        \/ \E t \in Req : Refresh(r, t) \/ Logout(r, t) \/ ResetPassword(r, t)
        \/ Answer(r) \/ Abort(r) \/ Expire(r)
  BY DEF Next
<1> USE DEF Kinds, Minting, MassRevoking
<1>2. ASSUME NEW u \in User, Login(r, u)  PROVE Opens(r)
  BY <1>2 DEF Login, Opens, ActiveOnly
<1>3. ASSUME NEW u \in User, LogoutAll(r, u)  PROVE Opens(r)
  BY <1>3 DEF LogoutAll, Opens, ActiveOnly
<1>4. ASSUME NEW u \in User, ForgotPassword(r, u)  PROVE Opens(r)
  BY <1>4 DEF ForgotPassword, Opens
<1>5. ASSUME NEW u \in User, NEW what \in {"suspend", "activate"}, UpdateUser(r, u, what)
      PROVE Opens(r)
  BY <1>5 DEF UpdateUser, Opens
<1>6. ASSUME NEW t \in Req, Refresh(r, t)  PROVE Opens(r)
  <2>1. /\ owner[t] \in User /\ family[t] \in Req
        /\ RefreshDecision(t) \in {"grant", "refuse", "reuse"}
        /\ RefreshDecision(t) = "grant" => t \notin revoked /\ owner[t] \notin inactive
    BY DEF TypeOK, RefreshDecision
  <2> QED
    BY <1>6, <2>1 DEF Refresh, Opens
<1>7. ASSUME NEW t \in Req, Logout(r, t)  PROVE Opens(r)
  BY <1>7 DEF Logout, Opens, TypeOK
<1>8. ASSUME NEW k \in Req, ResetPassword(r, k)  PROVE Opens(r)
  <2>1. /\ owner[k] \in User
        /\ ResetDecision(k) \in {"grant", "refuse", "reuse"}
        /\ ResetDecision(k) = "grant" => k \notin spent
    BY DEF TypeOK, ResetDecision
  <2> QED
    BY <1>8, <2>1 DEF ResetPassword, Opens
<1> QED
  BY <1>1, <1>2, <1>3, <1>4, <1>5, <1>6, <1>7, <1>8

(* Opening a request changes no row, and gives it the past of this moment. *)
LEMMA OpenChanges ==
    ASSUME TypeOK, NEW r \in Req, Opens(r)
    PROVE  /\ phase[r] = "idle" /\ phase'[r] = "open" /\ earlier'[r] = Ended
           /\ \A q \in Req \ {r} :
                /\ phase'[q] = phase[q] /\ kind'[q] = kind[q] /\ owner'[q] = owner[q]
                /\ subject'[q] = subject[q] /\ family'[q] = family[q]
                /\ decision'[q] = decision[q] /\ earlier'[q] = earlier[q]
           /\ kind'[r] \in {"refresh", "logout"} => subject'[r] \in Token
           /\ kind'[r] = "refresh" =>
                /\ owner'[r] = owner[subject'[r]] /\ family'[r] = family[subject'[r]]
                /\ decision'[r] = "grant" => subject'[r] \notin revoked
           /\ kind'[r] = "login" => family'[r] = r
           /\ kind'[r] \in Minting /\ decision'[r] = "grant" => owner'[r] \notin inactive
           /\ kind'[r] = "reset_password" /\ decision'[r] = "grant" => subject'[r] \notin spent
           /\ Ended' = Ended /\ Token' = Token
           /\ UNCHANGED tableVars
  BY DEF Opens, Open, TypeOK, Token, Committed, Ended

(* An answered request was open, and is the only one that changes. *)
LEMMA AnswerChanges ==
    ASSUME TypeOK, NEW r \in Req, Answer(r)
    PROVE  /\ phase[r] = "open" /\ r \notin Ended /\ ~Committed(r)
           /\ phase'[r] = IF decision[r] = "grant" THEN "done" ELSE "refused"
           /\ \A q \in Req \ {r} : phase'[q] = phase[q]
           /\ \A q \in Req : Committed(q)' <=> Committed(q) \/ (q = r /\ decision[r] = "grant")
           /\ Ended' = Ended \cup {r}
           /\ Token' = Token \cup (IF decision[r] = "grant" /\ kind[r] \in Minting THEN {r} ELSE {})
           /\ revoked \subseteq revoked' /\ spent \subseteq spent'
           /\ UNCHANGED <<kind, owner, subject, family, decision, earlier, expired>>
  BY DEF Answer, RollsBack, TypeOK, Token, Committed, Ended

LEMMA AbortChanges ==
    ASSUME TypeOK, NEW r \in Req, Abort(r)
    PROVE  /\ phase[r] = "open" /\ phase'[r] = "failed"
           /\ \A q \in Req \ {r} : phase'[q] = phase[q]
           /\ \A q \in Req : Committed(q)' <=> Committed(q)
           /\ Ended \subseteq Ended' /\ Token' = Token
           /\ UNCHANGED <<kind, owner, subject, family, decision, earlier, tableVars>>
  BY DEF Abort, TypeOK, Token, Committed, Ended

----------------------------------------------------------------------------
LEMMA InitInvariant == Init => SessionsInv
<1> SUFFICES ASSUME Init PROVE SessionsInv
  OBVIOUS
<1>1. /\ \A r \in Req : phase[r] = "idle" /\ earlier[r] = {} /\ ~Committed(r) /\ ~GrantedTo(r)
      /\ Token = {}
  BY DEF Init, Committed, GrantedTo, Token
<1>2. TypeOK
  BY SessionsAssumption DEF Init, TypeOK, Kinds
<1>3. PastHasEnded /\ Presented /\ Granted /\ OneEndPerFamily
  BY <1>1 DEF PastHasEnded, Presented, Granted, OneEndPerFamily
<1>4. Written
  BY <1>1 DEF Written, Stands, UsedBy
<1> QED
  BY <1>2, <1>3, <1>4 DEF SessionsInv

LEMMA TypeStep ==
    ASSUME TypeOK, [Next]_vars
    PROVE  TypeOK'
<1>1. CASE UNCHANGED vars
  BY <1>1 DEF TypeOK, vars, requestVars, tableVars
<1>2. ASSUME NEW r \in Req, Opens(r)  PROVE TypeOK'
  BY <1>2 DEF Opens, Open, TypeOK, Ended, tableVars
<1>3. ASSUME NEW r \in Req, Answer(r)  PROVE TypeOK'
  <2>1. RevokedBy(r) \subseteq Req /\ owner[r] \in User /\ subject[r] \in Req
    BY DEF RevokedBy, Token, TypeOK
  <2> QED
    BY <1>3, <2>1 DEF Answer, TypeOK
<1>4. ASSUME NEW r \in Req, Abort(r)  PROVE TypeOK'
  BY <1>4 DEF Abort, TypeOK, tableVars
<1>5. ASSUME NEW r \in Req, Expire(r)  PROVE TypeOK'
  BY <1>5 DEF Expire, TypeOK, requestVars
<1> QED
  BY <1>1, <1>2, <1>3, <1>4, <1>5, NextCases

LEMMA PastHasEndedStep ==
    ASSUME TypeOK, PastHasEnded, [Next]_vars
    PROVE  PastHasEnded'
<1> USE DEF PastHasEnded
<1>1. CASE UNCHANGED vars
  BY <1>1 DEF Ended, Committed, vars, requestVars
<1>2. ASSUME NEW r \in Req, Opens(r)  PROVE PastHasEnded'
  BY <1>2, OpenChanges DEF Committed
<1>3. ASSUME NEW r \in Req, Answer(r)  PROVE PastHasEnded'
  BY <1>3, AnswerChanges
<1>4. ASSUME NEW r \in Req, Abort(r)  PROVE PastHasEnded'
  BY <1>4, AbortChanges
<1>5. ASSUME NEW r \in Req, Expire(r)  PROVE PastHasEnded'
  BY <1>5 DEF Expire, Ended, Committed, requestVars
<1> QED
  BY <1>1, <1>2, <1>3, <1>4, <1>5, NextCases

LEMMA PresentedStep ==
    ASSUME TypeOK, Presented, [Next]_vars
    PROVE  Presented'
<1> USE DEF Presented
<1>1. CASE UNCHANGED vars
  BY <1>1 DEF Token, Committed, vars, requestVars
<1>2. ASSUME NEW r \in Req, Opens(r)  PROVE Presented'
  <2>1. \A t \in Token : t # r /\ phase[t] # "idle" /\ kind[t] \in Minting /\ t \in Req
    BY <1>2, OpenChanges DEF Token, Committed
  <2>2. \A t \in Token : family[t] \in Token
    BY <2>1 DEF Minting
  <2>3. \A q \in Req \ {r} : phase[q] # "idle" =>
            /\ kind[q] \in {"refresh", "logout"} => subject[q] \in Token
            /\ kind[q] = "refresh" => /\ owner[q] = owner[subject[q]]
                                      /\ family[q] = family[subject[q]]
                                      /\ family[q] \in Token
            /\ kind[q] = "login" => family[q] = q
    OBVIOUS
  <2> QED
    BY <1>2, <2>1, <2>2, <2>3, OpenChanges
<1>3. ASSUME NEW r \in Req, Answer(r)  PROVE Presented'
  BY <1>3, AnswerChanges
<1>4. ASSUME NEW r \in Req, Abort(r)  PROVE Presented'
  BY <1>4, AbortChanges
<1>5. ASSUME NEW r \in Req, Expire(r)  PROVE Presented'
  BY <1>5 DEF Expire, Token, Committed, requestVars
<1> QED
  BY <1>1, <1>2, <1>3, <1>4, <1>5, NextCases

(* What has been written stays: a token that is committed later is in no   *)
(* earlier past, and a later reactivation ends the suspension's standing.  *)
LEMMA WrittenStep ==
    ASSUME TypeOK, PastHasEnded, Presented, Written, [Next]_vars
    PROVE  Written'
<1>1. CASE UNCHANGED vars
  BY <1>1 DEF Written, Revokes, Stands, UsedBy, Token, Committed, vars, requestVars, tableVars
<1>2. ASSUME NEW r \in Req, Opens(r)  PROVE Written'
  <2>1. /\ ~Committed(r) /\ r \notin Token
        /\ \A q \in Req : Committed(q)' <=> Committed(q)
    BY <1>2, OpenChanges DEF Committed, Token
  <2>2. \A l \in Req, t \in Token : Revokes(l, t)' => Revokes(l, t)
    BY <1>2, <2>1, OpenChanges DEF Revokes, Token
  <2>3. \A s \in Req : Stands(s)' => Stands(s) /\ owner'[s] = owner[s]
    BY <1>2, <2>1, OpenChanges DEF Stands
  <2>4. \A k, s \in Req : UsedBy(k, s)' => UsedBy(k, s)
    BY <1>2, <2>1, OpenChanges DEF UsedBy
  <2> QED
    BY <1>2, <2>2, <2>3, <2>4, OpenChanges DEF Written, tableVars
<1>3. ASSUME NEW r \in Req, Answer(r)  PROVE Written'
  <2>1. ASSUME NEW l \in Req, NEW t \in Token', Revokes(l, t)'  PROVE t \in revoked'
    <3>1. l \in Req /\ t \in Req /\ r \notin Token
      BY <1>3, AnswerChanges DEF Token
    <3>2. CASE l # r /\ t # r
      BY <1>3, <2>1, <3>2, AnswerChanges DEF Written, Revokes
    <3>3. CASE l = r
      <4>1. decision[r] = "grant" /\ t \in Token
        BY <1>3, <2>1, <3>3, AnswerChanges DEF Revokes, Presented, PastHasEnded, MassRevoking
      <4>2. t \in RevokedBy(r)
        BY <1>3, <2>1, <3>3, <4>1, AnswerChanges DEF Revokes, RevokedBy
      <4> QED
        BY <1>3, <4>1, <4>2 DEF Answer, RollsBack
    <3>4. CASE l # r /\ t = r
      BY <1>3, <2>1, <3>1, <3>4, AnswerChanges DEF Revokes, Presented, PastHasEnded, Committed
    <3> QED
      BY <3>2, <3>3, <3>4
  <2>2. ASSUME NEW s \in Req, Stands(s)'  PROVE owner'[s] \in inactive'
    <3>1. CASE s = r
      BY <1>3, <2>2, <3>1, AnswerChanges DEF Stands, Answer, RollsBack
    <3>2. CASE s # r
      <4>1. Stands(s) /\ owner[s] \in inactive
        BY <1>3, <2>2, <3>2, AnswerChanges DEF Stands, Written
      <4>2. ~(kind[r] = "activate" /\ decision[r] = "grant" /\ owner[r] = owner[s])
        BY <1>3, <2>2, AnswerChanges DEF Stands, PastHasEnded
      <4> QED
        BY <1>3, <4>1, <4>2 DEF Answer, RollsBack
    <3> QED
      BY <3>1, <3>2
  <2>3. ASSUME NEW k \in Req, NEW s \in Req, UsedBy(k, s)'  PROVE k \in spent'
    <3>1. CASE s = r
      BY <1>3, <2>3, <3>1, AnswerChanges DEF UsedBy, Answer, RollsBack
    <3>2. CASE s # r
      BY <1>3, <2>3, <3>2, AnswerChanges DEF UsedBy, Written
    <3> QED
      BY <3>1, <3>2
  <2> QED
    BY <2>1, <2>2, <2>3 DEF Written
<1>4. ASSUME NEW r \in Req, Abort(r)  PROVE Written'
  BY <1>4, AbortChanges DEF Written, Revokes, Stands, UsedBy, tableVars
<1>5. ASSUME NEW r \in Req, Expire(r)  PROVE Written'
  BY <1>5 DEF Expire, Written, Revokes, Stands, UsedBy, Token, Committed, requestVars
<1> QED
  BY <1>1, <1>2, <1>3, <1>4, <1>5, NextCases

(* A snapshot holds what its past has written, and nothing that commits    *)
(* later joins that past.                                                  *)
LEMMA GrantedStep ==
    ASSUME TypeOK, PastHasEnded, Presented, Written, Granted, [Next]_vars
    PROVE  Granted'
<1>1. CASE UNCHANGED vars
  BY <1>1 DEF Granted, GrantedTo, Revokes, Stands, UsedBy, Committed, vars, requestVars
<1>2. ASSUME NEW r \in Req, Opens(r)  PROVE Granted'
  <2>1. /\ ~Committed(r) /\ r \notin Token
        /\ \A q \in Req : Committed(q)' <=> Committed(q)
    BY <1>2, OpenChanges DEF Committed, Token
  <2> SUFFICES ASSUME NEW q \in Req, NEW l \in Req, GrantedTo(q)', l \in earlier'[q]
               PROVE  /\ kind'[q] = "refresh" => ~Revokes(l, subject[q])'
                      /\ kind'[q] \in Minting => ~(Stands(l)' /\ owner'[l] = owner'[q])
                      /\ kind'[q] = "reset_password" => ~UsedBy(subject[q], l)'
    BY DEF Granted
  <2>2. \A t \in Token : Revokes(l, t)' => Revokes(l, t)
    BY <1>2, <2>1, OpenChanges DEF Revokes, Token
  <2>3. Stands(l)' => Stands(l) /\ owner'[l] = owner[l]
    BY <1>2, <2>1, OpenChanges DEF Stands
  <2>4. \A k : UsedBy(k, l)' => UsedBy(k, l)
    BY <1>2, <2>1, OpenChanges DEF UsedBy
  <2>5. CASE q = r
    <3>1. decision'[r] = "grant"
      BY <2>5 DEF GrantedTo
    <3>2. kind'[r] = "refresh" => subject'[r] \in Token /\ subject'[r] \notin revoked
      BY <1>2, <3>1, OpenChanges
    <3>3. subject'[r] \in Req
      BY <1>2, TypeStep DEF Opens, Open, TypeOK
    <3> QED
      BY <1>2, <2>2, <2>3, <2>4, <2>5, <3>1, <3>2, <3>3, OpenChanges DEF Written
  <2>6. CASE q # r
    <3>1. /\ GrantedTo(q) /\ l \in earlier[q] /\ kind'[q] = kind[q]
          /\ owner'[q] = owner[q] /\ subject'[q] = subject[q] /\ phase[q] # "idle"
      BY <1>2, <2>6, OpenChanges DEF GrantedTo
    <3>2. kind[q] = "refresh" => subject[q] \in Token
      BY <3>1 DEF Presented
    <3> QED
      BY <2>2, <2>3, <2>4, <3>1, <3>2 DEF Granted
  <2> QED
    BY <2>5, <2>6
<1>3. ASSUME NEW r \in Req, Answer(r)  PROVE Granted'
  <2> SUFFICES ASSUME NEW q \in Req, NEW l \in Req, GrantedTo(q)', l \in earlier'[q]
               PROVE  /\ kind'[q] = "refresh" => ~Revokes(l, subject[q])'
                      /\ kind'[q] \in Minting => ~(Stands(l)' /\ owner'[l] = owner'[q])
                      /\ kind'[q] = "reset_password" => ~UsedBy(subject[q], l)'
    BY DEF Granted
  <2>1. l # r /\ GrantedTo(q) /\ l \in earlier[q]
    BY <1>3, AnswerChanges DEF GrantedTo, PastHasEnded
  <2>2. /\ \A t : Revokes(l, t)' => Revokes(l, t)
        /\ Stands(l)' => Stands(l)
        /\ \A k : UsedBy(k, l)' => UsedBy(k, l)
    BY <1>3, <2>1, AnswerChanges DEF Revokes, Stands, UsedBy
  <2> QED
    BY <1>3, <2>1, <2>2, AnswerChanges DEF Granted
<1>4. ASSUME NEW r \in Req, Abort(r)  PROVE Granted'
  BY <1>4, AbortChanges DEF Granted, GrantedTo, Revokes, Stands, UsedBy
<1>5. ASSUME NEW r \in Req, Expire(r)  PROVE Granted'
  BY <1>5 DEF Expire, Granted, GrantedTo, Revokes, Stands, UsedBy, Committed, requestVars
<1> QED
  BY <1>1, <1>2, <1>3, <1>4, <1>5, NextCases

(* A rotation gives a family a new end and takes the one it presented; if  *)
(* that one had been taken before, the two rotations overlapped.           *)
LEMMA OneEndPerFamilyStep ==
    ASSUME TypeOK, PastHasEnded, Presented, Granted, OneEndPerFamily, [Next]_vars
    PROVE  OneEndPerFamily'
<1>1. CASE UNCHANGED vars
  BY <1>1 DEF OneEndPerFamily, Rotated, Forked, Token, Committed, vars, requestVars
<1>2. ASSUME NEW r \in Req, Opens(r)  PROVE OneEndPerFamily'
  <2>1. /\ Token' = Token
        /\ \A t \in Token : /\ kind'[t] = kind[t] /\ subject'[t] = subject[t]
                            /\ family'[t] = family[t] /\ earlier'[t] = earlier[t]
    BY <1>2, OpenChanges DEF Token, Committed
  <2>2. \A t \in Token : Rotated(t)' <=> Rotated(t)
    BY <2>1 DEF Rotated
  <2>3. \A f : Forked(f)' <=> Forked(f)
    BY <2>1 DEF Forked
  <2> QED
    BY <2>1, <2>2, <2>3 DEF OneEndPerFamily
<1>3. ASSUME NEW r \in Req, Answer(r)  PROVE OneEndPerFamily'
  <2>1. /\ Token \subseteq Token' /\ Token' \subseteq Token \cup {r} /\ r \notin Token
        /\ r \in Token' => GrantedTo(r) /\ kind[r] \in Minting
        /\ UNCHANGED <<kind, owner, subject, family, earlier>>
    BY <1>3, AnswerChanges DEF Token, GrantedTo
  <2>2. \A f : Forked(f) => Forked(f)'
    BY <2>1 DEF Forked
  <2>3. \A t \in Token : Rotated(t) => Rotated(t)'
    BY <2>1 DEF Rotated
  <2>4. ASSUME NEW t \in Token, r \in Token', family[t] = family[r], ~Rotated(t)'
        PROVE  Forked(family[r])'
    <3>1. kind[r] # "login"
      <4> SUFFICES ASSUME kind[r] = "login" PROVE FALSE
        OBVIOUS
      <4>1. family[r] = r
        BY <1>3, AnswerChanges DEF Presented
      <4>2. phase[t] # "idle" /\ kind[t] \in Minting /\ t # r /\ t \in Req
        BY <2>1 DEF Token, Committed
      <4> QED
        BY <2>1, <2>4, <4>1, <4>2 DEF Presented, Minting
    <3>2. kind[r] = "refresh"
      BY <2>1, <2>4, <3>1 DEF Minting
    <3> DEFINE p == subject[r]
    <3>3. p \in Token /\ family[p] = family[r]
      BY <1>3, <3>2, AnswerChanges DEF Presented
    <3>4. t # p
      BY <2>1, <2>4, <3>2 DEF Rotated
    <3>5. CASE ~Rotated(p)
      <4>1. ~Rotated(t)
        BY <2>3, <2>4
      <4>2. Forked(family[r])
        BY <2>4, <3>3, <3>4, <3>5, <4>1 DEF OneEndPerFamily
      <4>3. family'[r] = family[r]
        BY <2>1
      <4> QED
        BY <2>2, <4>2, <4>3
    <3>6. CASE Rotated(p)
      <4>1. PICK c \in Token : kind[c] = "refresh" /\ subject[c] = p
        BY <3>6 DEF Rotated
      <4>2. c # r /\ c \in Req /\ Committed(c) /\ phase[c] # "idle"
        BY <2>1 DEF Token, Committed
      <4>3. family[c] = family[r]
        BY <3>3, <4>1, <4>2 DEF Presented
      <4>4. r \notin earlier[c]
        BY <1>3, <4>2, AnswerChanges DEF PastHasEnded
      <4>5. c \notin earlier[r]
        BY <2>1, <2>4, <3>2, <4>1, <4>2 DEF Granted, Revokes
      <4> QED
        BY <2>1, <2>4, <3>2, <4>1, <4>2, <4>3, <4>4, <4>5 DEF Forked
    <3> QED
      BY <3>5, <3>6
  <2>5. ASSUME NEW s \in Token', NEW t \in Token', s # t, family'[s] = family'[t],
               ~Rotated(s)', ~Rotated(t)'
        PROVE  Forked(family[s])'
    <3>1. CASE s \in Token /\ t \in Token
      <4>1. Forked(family[s])
        BY <2>1, <2>3, <2>5, <3>1 DEF OneEndPerFamily
      <4>2. family'[s] = family[s]
        BY <2>1
      <4> QED
        BY <2>2, <4>1, <4>2
    <3>2. CASE s = r /\ t \in Token
      BY <2>1, <2>4, <2>5, <3>2
    <3>3. CASE s \in Token /\ t = r
      <4>1. Forked(family[r])' /\ family'[s] = family'[r]
        BY <2>1, <2>4, <2>5, <3>3
      <4> QED
        BY <4>1
    <3> QED
      BY <2>1, <2>5, <3>1, <3>2, <3>3
  <2> QED
    BY <2>5 DEF OneEndPerFamily
<1>4. ASSUME NEW r \in Req, Abort(r)  PROVE OneEndPerFamily'
  BY <1>4, AbortChanges DEF OneEndPerFamily, Rotated, Forked
<1>5. ASSUME NEW r \in Req, Expire(r)  PROVE OneEndPerFamily'
  BY <1>5 DEF Expire, OneEndPerFamily, Rotated, Forked, Token, Committed, requestVars
<1> QED
  BY <1>1, <1>2, <1>3, <1>4, <1>5, NextCases

----------------------------------------------------------------------------
(* The inductive invariant holds of every reachable state. *)
THEOREM SessionsInvariant == Spec => []SessionsInv
<1>1. SessionsInv /\ [Next]_vars => SessionsInv'
  BY TypeStep, PastHasEndedStep, PresentedStep, WrittenStep, GrantedStep, OneEndPerFamilyStep
     DEF SessionsInv
<1> QED
  BY InitInvariant, <1>1, PTL DEF Spec

(* Every variable of the session model keeps its type. *)
THEOREM SessionsType == Spec => []TypeOK
<1>1. SessionsInv => TypeOK
  BY DEF SessionsInv
<1> QED
  BY <1>1, SessionsInvariant, PTL

(* A refresh that starts after a logout, a rotation, a logout-all, a       *)
(* password change or a reset was answered cannot use a token they revoked *)
(* (the revoked check of rotate_refresh_token and the single transaction). *)
THEOREM SessionsRevocationIsEffective == Spec => []RevocationIsEffective
<1>1. SessionsInv => RevocationIsEffective
  BY DEF SessionsInv, RevocationIsEffective, Granted, GrantedTo, PastHasEnded, Token, Committed
<1> QED
  BY <1>1, SessionsInvariant, PTL

(* A family has one live token, unless two refreshes of a token overlapped *)
(* (rotate_refresh_token revokes the token in the transaction that mints). *)
THEOREM SessionsOneLiveToken == Spec => []OneLiveTokenPerFamily
<1>1. SessionsInv => OneLiveTokenPerFamily
  <2> SUFFICES ASSUME SessionsInv, NEW s \in Token \ revoked, NEW t \in Token \ revoked,
                      s # t, family[s] = family[t]
               PROVE  Forked(family[s])
    BY DEF OneLiveTokenPerFamily
  <2>1. \A u \in Token : Rotated(u) => u \in revoked
    BY DEF SessionsInv, Rotated, Written, Revokes, Token
  <2> QED
    BY <2>1 DEF SessionsInv, OneEndPerFamily
<1> QED
  BY <1>1, SessionsInvariant, PTL

(* A reset link changes one password, unless two resets with it overlapped *)
(* (the used_at check of reset_password).                                  *)
THEOREM SessionsResetLinkIsSpent == Spec => []ResetLinkIsSpent
<1>1. SessionsInv => ResetLinkIsSpent
  BY DEF SessionsInv, ResetLinkIsSpent, UsedBy, Granted, GrantedTo, PastHasEnded, Committed
<1> QED
  BY <1>1, SessionsInvariant, PTL

(* While a suspension stands, no request that starts after it mints a      *)
(* token (the status checks of authenticate and rotate_refresh_token).     *)
THEOREM SessionsSuspensionIsEffective == Spec => []SuspensionIsEffective
<1>1. SessionsInv => SuspensionIsEffective
  BY DEF SessionsInv, SuspensionIsEffective, Granted, GrantedTo, PastHasEnded, Token, Committed,
         Stands
<1> QED
  BY <1>1, SessionsInvariant, PTL
=============================================================================
