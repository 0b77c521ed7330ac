------------------------------ MODULE Sessions ------------------------------
(***************************************************************************)
(* Sign-in, refresh-token rotation, revocation, password reset and account *)
(* suspension: services/auth_service.py, its endpoints, and the request    *)
(* transaction of core/database.py.                                        *)
(*                                                                         *)
(* A request is one InnoDB transaction at the default isolation level,     *)
(* REPEATABLE READ.  Its first SELECT takes a snapshot, and the handler    *)
(* decides from that snapshot alone: opening a request records the         *)
(* decision.  Its writes see and change the current rows and hold their    *)
(* row and gap locks to the end of the transaction, so two requests that   *)
(* write the same user's tokens are serialised from their first write to   *)
(* their commit: the writes are one step, Answer.  Between the two steps   *)
(* any other request may open and answer.                                  *)
(*                                                                         *)
(* A refresh token is named by the request that minted it, and so is a     *)
(* reset link by the request that sent it.                                 *)
(***************************************************************************)
EXTENDS Naturals, FiniteSets

CONSTANTS
    Req,    \* BOUND: the requests that are ever made
    User

ASSUME SessionsAssumption == User # {}

VARIABLES
    phase,      \* phase[r]: "idle", "open", then "done", "refused" or "failed"
    kind,       \* kind[r]: the endpoint that r called
    owner,      \* owner[r]: the user that r acts for or upon
    subject,    \* subject[r]: the token or reset link presented to r
    family,     \* family[r]: the family_id of the token that r mints
    decision,   \* decision[r]: what the handler decided from its snapshot
    earlier,    \* earlier[r]: the requests that had ended when r opened
    revoked,    \* the tokens whose revoked_at is set
    spent,      \* the reset links whose used_at is set
    expired,    \* the tokens and links whose expires_at has passed
    inactive    \* the users whose status is not "active"

requestVars == <<phase, kind, owner, subject, family, decision, earlier>>
tableVars == <<revoked, spent, expired, inactive>>
vars == <<requestVars, tableVars>>

Minting == {"login", "refresh"}
MassRevoking == {"logout_all", "reset_password"}
Kinds == Minting \cup MassRevoking
             \cup {"none", "logout", "forgot_password", "suspend", "activate", "no_change"}

(* The rows of refresh_tokens and password_resets that are committed. *)
Committed(r) == phase[r] = "done"
Token == {r \in Req : Committed(r) /\ kind[r] \in Minting}
Link == {r \in Req : Committed(r) /\ kind[r] = "forgot_password"}
Ended == {r \in Req : phase[r] \in {"done", "refused", "failed"}}

Init ==
    /\ phase = [r \in Req |-> "idle"]
    /\ kind = [r \in Req |-> "none"]
    /\ owner = [r \in Req |-> CHOOSE u \in User : TRUE]
    /\ subject = [r \in Req |-> r]
    /\ family = [r \in Req |-> r]
    /\ decision = [r \in Req |-> "none"]
    /\ earlier = [r \in Req |-> {}]
    /\ revoked = {} /\ spent = {} /\ expired = {} /\ inactive = {}

----------------------------------------------------------------------------
(* What each handler decides, from the rows of its snapshot.  A definition *)
(* X_Fault, here and below, is a faulty X that a property must exclude.    *)

(* A suspended user is refused a login and an authenticated request. *)
ActiveOnly(u) == IF u \in inactive THEN "refuse" ELSE "grant"

(* The checks of rotate_refresh_token, in their order. *)
RefreshDecision_NoReuseCheck(t) ==
    IF t \in expired \/ owner[t] \in inactive THEN "refuse" ELSE "grant"
RefreshDecision_NoStatusCheck(t) ==
    IF t \in revoked THEN "reuse" ELSE IF t \in expired THEN "refuse" ELSE "grant"
RefreshDecision(t) ==
    IF t \in revoked THEN "reuse"
    ELSE IF t \in expired \/ owner[t] \in inactive THEN "refuse"
    ELSE "grant"

(* The check of reset_password: a suspended user may reset. *)
ResetDecision_LinkNotSpent(k) == IF k \in expired THEN "refuse" ELSE "grant"
ResetDecision(k) == IF k \in spent \/ k \in expired THEN "refuse" ELSE "grant"

Open(r, what, user, presented, fam, decided) ==
    /\ phase[r] = "idle"
    /\ phase' = [phase EXCEPT ![r] = "open"]
    /\ kind' = [kind EXCEPT ![r] = what]
    /\ owner' = [owner EXCEPT ![r] = user]
    /\ subject' = [subject EXCEPT ![r] = presented]
    /\ family' = [family EXCEPT ![r] = fam]
    /\ decision' = [decision EXCEPT ![r] = decided]
    /\ earlier' = [earlier EXCEPT ![r] = Ended]
    /\ UNCHANGED tableVars

(* login: a fresh token in a family of its own. *)
Login_FamilyIsUser(r, u) == Open(r, "login", u, r, u, ActiveOnly(u))
Login(r, u) == Open(r, "login", u, r, r, ActiveOnly(u))

(* refresh: the token presented, by its owner or by whoever holds it. *)
Refresh(r, t) ==
    t \in Token /\ Open(r, "refresh", owner[t], t, family[t], RefreshDecision(t))

(* logout reads nothing: it cannot be refused. *)
Logout(r, t) == t \in Token /\ Open(r, "logout", owner[t], t, r, "grant")

(* logout_all, and change_password once it has verified the password. *)
LogoutAll(r, u) == Open(r, "logout_all", u, r, r, ActiveOnly(u))

ForgotPassword(r, u) == Open(r, "forgot_password", u, r, r, "grant")

ResetPassword(r, k) ==
    k \in Link /\ Open(r, "reset_password", owner[k], k, r, ResetDecision(k))

(* An administrator sets a user's status.  If that is the status in the    *)
(* snapshot, no UPDATE is sent, whatever the row says by then.             *)
UpdateUser(r, u, what) ==
    /\ what \in {"suspend", "activate"}
    /\ LET same == (what = "suspend") = (u \in inactive)
       IN  Open(r, IF same THEN "no_change" ELSE what, u, r, r, "grant")

----------------------------------------------------------------------------
(* The tokens that a request's UPDATE statements set revoked_at on: the    *)
(* one presented, its family when it is a reused one, or all of a user's.  *)
RevokedBy_ParentKept(r) ==
    {t \in Token : \/ kind[r] = "logout" /\ t = subject[r]
                   \/ kind[r] \in MassRevoking /\ owner[t] = owner[r]}
RevokedBy(r) ==
    {t \in Token : \/ kind[r] \in {"logout", "refresh"} /\ t = subject[r]
                   \/ kind[r] = "refresh" /\ decision[r] = "reuse" /\ family[t] = family[subject[r]]
                   \/ kind[r] \in MassRevoking /\ owner[t] = owner[r]}

(* A handler that does not grant raises, and get_db rolls back whatever    *)
(* the handler wrote; otherwise get_db commits it all, and only then is    *)
(* the response sent.                                                      *)
RollsBack(r) == decision[r] # "grant"
Answer(r) ==
    /\ phase[r] = "open"
    /\ IF RollsBack(r)
       THEN /\ phase' = [phase EXCEPT ![r] = "refused"]
            /\ UNCHANGED <<revoked, spent, inactive>>
       ELSE /\ phase' = [phase EXCEPT ![r] = "done"]
            /\ revoked' = revoked \cup RevokedBy(r)
            /\ spent' = IF kind[r] = "reset_password" THEN spent \cup {subject[r]} ELSE spent
            /\ inactive' = IF kind[r] = "suspend" THEN inactive \cup {owner[r]}
                           ELSE IF kind[r] = "activate" THEN inactive \ {owner[r]}
                           ELSE inactive
    /\ UNCHANGED <<kind, owner, subject, family, decision, earlier, expired>>

(* A deadlock victim, a lock wait timeout, a lost connection or a crash. *)
Abort(r) ==
    /\ phase[r] = "open"
    /\ phase' = [phase EXCEPT ![r] = "failed"]
    /\ UNCHANGED <<kind, owner, subject, family, decision, earlier, tableVars>>

(* Time passes the expires_at of a token or of a link. *)
Expire(t) ==
    /\ t \in (Token \cup Link) \ expired
    /\ expired' = expired \cup {t}
    /\ UNCHANGED <<requestVars, revoked, spent, inactive>>

Next ==
    \E r \in Req :
        \/ \E u \in User : \/ Login(r, u) \/ LogoutAll(r, u) \/ ForgotPassword(r, u)
                           \/ UpdateUser(r, u, "suspend") \/ UpdateUser(r, u, "activate")
        \/ \E t \in Req : Refresh(r, t) \/ Logout(r, t) \/ ResetPassword(r, t)
        \/ Answer(r) \/ Abort(r) \/ Expire(r)

Spec == Init /\ [][Next]_vars

----------------------------------------------------------------------------
TypeOK ==
    /\ phase \in [Req -> {"idle", "open", "done", "refused", "failed"}]
    /\ kind \in [Req -> Kinds]
    /\ owner \in [Req -> User]
    /\ subject \in [Req -> Req]
    /\ family \in [Req -> Req]
    /\ decision \in [Req -> {"none", "grant", "refuse", "reuse"}]
    /\ earlier \in [Req -> SUBSET Req]
    /\ revoked \subseteq Req /\ spent \subseteq Req /\ expired \subseteq Req
    /\ inactive \subseteq User

(* Committed request l revokes token t: it presented t, or it revoked all  *)
(* tokens of t's owner after t was issued.                                 *)
Revokes(l, t) ==
    /\ Committed(l)
    /\ \/ kind[l] \in {"logout", "refresh"} /\ subject[l] = t
       \/ kind[l] \in MassRevoking /\ owner[l] = owner[t] /\ t \in earlier[l]

(* Once a logout, a rotation, a logout-all, a password change or a reset   *)
(* that covers a token has been answered, no refresh that starts later can *)
(* turn this token into a new one (rotate_refresh_token's revoked check).  *)
RevocationIsEffective ==
    \A t \in Token, l \in Req :
        kind[t] = "refresh" /\ Revokes(l, subject[t]) => l \notin earlier[t]

(* Two rotations of one token, neither of which started after the other    *)
(* had ended.                                                              *)
Forked(f) ==
    \E s, t \in Token :
        /\ s # t /\ family[s] = f /\ family[t] = f
        /\ kind[s] = "refresh" /\ kind[t] = "refresh" /\ subject[s] = subject[t]
        /\ s \notin earlier[t] /\ t \notin earlier[s]

(* A sign-in has at most one live refresh token, however often it was      *)
(* rotated, unless one token was presented by two overlapping refreshes.   *)
OneLiveTokenPerFamily ==
    \A s, t \in Token \ revoked :
        s # t /\ family[s] = family[t] => Forked(family[s])

(* A reset link changes the password once, or twice by overlapping resets. *)
UsedBy(k, r) == Committed(r) /\ kind[r] = "reset_password" /\ subject[r] = k
ResetLinkIsSpent ==
    \A k, s, t \in Req : s # t /\ UsedBy(k, s) /\ UsedBy(k, t) => s \notin earlier[t]

(* While a suspension stands, with every reactivation answered before it   *)
(* began, no request that starts after it mints a token for the user: not  *)
(* by a login, and not by a refresh token that is still live.              *)
Stands(s) ==
    /\ Committed(s) /\ kind[s] = "suspend"
    /\ \A a \in Req : Committed(a) /\ kind[a] = "activate" /\ owner[a] = owner[s] => a \in earlier[s]
SuspensionIsEffective ==
    \A s \in Req, t \in Token : Stands(s) /\ owner[s] = owner[t] => s \notin earlier[t]

(* "If a *revoked* token from a family is presented again, we treat it as  *)
(* theft and revoke the whole family" (auth_service.py, docstring).        *)
ReuseRevokesFamily ==
    \A r \in Req :
        phase[r] = "refused" /\ decision[r] = "reuse" =>
            {t \in Token \cap earlier[r] : family[t] = family[subject[r]]} \subseteq revoked

(* "Force re-login everywhere after a password change" (endpoints/auth.py, *)
(* change_password): a session opened before it has no live token left.    *)
RevokeAllEndsSessions ==
    \A l \in Req, t \in Token \ revoked :
        Committed(l) /\ kind[l] \in MassRevoking /\ owner[l] = owner[t]
            => family[t] \notin earlier[l]
=============================================================================
