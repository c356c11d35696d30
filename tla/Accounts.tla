------------------------------- MODULE Accounts -------------------------------
(***************************************************************************)
(* Users of organizations and their refresh tokens                         *)
(* (src/modules/auth/auth.service.ts,                                      *)
(* src/modules/organizations/organizations.service.ts).  A login starts a  *)
(* family of tokens; each refresh replaces the family's token by a new     *)
(* one.                                                                    *)
(***************************************************************************)
EXTENDS Tables

CONSTANTS UserRoles   \* roles that are given

TokenKinds == {"register", "login", "refresh", "logout", "logout_all"}
UserKinds == {"invite_user", "user_role", "revoke_user"}
RecoveryKinds == {"forgot_password", "reset_password", "verify_email", "resend_email"}
AccountKinds == TokenKinds \cup UserKinds \cup RecoveryKinds

User(org, role) == [org |-> org, role |-> role, active |-> TRUE, password |-> 1,
                    reset |-> FALSE, verified |-> FALSE, verification |-> FALSE]
Token(user, family) == [user |-> user, family |-> family, revoked |-> FALSE, replaced |-> FALSE]

AccountJob(kind, phase, id, next, then) ==
  [kind |-> kind, at |-> NoProcess, phase |-> phase, row |-> id, next |-> next, dirty |-> {},
   then |-> then]

\* UPDATE of every token that satisfies which(_).
Revoked(which(_)) ==
  [id \in DOMAIN rows |-> IF id \in Existing("token") /\ which(rows[id])
                          THEN [rows[id] EXCEPT !.revoked = TRUE] ELSE rows[id]]
OfUser(u) == Revoked(LAMBDA t : t.user = u)

-------------------------------------------------------------------------------
(* Tokens. *)

\* register() looks for the address first.
Register(q) ==
  /\ \E taken \in BOOLEAN :
       Begins(q, IF taken THEN Answered("register", "refused")
                 ELSE AccountJob("register", "org", <<"user", 1>>, NoRow, "ok"))
  /\ UNCHANGED rows

\* An organization of its own, its admin and the membership in one transaction.
CreateAdmin(q) ==
  /\ At(q, {"register"}, "org")
  /\ Free("user") # {}
  /\ rows' = [rows EXCEPT ![FirstFree("user")] = User(q, "admin")]
  /\ job' = [job EXCEPT ![q].phase = "insert", ![q].next = Token(FirstFree("user"), q)]
  /\ UNCHANGED <<alone, faults>>

\* login() checks the user first; issueTokenPair() inserts the token of a new family.
Login(q) ==
  /\ \E u \in Existing("user"), known \in BOOLEAN :
       Begins(q, IF rows[u].active /\ known
                 THEN AccountJob("login", "insert", u, Token(u, q), "ok")
                 ELSE Answered("login", "refused"))
  /\ UNCHANGED rows

\* refresh() reads the token.  The revocation of the family by a token that is revoked
\* already is rolled back by the exception that follows it.
Refresh(q) ==
  /\ \E t \in Existing("token"), expired \in BOOLEAN :
       Begins(q, IF expired \/ rows[t].revoked THEN Answered("refresh", "refused")
                 ELSE AccountJob("refresh", "user", t,
                                 [rows[t] EXCEPT !.revoked = TRUE, !.replaced = TRUE], "ok"))
  /\ UNCHANGED rows

\* findOneByOrFail() of the active user.
ReadUser(q) ==
  /\ At(q, {"refresh"}, "user")
  /\ IF rows[job[q].next.user].active THEN Goes(q, "rotate") ELSE Ends(q, "refused")
  /\ UNCHANGED rows

\* The commit of a rotation that keeps the old token.
RotateKeepingOld(q) ==
  /\ At(q, {"refresh"}, "rotate")
  /\ Free("token") # {}
  /\ rows' = [rows EXCEPT ![FirstFree("token")] = Token(job[q].next.user, job[q].next.family)]
  /\ Goes(q, "ok")

\* The new token and the old one, visible to others at the commit.
Rotate(q) ==
  /\ At(q, {"refresh"}, "rotate")
  /\ Free("token") # {}
  /\ rows' = [rows EXCEPT ![FirstFree("token")] = Token(job[q].next.user, job[q].next.family),
                          ![job[q].row] = job[q].next]
  /\ Goes(q, "ok")

Logout(q) ==
  \E t \in Existing("token") :
    /\ Begins(q, Answered("logout", "ok"))
    /\ rows' = [rows EXCEPT ![t].revoked = TRUE]

LogoutAll(q) ==
  \E u \in Existing("user") : Begins(q, Answered("logout_all", "ok")) /\ rows' = OfUser(u)

-------------------------------------------------------------------------------
(* The organization's admins.  The caller's role is the one in its access token. *)

InviteUser(q) ==
  /\ \E r \in UserRoles, u \in Existing("user"), taken \in BOOLEAN :
       Begins(q, IF taken THEN Answered("invite_user", "refused")
                 ELSE AccountJob("invite_user", "insert", u, User(rows[u].org, r), "audit"))
  /\ UNCHANGED rows

\* updateUserRole() reads the user; the same role is answered at once.
UpdateUserRole(q) ==
  /\ \E u \in Existing("user"), r \in UserRoles :
       Begins(q, IF rows[u].role = r THEN Answered("user_role", "ok")
                 ELSE AccountJob("user_role", IF rows[u].role = "admin" THEN "count" ELSE "diff", u,
                                 [rows[u] EXCEPT !.role = r], "audit"))
  /\ UNCHANGED rows

RevokeUser(q) ==
  /\ \E u \in Existing("user") :
       Begins(q, AccountJob("revoke_user", IF rows[u].role = "admin" THEN "count" ELSE "diff", u,
                            [rows[u] EXCEPT !.active = FALSE], "tokens"))
  /\ UNCHANGED rows

ActiveAdmins(org) ==
  {u \in Existing("user") : rows[u].org = org /\ rows[u].role = "admin" /\ rows[u].active}

\* A count of the admins that forgets to ask for active ones.
CountEveryAdmin(q) ==
  /\ At(q, UserKinds, "count")
  /\ Goes(q, IF Cardinality({u \in Existing("user") : rows[u].role = "admin"}) <= 1
             THEN "recheck" ELSE "diff")
  /\ UNCHANGED rows

\* assertNotLastActiveAdmin(): the count and, if it is low, the user again.
CountAdmins(q) ==
  /\ At(q, UserKinds, "count")
  /\ Goes(q, IF Cardinality(ActiveAdmins(rows[job[q].row].org)) <= 1 THEN "recheck" ELSE "diff")
  /\ UNCHANGED rows

RecheckUser(q) ==
  /\ At(q, UserKinds, "recheck")
  /\ IF rows[job[q].row].role = "admin" THEN Ends(q, "refused") ELSE Goes(q, "diff")
  /\ UNCHANGED rows

RevokeTokens(q) ==
  /\ At(q, {"revoke_user"}, "tokens")
  /\ rows' = OfUser(job[q].row)
  /\ Goes(q, "audit")

-------------------------------------------------------------------------------
(* Recovery and verification: a mark of an issued token that a later request uses up. *)

Recover(q, kind, allowed(_), next(_)) ==
  /\ \E u \in Existing("user") :
       Begins(q, IF allowed(rows[u]) THEN AccountJob(kind, "diff", u, next(rows[u]), "ok")
                 ELSE Answered(kind, "refused"))
  /\ UNCHANGED rows

ForgotPassword(q) ==
  Recover(q, "forgot_password", LAMBDA u : TRUE, LAMBDA u : [u EXCEPT !.reset = TRUE])
VerifyEmail(q) ==
  Recover(q, "verify_email", LAMBDA u : u.verification,
          LAMBDA u : [u EXCEPT !.verified = TRUE, !.verification = FALSE])
ResendVerification(q) ==
  Recover(q, "resend_email", LAMBDA u : ~u.verified, LAMBDA u : [u EXCEPT !.verification = TRUE])
ResetPassword(q) ==
  Recover(q, "reset_password", LAMBDA u : u.reset,
          LAMBDA u : [u EXCEPT !.password = @ + 1, !.reset = FALSE])

\* resetPassword() commits the user and the revocation of all tokens together.
CommitReset(q) ==
  /\ At(q, {"reset_password"}, "write")
  /\ rows' = [OfUser(job[q].row) EXCEPT ![job[q].row] = Written(@, job[q].next, job[q].dirty)]
  /\ Goes(q, "ok")

-------------------------------------------------------------------------------
SaveAccount(q) ==
  \/ InsertRow(q, TokenKinds, "token")
  \/ InsertRow(q, UserKinds, "user")
  \/ DiffRow(q, AccountKinds)
  \/ WriteRow(q, AccountKinds \ {"reset_password"})
  \/ AuditedRow(q, AccountKinds)

AccountFails(q) == job[q].kind \in AccountKinds /\ Fails(q) /\ UNCHANGED rows

AccountNext ==
  \E q \in Requests :
    \/ Register(q) \/ CreateAdmin(q) \/ Login(q) \/ Refresh(q) \/ ReadUser(q) \/ Rotate(q) \/ Logout(q)
    \/ LogoutAll(q) \/ InviteUser(q) \/ UpdateUserRole(q) \/ RevokeUser(q) \/ CountAdmins(q)
    \/ RecheckUser(q) \/ RevokeTokens(q) \/ ForgotPassword(q) \/ VerifyEmail(q)
    \/ ResendVerification(q) \/ ResetPassword(q) \/ CommitReset(q) \/ SaveAccount(q)
    \/ AccountFails(q)

\* The accounts on their own, from an empty database of n rows a table.
AccountInit == RequestInit /\ \E n \in Nat : rows = [id \in {"user", "token"} \X (1..n) |-> NoRow]
AccountSpec == AccountInit /\ [][AccountNext]_<<requestVars, rows>>

-------------------------------------------------------------------------------
\* Every organization keeps an active admin, unless two requests about users overlapped.
AdminRemains ==
  \/ \A u \in Existing("user") : ActiveAdmins(rows[u].org) # {}
  \/ \E q \in Requests : job[q].kind \in UserKinds \cup RecoveryKinds /\ ~alone[q]

\* q has rotated a token of the family while another request was at work.
RotatedAside(q, family) ==
  /\ job[q].kind = "refresh" /\ job[q].phase = "ok" /\ ~alone[q]
  /\ job[q].next.family = family

\* A family has one token at a time that can be refreshed, unless two refreshes of that very
\* family were each overlapped by another request and both rotated its token.
OneLiveTokenPerFamily ==
  \A x, y \in Existing("token") :
    x # y /\ rows[x].family = rows[y].family /\ ~rows[x].revoked /\ ~rows[y].revoked
      => \E q, r \in Requests : /\ q # r
                               /\ RotatedAside(q, rows[x].family) /\ RotatedAside(r, rows[x].family)
===============================================================================
