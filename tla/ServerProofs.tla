------------------------------ MODULE ServerProofs ------------------------------
(***************************************************************************)
(* Proofs about components of the server: the users of organizations and   *)
(* their tokens, then the members of workspaces and organizations and the  *)
(* sockets of these people, for any number of requests, rows, sockets,     *)
(* rooms, processes and failed calls; about all of them together, from the *)
(* rows that TLC begins with; and about the outbox, for any number of      *)
(* publishers, rows, attempts and any batch size.                          *)
(***************************************************************************)
EXTENDS MCServer, Outbox, FiniteSetTheorems, RequestProofs

UserColumns == {"org", "role", "active", "password", "reset", "verified", "verification"}
TokenColumns == {"user", "family", "revoked", "replaced"}

UserRow(r) == r = [c \in UserColumns |-> r[c]] /\ r.active \in BOOLEAN
TokenRow(r) == r = [c \in TokenColumns |-> r[c]] /\ r.revoked \in BOOLEAN

AccountTables ==
  /\ rows = [id \in DOMAIN rows |-> rows[id]]
  /\ \A id \in DOMAIN rows : id[2] \in Nat \ {0}
  /\ \A u \in Existing("user") : UserRow(rows[u])
  /\ \A t \in Existing("token") : TokenRow(rows[t])

\* How far a request of each kind can be, and where its save() leads.
PhaseOK(q) ==
  /\ job[q].kind \in {"register", "login"} =>
       job[q].phase \in {"org", "insert"} \cup Outcomes
  /\ job[q].kind = "login" => job[q].phase # "org"
  /\ job[q].kind = "refresh" => job[q].phase \in {"user", "rotate"} \cup Outcomes
  /\ job[q].kind \in {"logout", "logout_all"} => job[q].phase \in Outcomes
  /\ job[q].kind \in RecoveryKinds => job[q].phase \in {"diff", "write"} \cup Outcomes
  /\ job[q].kind \in UserKinds =>
       job[q].phase \in {"count", "recheck", "diff", "write", "tokens", "audit"} \cup Outcomes
                        \cup (IF job[q].kind = "invite_user" THEN {"insert"} ELSE {})
  /\ Busy(q) /\ job[q].kind \in AccountKinds => JobFields \cup {"row", "next", "then"} \subseteq DOMAIN job[q]
  /\ Busy(q) /\ job[q].kind \in TokenKinds \ {"refresh"} => job[q].then = "ok"
  /\ Busy(q) /\ job[q].kind \in RecoveryKinds => job[q].then = "ok"
  /\ Busy(q) /\ job[q].kind \in UserKinds => job[q].then \in {"audit", "tokens"}
  /\ Busy(q) /\ job[q].kind = "invite_user" => job[q].phase \in {"insert", "audit"} /\ job[q].then = "audit"

(* Tokens: a family begins with the token of the request it is named for. *)

\* q may still begin a family.
BeginsFamily(q) ==
  \/ job[q].kind = "none"
  \/ At(q, {"register"}, "org")
  \/ At(q, {"register", "login"}, "insert")

Unused(family) == \A t \in Existing("token") : rows[t].family # family

\* The token that q has read is the family's last, or another refresh has rotated it.
HoldsLast(q) ==
  \/ ~rows[job[q].row].revoked
  \/ \A t \in Existing("token") : rows[t].family = job[q].next.family => rows[t].revoked
  \/ \E r \in Requests \ {q} : RotatedAside(r, job[q].next.family)

\* The token read by a refresh that is alone has not been revoked since.
RefreshOK(q) ==
  /\ job[q].row \in Existing("token") /\ TokenRow(job[q].next)
  /\ job[q].next.family = rows[job[q].row].family
  /\ job[q].next.revoked
  /\ alone[q] => ~rows[job[q].row].revoked
  /\ HoldsLast(q)

TokenJobOK(q) ==
  /\ BeginsFamily(q) => Unused(q)
  /\ At(q, {"register", "login"}, "insert") =>
       TokenRow(job[q].next) /\ job[q].next.family = q
  /\ At(q, {"refresh"}, "user") \/ At(q, {"refresh"}, "rotate") => RefreshOK(q)

(* Users: an admin who changes one has counted the others. *)

IsAdmin(u) == u.role = "admin" /\ u.active
AnotherAdmin(id) == ActiveAdmins(rows[id].org) \ {id} # {}

\* The copy is of a user that is still there and never changes the organization.  A change
\* that has been alone finds the user as it was, and does not remove the last admin.
ChangeOK(q) ==
  /\ job[q].row \in Existing("user") /\ UserRow(job[q].next)
  /\ job[q].next.org = rows[job[q].row].org
  /\ alone[q] /\ job[q].phase \in {"count", "recheck"} => rows[job[q].row].role = "admin"
  /\ alone[q] /\ job[q].phase \in {"diff", "write"} =>
       \/ AnotherAdmin(job[q].row)
       \/ IsAdmin(rows[job[q].row]) => IsAdmin(job[q].next)

UserJobOK(q) ==
  job[q].kind \in UserKinds \cup RecoveryKinds
  /\ job[q].phase \in {"count", "recheck", "diff", "write", "insert"} => ChangeOK(q)

AccountInv ==
  /\ RequestInv /\ AccountTables
  /\ \A q \in Requests : PhaseOK(q) /\ TokenJobOK(q) /\ UserJobOK(q)
  /\ OneLiveTokenPerFamily /\ AdminRemains

-------------------------------------------------------------------------------
\* A new row gets the first free id of its table.
LEMMA FirstFreeIsFree ==
  ASSUME NEW table, \A id \in DOMAIN rows : id[2] \in Nat, Free(table) # {}
  PROVE  /\ FirstFree(table) \in Ids(table) /\ FirstFree(table) \in DOMAIN rows
         /\ FirstFree(table)[1] = table /\ rows[FirstFree(table)] = NoRow
<1>1. \A id \in Free(table) : id[2] \in Nat
  BY DEF Free, Ids
<1>2. FirstFree(table) \in Free(table)
  BY <1>1, FirstOfIds DEF FirstFree
<1> QED BY <1>2 DEF Free, Ids, Existing, Has

LEMMA FreeIdExists ==
  ASSUME AccountTables, NEW table, Free(table) # {}
  PROVE  /\ FirstFree(table) \in Ids(table) /\ FirstFree(table) \in DOMAIN rows
         /\ FirstFree(table)[1] = table /\ rows[FirstFree(table)] = NoRow
<1>1. \A id \in DOMAIN rows : id[2] \in Nat
  BY DEF AccountTables
<1> QED BY <1>1, FirstFreeIsFree

LEMMA RowsAreRows ==
  ASSUME NEW r
  PROVE  (UserRow(r) => r # NoRow) /\ (TokenRow(r) => r # NoRow)
<1>1. DOMAIN NoRow = {"status"} /\ "org" \in UserColumns /\ "user" \in TokenColumns
  BY DEF NoRow, UserColumns, TokenColumns
<1>2. (UserRow(r) => DOMAIN r = UserColumns) /\ (TokenRow(r) => DOMAIN r = TokenColumns)
  BY DEF UserRow, TokenRow
<1> QED BY <1>1, <1>2

LEMMA TokenIsRow ==
  ASSUME NEW u, NEW family
  PROVE  /\ TokenRow(Token(u, family)) /\ Token(u, family).family = family
         /\ Token(u, family).user = u /\ Token(u, family).revoked = FALSE
BY DEF Token, TokenRow, TokenColumns

LEMMA UserIsRow ==
  ASSUME NEW org, NEW role
  PROVE  /\ UserRow(User(org, role)) /\ User(org, role).org = org
         /\ User(org, role).role = role /\ User(org, role).active
BY DEF User, UserRow, UserColumns

LEMMA AccountJobFields ==
  ASSUME NEW kind, NEW phase, NEW id, NEW next, NEW then
  PROVE  JobFields \subseteq DOMAIN AccountJob(kind, phase, id, next, then)
BY DEF AccountJob, JobFields

-------------------------------------------------------------------------------
(* What a step does to the two tables. *)

SameIds == DOMAIN rows' = DOMAIN rows /\ rows' = [id \in DOMAIN rows' |-> rows'[id]]

\* Tokens are at most revoked.
TokensAge ==
  \A t \in Ids("token") :
    /\ rows[t] = NoRow => rows'[t] = NoRow
    /\ rows[t] # NoRow => /\ TokenRow(rows'[t]) /\ rows'[t].family = rows[t].family
                          /\ rows[t].revoked => rows'[t].revoked

\* The first token of a family.
FirstToken(q) ==
  /\ BeginsFamily(q)
  /\ \E t \in Ids("token") :
       /\ rows[t] = NoRow
       /\ TokenRow(rows'[t]) /\ rows'[t].family = q
       /\ \A x \in Ids("token") \ {t} : rows'[x] = rows[x]

Rotation(q) ==
  /\ At(q, {"refresh"}, "rotate")
  /\ job'[q].kind = "refresh" /\ job'[q].phase = "ok" /\ job'[q].next = job[q].next
  /\ alone'[q] = alone[q]
  /\ \E t \in Ids("token") :
       /\ rows[t] = NoRow
       /\ rows'[t] = Token(job[q].next.user, job[q].next.family)
       /\ rows'[job[q].row] = job[q].next
       /\ \A x \in Ids("token") \ {t, job[q].row} : rows'[x] = rows[x]

TokenStep(q) == TokensAge \/ FirstToken(q) \/ Rotation(q)

UsersStay == \A u \in Ids("user") : rows'[u] = rows[u]

\* A new user is an admin or joins an organization that has users.
NewUser ==
  \E u \in Ids("user") :
    /\ rows[u] = NoRow
    /\ UserRow(rows'[u])
    /\ \/ IsAdmin(rows'[u])
       \/ \E v \in Existing("user") : rows'[u].org = rows[v].org
    /\ \A x \in Ids("user") \ {u} : rows'[x] = rows[x]

UserChange(q) ==
  /\ job[q].kind \in UserKinds \cup RecoveryKinds /\ job[q].phase = "write"
  /\ rows'[job[q].row] = Written(rows[job[q].row], job[q].next, job[q].dirty)
  /\ \A x \in Ids("user") \ {job[q].row} : rows'[x] = rows[x]

UserStep(q) == UsersStay \/ NewUser \/ UserChange(q)

LEMMA NothingChanges ==
  ASSUME AccountTables, UNCHANGED rows
  PROVE  SameIds /\ TokensAge /\ UsersStay
<1>1. TokensAge
  BY DEF AccountTables, TokensAge, Existing, Has
<1> QED BY <1>1 DEF AccountTables, SameIds, UsersStay

\* A request that is at work and is not the one that steps is alone no longer.
LEMMA OthersAreCrossed ==
  ASSUME NEW q \in Requests, Steps(q)
  PROVE  /\ \A x \in Requests \ {q} : job'[x] = job[x] /\ (Busy(x) => ~alone'[x])
         /\ \A x \in Requests, kinds \in SUBSET STRING :
              job[x].kind \in kinds /\ job[x].kind # "none" /\ ~alone[x]
                => job'[x].kind \in kinds /\ ~alone'[x]
BY DEF Steps, OthersStay

\* What the step of q does to the tokens keeps them in order for the other requests.
LEMMA TokensInOrder ==
  ASSUME AccountInv, NEW q \in Requests, SameIds, Steps(q), TokenStep(q)
  PROVE  /\ \A t \in Existing("token")' : TokenRow(rows'[t])
         /\ \A x \in Requests \ {q} : TokenJobOK(x)'
         /\ OneLiveTokenPerFamily'
<1> DEFINE T == Ids("token")
<1>1. /\ T' = T
      /\ \A t \in T : t \in Existing("token") <=> rows[t] # NoRow
      /\ \A t \in T : t \in Existing("token")' <=> rows'[t] # NoRow
      /\ Existing("token") \subseteq T /\ Existing("token")' \subseteq T
  BY DEF SameIds, Ids, Existing, Has
<1>2. \A t \in T : rows[t] # NoRow => TokenRow(rows[t])
  BY <1>1 DEF AccountInv, AccountTables
<1>3. \A x \in Requests \ {q} : job'[x] = job[x] /\ TokenJobOK(x)
                                /\ (Busy(x) => ~alone'[x])
  BY OthersAreCrossed DEF AccountInv
\* No step gives a token of another family or to another request.
<1>4. /\ \A t \in T : rows[t] # NoRow =>
           /\ TokenRow(rows'[t]) /\ rows'[t].family = rows[t].family
           /\ rows[t].revoked => rows'[t].revoked
      /\ \A t \in T : rows[t] = NoRow /\ rows'[t] # NoRow =>
           /\ TokenRow(rows'[t])
           /\ \/ BeginsFamily(q) /\ rows'[t].family = q
              \/ /\ Rotation(q)
                 /\ rows'[t].family = rows[job[q].row].family
      /\ \A s, t \in T : rows[s] = NoRow /\ rows'[s] # NoRow /\ rows[t] = NoRow /\ rows'[t] # NoRow
           => s = t
      /\ \A t \in T : rows[t] = NoRow /\ rows'[t] # NoRow /\ Rotation(q)
           => rows'[job[q].row].revoked
  <2>0. ~(BeginsFamily(q) /\ Rotation(q))
    BY DEF Rotation, BeginsFamily, At
  <2>1. CASE TokensAge
    BY <2>1 DEF TokensAge
  <2>2. CASE FirstToken(q)
    BY <1>2, <2>0, <2>2 DEF FirstToken
  <2>3. CASE Rotation(q)
    <3>1. RefreshOK(q) /\ At(q, {"refresh"}, "rotate")
      BY <2>3 DEF Rotation, AccountInv, TokenJobOK
    <3>2. PICK t \in T :
            /\ rows[t] = NoRow
            /\ rows'[t] = Token(job[q].next.user, job[q].next.family)
            /\ rows'[job[q].row] = job[q].next
            /\ \A x \in T \ {t, job[q].row} : rows'[x] = rows[x]
      BY <2>3 DEF Rotation
    <3>3. TokenRow(rows'[t]) /\ rows'[t].family = rows[job[q].row].family
      <4> DEFINE new == Token(job[q].next.user, job[q].next.family)
      <4>1. TokenRow(new) /\ new.family = job[q].next.family
        BY DEF Token, TokenRow, TokenColumns
      <4> HIDE DEF new
      <4>2. rows'[t] = new
        BY <3>2 DEF new
      <4> QED BY <3>1, <4>1, <4>2 DEF RefreshOK
    <3>4. job[q].row \in T /\ rows[job[q].row] # NoRow
      BY <1>1, <3>1 DEF RefreshOK
    <3>5. \A s \in T : rows[s] # NoRow => s = job[q].row \/ rows'[s] = rows[s]
      BY <3>2
    <3>6. ASSUME NEW s \in T, rows[s] # NoRow
          PROVE  /\ TokenRow(rows'[s]) /\ rows'[s].family = rows[s].family
                 /\ rows[s].revoked => rows'[s].revoked
      <4>1. CASE s = job[q].row
        BY <3>1, <3>2, <4>1 DEF RefreshOK
      <4>2. CASE s # job[q].row
        BY <1>2, <3>2, <3>5, <3>6, <4>2
      <4> QED BY <4>1, <4>2
    <3>7. \A s \in T : rows[s] = NoRow /\ rows'[s] # NoRow => s = t
      BY <3>2, <3>4
    <3> QED BY <2>3, <3>1, <3>2, <3>3, <3>6, <3>7 DEF RefreshOK
  <2> QED BY <2>1, <2>2, <2>3 DEF TokenStep
<1>5. \A t \in Existing("token")' : TokenRow(rows'[t])
  BY <1>1, <1>4
<1>6. \A t \in T : rows[t] # NoRow => rows'[t] # NoRow
  BY <1>4, RowsAreRows
<1>7. Rotation(q) => /\ job[q].row \in T /\ rows[job[q].row] # NoRow /\ RefreshOK(q)
                     /\ job[q].next.family = rows[job[q].row].family
  BY <1>1 DEF Rotation, AccountInv, TokenJobOK, RefreshOK
\* Who has rotated a token makes no other step.
<1>10. ASSUME NEW r \in Requests, NEW family, RotatedAside(r, family)
       PROVE  RotatedAside(r, family)'
  <2>1. ~Busy(r) /\ job[r].kind # "none" /\ ~alone[r]
    BY <1>10 DEF RotatedAside, Busy, Outcomes
  <2>2. job'[r] = job[r] /\ ~alone'[r]
    BY <2>1 DEF Steps, OthersStay
  <2> QED BY <1>10, <2>2 DEF RotatedAside
\* Two live tokens of a family: two refreshes have rotated it.
<1>12. ASSUME NEW x \in T, NEW y \in T, x # y, rows[x] # NoRow, rows[y] # NoRow,
              rows[x].family = rows[y].family, ~rows[x].revoked, ~rows[y].revoked
       PROVE  \E r, s \in Requests :
                r # s /\ RotatedAside(r, rows[x].family) /\ RotatedAside(s, rows[x].family)
  BY <1>1, <1>12 DEF AccountInv, OneLiveTokenPerFamily
<1>8. ASSUME NEW x \in Requests \ {q} PROVE TokenJobOK(x)'
  <2>1. job'[x] = job[x] /\ TokenJobOK(x) /\ (Busy(x) => ~alone'[x])
    BY <1>3
  <2>2. Unused(x) => Unused(x)'
    <3> SUFFICES ASSUME Unused(x), NEW t \in T, rows'[t] # NoRow PROVE rows'[t].family # x
      BY <1>1 DEF Unused
    <3>1. \A s \in T : rows[s] # NoRow => rows[s].family # x
      BY <1>1 DEF Unused
    <3>2. CASE rows[t] # NoRow
      BY <1>4, <3>1, <3>2
    <3>3. CASE rows[t] = NoRow
      BY <1>4, <1>7, <3>1, <3>3
    <3> QED BY <3>2, <3>3
  <2>3. RefreshOK(x) /\ Busy(x) => RefreshOK(x)'
    <3> SUFFICES ASSUME RefreshOK(x), Busy(x) PROVE RefreshOK(x)'
      OBVIOUS
    <3>1. job[x].row \in T /\ rows[job[x].row] # NoRow
      BY <1>1 DEF RefreshOK
    <3>2. job[x].row \in Existing("token")' /\ rows'[job[x].row].family = rows[job[x].row].family
      BY <1>1, <1>4, <1>6, <3>1
    <3>3. HoldsLast(x)'
      <4> DEFINE held == job[x].row
      <4>1. PICK family : family = job[x].next.family /\ family = rows[held].family
        BY DEF RefreshOK
      <4> HIDE DEF held
      <4>2. held \in T /\ rows[held] # NoRow /\ job'[x].row = held /\ job'[x].next.family = family
        BY <2>1, <3>1, <4>1 DEF held
      <4>3. CASE \E r \in Requests \ {x} : RotatedAside(r, family)
        BY <1>10, <4>2, <4>3 DEF HoldsLast
      <4>4. CASE Rotation(q) /\ job[q].next.family = family
        <5>1. Busy(q)
          BY <4>4 DEF Rotation, At, Busy, Outcomes
        <5>2. ~alone[q]
          BY <5>1 DEF AccountInv, RequestInv, Solitude
        <5>3. RotatedAside(q, family)'
          BY <4>4, <5>2 DEF Rotation, RotatedAside
        <5> QED BY <4>2, <5>3 DEF HoldsLast
      <4>5. CASE /\ ~(Rotation(q) /\ job[q].next.family = family)
                 /\ ~(\E r \in Requests \ {x} : RotatedAside(r, family))
\* No new token is of this family.
        <5>1. ASSUME NEW t \in T, rows'[t] # NoRow, rows'[t].family = family
              PROVE  rows[t] # NoRow /\ rows[t].family = family
          <6>1. BeginsFamily(q) => family # q
            BY <1>1, <4>1, <4>2 DEF held, AccountInv, TokenJobOK, Unused
          <6> QED BY <1>4, <1>7, <4>5, <5>1, <6>1
        <5>2. ASSUME rows'[held].revoked, NEW t \in T, rows'[t] # NoRow, rows'[t].family = family
              PROVE  rows'[t].revoked
          <6>1. rows[t] # NoRow /\ rows[t].family = family
            BY <5>1, <5>2
          <6>2. CASE rows[t].revoked
            BY <1>4, <6>1, <6>2
          <6>3. CASE ~rows[t].revoked
            <7>1. ~rows[held].revoked
              BY <1>1, <4>1, <4>5, <6>1, <6>3 DEF RefreshOK, HoldsLast, held
            <7>2. CASE t # held
              <8>1. PICK r, s \in Requests :
                      r # s /\ RotatedAside(r, family) /\ RotatedAside(s, family)
                BY <1>12, <4>1, <4>2, <6>1, <6>3, <7>1, <7>2 DEF held
              <8> QED BY <4>5, <8>1
            <7> QED BY <5>2, <7>2
          <6> QED BY <6>2, <6>3
        <5> QED BY <1>1, <4>2, <5>2 DEF HoldsLast
      <4> QED BY <4>3, <4>4, <4>5
    <3> QED BY <2>1, <3>2, <3>3 DEF RefreshOK
  <2>4. At(x, {"refresh"}, "user") \/ At(x, {"refresh"}, "rotate") => Busy(x)
    BY DEF At, Busy, Outcomes
  <2> QED BY <2>1, <2>2, <2>3, <2>4 DEF TokenJobOK, BeginsFamily, At
<1>9. OneLiveTokenPerFamily'
  <2> SUFFICES ASSUME NEW x \in T, NEW y \in T, x # y, rows'[x] # NoRow, rows'[y] # NoRow,
                      NEW family, rows'[x].family = family, rows'[y].family = family,
                      ~rows'[x].revoked, ~rows'[y].revoked
               PROVE  \E r, s \in Requests :
                        r # s /\ RotatedAside(r, family)' /\ RotatedAside(s, family)'
    BY <1>1 DEF OneLiveTokenPerFamily, RotatedAside
  <2>2. CASE rows[x] # NoRow /\ rows[y] # NoRow
    <3>1. rows[x].family = family /\ rows[y].family = family /\ ~rows[x].revoked /\ ~rows[y].revoked
      BY <1>4, <2>2
    <3>2. PICK r, s \in Requests : r # s /\ RotatedAside(r, family) /\ RotatedAside(s, family)
      BY <1>12, <2>2, <3>1
    <3> QED BY <1>10, <3>2
  <2>3. ASSUME NEW s \in T, NEW t \in T, s # t, rows'[s].family = family, rows'[t].family = family,
               rows[s] = NoRow, rows'[s] # NoRow, rows[t] # NoRow, ~rows'[t].revoked
        PROVE  \E r1, r2 \in Requests :
                 r1 # r2 /\ RotatedAside(r1, family)' /\ RotatedAside(r2, family)'
    <3>1. rows[t].family = family /\ ~rows[t].revoked
      BY <1>4, <2>3
    <3>2. ~(BeginsFamily(q) /\ rows'[s].family = q)
      BY <1>1, <2>3, <3>1 DEF AccountInv, TokenJobOK, Unused
    <3>3. Rotation(q) /\ family = rows[job[q].row].family /\ rows'[job[q].row].revoked
      BY <1>4, <2>3, <3>2
    <3>4. t # job[q].row
      BY <2>3, <3>3
    <3>5. RefreshOK(q) /\ job[q].next.family = family
      BY <1>7, <3>3
    <3>6. CASE ~rows[job[q].row].revoked
      <4>1. PICK r1, r2 \in Requests :
              r1 # r2 /\ RotatedAside(r1, family) /\ RotatedAside(r2, family)
        BY <1>7, <1>12, <2>3, <3>1, <3>3, <3>4, <3>6
      <4> QED BY <1>10, <4>1
    <3>7. CASE rows[job[q].row].revoked
      <4>1. ~alone[q]
        BY <3>5, <3>7 DEF RefreshOK
      <4>2. PICK r \in Requests \ {q} : RotatedAside(r, family)
        BY <1>1, <2>3, <3>1, <3>5, <3>7 DEF RefreshOK, HoldsLast
      <4>3. RotatedAside(q, family)'
        BY <3>3, <3>5, <4>1 DEF Rotation, RotatedAside
      <4>4. RotatedAside(r, family)'
        BY <1>10, <4>2
      <4> QED BY <4>2, <4>3, <4>4
    <3> QED BY <3>6, <3>7
  <2> QED BY <1>4, <2>2, <2>3
<1> QED BY <1>5, <1>8, <1>9

\* A table that is there has its admins: those who were active and are not the user that
\* changes still are.
LEMMA UsersInOrder ==
  ASSUME AccountInv, NEW q \in Requests, SameIds, Steps(q), UserStep(q)
  PROVE  /\ \A u \in Existing("user")' : UserRow(rows'[u])
         /\ \A x \in Requests \ {q} : UserJobOK(x)'
         /\ AdminRemains'
<1> DEFINE U == Ids("user")
<1>1. /\ U' = U
      /\ \A u \in U : u \in Existing("user") <=> rows[u] # NoRow
      /\ \A u \in U : u \in Existing("user")' <=> rows'[u] # NoRow
      /\ Existing("user") \subseteq U /\ Existing("user")' \subseteq U
  BY DEF SameIds, Ids, Existing, Has
<1>2. \A u \in U : rows[u] # NoRow => UserRow(rows[u])
  BY <1>1 DEF AccountInv, AccountTables
<1>3. \A x \in Requests \ {q} : job'[x] = job[x] /\ UserJobOK(x)
                                /\ (Busy(x) => ~alone'[x])
  BY OthersAreCrossed DEF AccountInv
<1>4. UserChange(q) => ChangeOK(q) /\ job[q].row \in U /\ rows[job[q].row] # NoRow
  BY <1>1 DEF UserChange, AccountInv, UserJobOK, ChangeOK
\* The columns of a change come from the row or from the copy.
<1>5. ASSUME UserChange(q)
      PROVE  LET id == job[q].row IN
             /\ UserRow(rows'[id]) /\ rows'[id].org = rows[id].org
             /\ IsAdmin(rows[id]) /\ IsAdmin(job[q].next) => IsAdmin(rows'[id])
  <2> DEFINE id == job[q].row
             stored == rows[id]
             next == job[q].next
             dirty == job[q].dirty
  <2>1. UserRow(stored) /\ UserRow(next) /\ next.org = stored.org
    BY <1>2, <1>4, <1>5 DEF ChangeOK
  <2>2. rows'[id] = Written(stored, next, dirty)
    BY <1>5 DEF UserChange
  <2> HIDE DEF id, stored, next, dirty
  <2>3. DOMAIN stored = UserColumns
    BY <2>1 DEF UserRow
  <2>4. /\ DOMAIN rows'[id] = UserColumns
        /\ \A c \in UserColumns : rows'[id][c] = IF c \in dirty THEN next[c] ELSE stored[c]
        /\ rows'[id] = [c \in UserColumns |-> rows'[id][c]]
    BY <2>2, <2>3 DEF Written
  <2>5. {"org", "role", "active"} \subseteq UserColumns
    BY DEF UserColumns
  <2>6. /\ rows'[id].org = stored.org
        /\ rows'[id].role \in {stored.role, next.role} /\ rows'[id].active \in {stored.active, next.active}
    BY <2>1, <2>4, <2>5
  <2>7. stored.active \in BOOLEAN /\ next.active \in BOOLEAN
    BY <2>1 DEF UserRow
  <2>8. UserRow(rows'[id])
    BY <2>4, <2>6, <2>7 DEF UserRow
  <2>9. IsAdmin(stored) /\ IsAdmin(next) => IsAdmin(rows'[id])
    BY <2>6, <2>7 DEF IsAdmin
  <2> QED BY <2>6, <2>8, <2>9 DEF id, stored, next
<1>6. \A u \in U : rows[u] # NoRow =>
        /\ UserRow(rows'[u]) /\ rows'[u].org = rows[u].org
        /\ IsAdmin(rows[u]) /\ ~(UserChange(q) /\ u = job[q].row) => IsAdmin(rows'[u])
  <2> SUFFICES ASSUME NEW u \in U, rows[u] # NoRow
               PROVE /\ UserRow(rows'[u]) /\ rows'[u].org = rows[u].org
                     /\ IsAdmin(rows[u]) /\ ~(UserChange(q) /\ u = job[q].row)
                          => IsAdmin(rows'[u])
    OBVIOUS
  <2>1. rows'[u] = rows[u] \/ (UserChange(q) /\ u = job[q].row)
    BY DEF UserStep, UsersStay, NewUser, UserChange
  <2> QED BY <1>2, <1>5, <2>1
<1>7. \A u \in U : rows[u] # NoRow => rows'[u] # NoRow
  BY <1>6, RowsAreRows
<1>8. \A u \in U : rows[u] = NoRow /\ rows'[u] # NoRow =>
        /\ UserRow(rows'[u])
        /\ \/ IsAdmin(rows'[u])
           \/ \E v \in Existing("user") : rows'[u].org = rows[v].org
  BY <1>4 DEF UserStep, UsersStay, NewUser, UserChange
<1>9. \A u \in Existing("user")' : UserRow(rows'[u])
  BY <1>1, <1>6, <1>8
<1>10. ASSUME NEW x \in Requests \ {q} PROVE UserJobOK(x)'
  <2>1. job'[x] = job[x] /\ UserJobOK(x) /\ (Busy(x) => ~alone'[x])
    BY <1>3
  <2>2. ASSUME ChangeOK(x), Busy(x) PROVE ChangeOK(x)'
    <3>1. job[x].row \in U /\ rows[job[x].row] # NoRow
      BY <1>1, <2>2 DEF ChangeOK
    <3>2. job[x].row \in Existing("user")' /\ rows'[job[x].row].org = rows[job[x].row].org
      BY <1>1, <1>6, <1>7, <3>1
    <3> QED BY <2>1, <2>2, <3>2 DEF ChangeOK
  <2>3. job[x].phase \in {"count", "recheck", "diff", "write", "insert"} => Busy(x)
    BY DEF Busy, Outcomes
  <2> QED BY <2>1, <2>2, <2>3 DEF UserJobOK
<1>11. AdminRemains'
  <2>1. CASE \E r \in Requests : job[r].kind \in UserKinds \cup RecoveryKinds /\ ~alone[r]
    <3>1. PICK r \in Requests : job[r].kind \in UserKinds \cup RecoveryKinds /\ ~alone[r]
      BY <2>1
    <3>2. job[r].kind # "none"
      BY <3>1 DEF UserKinds, RecoveryKinds
    <3>3. job'[r].kind = job[r].kind /\ ~alone'[r]
      BY <3>1, <3>2 DEF Steps, OthersStay
    <3> QED BY <3>1, <3>3 DEF AdminRemains
  <2>2. CASE \A r \in Requests : job[r].kind \in UserKinds \cup RecoveryKinds => alone[r]
    <3>1. \A u \in U : rows[u] # NoRow =>
            \E a \in U : rows[a] # NoRow /\ rows[a].org = rows[u].org /\ IsAdmin(rows[a])
      BY <1>1, <2>2 DEF AccountInv, AdminRemains, ActiveAdmins, IsAdmin
    <3>2. \A u \in U : rows[u] # NoRow =>
            \E a \in U : rows'[a] # NoRow /\ rows'[a].org = rows[u].org /\ IsAdmin(rows'[a])
      <4> SUFFICES ASSUME NEW u \in U, rows[u] # NoRow
                   PROVE  \E a \in U : rows'[a] # NoRow /\ rows'[a].org = rows[u].org
                                       /\ IsAdmin(rows'[a])
        OBVIOUS
      <4>1. PICK a \in U : rows[a] # NoRow /\ rows[a].org = rows[u].org /\ IsAdmin(rows[a])
        BY <3>1
      <4>2. CASE UserChange(q) /\ a = job[q].row
        <5>1. ChangeOK(q) /\ alone[q] /\ job[q].phase = "write"
          BY <1>4, <2>2, <4>2 DEF UserChange
        <5>2. CASE AnotherAdmin(a)
          <6>1. PICK b \in Existing("user") :
                  b # a /\ rows[b].org = rows[a].org /\ IsAdmin(rows[b])
            BY <5>2 DEF AnotherAdmin, ActiveAdmins, IsAdmin
          <6> QED BY <1>1, <1>6, <1>7, <4>1, <4>2, <6>1
        <5>3. CASE IsAdmin(job[q].next)
          BY <1>5, <1>7, <4>1, <4>2, <5>3
        <5> QED BY <4>1, <4>2, <5>1, <5>2, <5>3 DEF ChangeOK
      <4>3. CASE ~(UserChange(q) /\ a = job[q].row)
        BY <1>6, <1>7, <4>1, <4>3
      <4> QED BY <4>2, <4>3
    <3>3. \A u \in U : rows'[u] # NoRow =>
            \E a \in U : rows'[a] # NoRow /\ rows'[a].org = rows'[u].org /\ IsAdmin(rows'[a])
      <4> SUFFICES ASSUME NEW u \in U, rows'[u] # NoRow
                   PROVE  \E a \in U : rows'[a] # NoRow /\ rows'[a].org = rows'[u].org
                                       /\ IsAdmin(rows'[a])
        OBVIOUS
      <4>1. CASE rows[u] # NoRow
        BY <1>6, <3>2, <4>1
      <4>2. CASE rows[u] = NoRow
        BY <1>1, <1>8, <3>2, <4>2
      <4> QED BY <4>1, <4>2
    <3>4. \A u \in Existing("user")' : \E a \in Existing("user")' :
            rows'[a].org = rows'[u].org /\ rows'[a].role = "admin" /\ rows'[a].active
      BY <1>1, <3>3 DEF IsAdmin
    <3> QED BY <3>4 DEF AdminRemains, ActiveAdmins
  <2> QED BY <2>1, <2>2
<1> QED BY <1>9, <1>10, <1>11

-------------------------------------------------------------------------------
(* One step. *)

JobOK(q) == PhaseOK(q) /\ TokenJobOK(q) /\ UserJobOK(q)

LEMMA AccountStep ==
  ASSUME AccountInv, NEW q \in Requests, RequestInv', Steps(q), SameIds,
         TokenStep(q), UserStep(q), JobOK(q)'
  PROVE  AccountInv'
<1>1. /\ \A t \in Existing("token")' : TokenRow(rows'[t])
      /\ \A x \in Requests \ {q} : TokenJobOK(x)'
      /\ OneLiveTokenPerFamily'
  BY TokensInOrder
<1>2. /\ \A u \in Existing("user")' : UserRow(rows'[u])
      /\ \A x \in Requests \ {q} : UserJobOK(x)'
      /\ AdminRemains'
  BY UsersInOrder
<1>3. \A x \in Requests \ {q} : job'[x] = job[x] /\ PhaseOK(x)
  BY DEF Steps, OthersStay, AccountInv
<1>4. \A x \in Requests \ {q} : PhaseOK(x)'
  BY <1>3 DEF PhaseOK, Busy
<1>5. AccountTables'
  BY <1>1, <1>2 DEF SameIds, AccountTables, AccountInv
<1> QED BY <1>1, <1>2, <1>4, <1>5 DEF AccountInv, JobOK

LEMMA ReadingStep ==
  ASSUME AccountInv, NEW q \in Requests, RequestInv', Steps(q), UNCHANGED rows, JobOK(q)'
  PROVE  AccountInv'
<1>1. SameIds /\ TokenStep(q) /\ UserStep(q)
  BY NothingChanges DEF AccountInv, TokenStep, UserStep
<1> QED BY <1>1, AccountStep

\* A request that has ended promises nothing.
LEMMA EndedJob ==
  ASSUME NEW q \in Requests, job'[q].phase \in Outcomes, job'[q].kind # "none"
  PROVE  JobOK(q)'
<1>1. PhaseOK(q)'
  BY DEF PhaseOK, Outcomes, Busy
<1>2. TokenJobOK(q)'
  BY DEF TokenJobOK, BeginsFamily, At, Outcomes
<1>3. UserJobOK(q)'
  BY DEF UserJobOK, Outcomes
<1> QED BY <1>1, <1>2, <1>3 DEF JobOK

LEMMA AnswerStep ==
  ASSUME AccountInv, NEW q \in Requests, NEW kind \in AccountKinds, NEW outcome \in Outcomes,
         Begins(q, Answered(kind, outcome)), SameIds, TokensAge, UsersStay
  PROVE  AccountInv'
<1>1. RequestInv' /\ Steps(q) /\ job'[q] = Answered(kind, outcome)
  BY BeginsMeans, AnsweredFields DEF AccountInv
<1>2. job'[q].phase = outcome /\ job'[q].kind = kind
  BY <1>1 DEF Answered, NoJob
<1>3. kind # "none"
  BY DEF AccountKinds, TokenKinds, UserKinds, RecoveryKinds
<1>4. JobOK(q)'
  BY <1>2, <1>3, EndedJob
<1> QED BY <1>1, <1>4, AccountStep DEF TokenStep, UserStep

LEMMA RefusalStep ==
  ASSUME AccountInv, NEW q \in Requests, NEW kind \in AccountKinds, NEW outcome \in Outcomes,
         Begins(q, Answered(kind, outcome)), UNCHANGED rows
  PROVE  AccountInv'
BY AnswerStep, NothingChanges DEF AccountInv

LEMMA StartMeans ==
  ASSUME AccountInv, NEW q \in Requests, NEW kind, NEW phase, NEW id, NEW next, NEW then,
         Begins(q, AccountJob(kind, phase, id, next, then))
  PROVE  /\ RequestInv' /\ Steps(q) /\ job[q].kind = "none"
         /\ job'[q].kind = kind /\ job'[q].phase = phase /\ job'[q].row = id
         /\ job'[q].next = next /\ job'[q].then = then
         /\ JobFields \cup {"row", "next", "then"} \subseteq DOMAIN job'[q]
<1>1. RequestInv' /\ Steps(q) /\ job'[q] = AccountJob(kind, phase, id, next, then)
  BY BeginsMeans, AccountJobFields DEF AccountInv
<1>2. job[q].kind = "none"
  BY DEF Begins, NoJob
<1> QED BY <1>1, <1>2 DEF AccountJob, JobFields

LEMMA EndStep ==
  ASSUME AccountInv, NEW q \in Requests, job[q].kind \in AccountKinds, UNCHANGED rows,
         \/ Busy(q) /\ \E outcome \in Outcomes : Ends(q, outcome)
         \/ Fails(q)
  PROVE  AccountInv'
<1>1. Busy(q)
  BY DEF Fails
<1>2. Proceeds(q) /\ job'[q].kind = job[q].kind /\ job'[q].phase \in Outcomes
  BY <1>1, EndsMeans DEF AccountInv
<1>3. RequestInv' /\ Steps(q)
  BY <1>2, ProceedsMeans DEF AccountInv
<1>4. job[q].kind # "none"
  BY DEF AccountKinds, TokenKinds, UserKinds, RecoveryKinds
<1> QED BY <1>2, <1>3, <1>4, EndedJob, ReadingStep

LEMMA GoMeans ==
  ASSUME AccountInv, NEW q \in Requests, Busy(q), job[q].kind \in AccountKinds,
         NEW phase, Goes(q, phase)
  PROVE  /\ RequestInv' /\ Steps(q) /\ job'[q].phase = phase
         /\ job'[q].kind = job[q].kind /\ job'[q].row = job[q].row
         /\ job'[q].next = job[q].next /\ job'[q].then = job[q].then
         /\ JobFields \cup {"row", "next", "then"} \subseteq DOMAIN job'[q]
<1>1. /\ Proceeds(q) /\ job'[q] = [job[q] EXCEPT !.phase = phase]
      /\ job'[q].phase = phase
  BY GoesMeans DEF AccountInv
<1>2. JobFields \cup {"row", "next", "then"} \subseteq DOMAIN job[q]
  BY DEF AccountInv, PhaseOK
<1>3. /\ job'[q].kind = job[q].kind /\ job'[q].row = job[q].row
      /\ job'[q].next = job[q].next /\ job'[q].then = job[q].then
      /\ DOMAIN job'[q] = DOMAIN job[q]
  BY <1>1, <1>2 DEF JobFields
<1>4. RequestInv' /\ Steps(q)
  BY <1>1, <1>3, ProceedsMeans DEF AccountInv
<1> QED BY <1>1, <1>2, <1>3, <1>4

-------------------------------------------------------------------------------
(* The actions about tokens. *)

LEMMA RegisterStep ==
  ASSUME AccountInv, NEW q \in Requests, Register(q)
  PROVE  AccountInv'
<1>1. PICK taken \in BOOLEAN :
        Begins(q, IF taken THEN Answered("register", "refused")
                  ELSE AccountJob("register", "org", <<"user", 1>>, NoRow, "ok"))
  BY DEF Register
<1>2. UNCHANGED rows
  BY DEF Register
<1>3. CASE taken
  <2>1. Begins(q, Answered("register", "refused"))
    BY <1>1, <1>3
  <2> QED BY <1>2, <2>1, RefusalStep DEF AccountKinds, TokenKinds, Outcomes
<1>4. CASE ~taken
  <2>1. Begins(q, AccountJob("register", "org", <<"user", 1>>, NoRow, "ok"))
    BY <1>1, <1>4
  <2>2. /\ RequestInv' /\ Steps(q) /\ job[q].kind = "none"
        /\ job'[q].kind = "register" /\ job'[q].phase = "org" /\ job'[q].then = "ok"
        /\ JobFields \cup {"row", "next", "then"} \subseteq DOMAIN job'[q]
    BY <2>1, StartMeans
  <2>3. Unused(q)
    BY <2>2 DEF AccountInv, TokenJobOK, BeginsFamily
  <2>4. PhaseOK(q)' /\ UserJobOK(q)'
    BY <2>2 DEF PhaseOK, UserJobOK, UserKinds, RecoveryKinds, TokenKinds, Outcomes
  <2>5. TokenJobOK(q)'
    BY <1>2, <2>2, <2>3 DEF TokenJobOK, At, Unused, Existing, Ids, Has
  <2> QED BY <1>2, <2>2, <2>4, <2>5, ReadingStep DEF JobOK
<1> QED BY <1>3, <1>4

LEMMA CreateAdminStep ==
  ASSUME AccountInv, NEW q \in Requests, CreateAdmin(q)
  PROVE  AccountInv'
<1> DEFINE u == FirstFree("user")
           j == [job[q] EXCEPT !.phase = "insert", !.next = Token(u, q)]
<1>1. /\ At(q, {"register"}, "org") /\ Free("user") # {}
      /\ rows' = [rows EXCEPT ![u] = User(q, "admin")]
      /\ job' = [job EXCEPT ![q].phase = "insert", ![q].next = Token(u, q)]
      /\ UNCHANGED alone
  BY DEF CreateAdmin
<1>2. u \in Ids("user") /\ u \in DOMAIN rows /\ u[1] = "user" /\ rows[u] = NoRow
  BY <1>1, FreeIdExists DEF AccountInv
<1>3. Busy(q) /\ job[q].kind = "register"
  BY <1>1 DEF At, Busy, Outcomes
<1>4. /\ JobFields \cup {"row", "next", "then"} \subseteq DOMAIN job[q]
      /\ job[q].then = "ok"
  BY <1>3 DEF AccountInv, PhaseOK, AccountKinds, TokenKinds
<1>5. /\ JobFields \cup {"row", "next", "then"} \subseteq DOMAIN j
      /\ j.kind = job[q].kind /\ j.phase = "insert" /\ j.next = Token(u, q) /\ j.then = "ok"
  BY <1>4 DEF JobFields
<1>6. job' = [job EXCEPT ![q] = j]
  BY <1>1, <1>4 DEF AccountInv, RequestInv
<1>7. RequestInv' /\ job'[q] = j /\ Steps(q)
  <2> HIDE DEF j
  <2> QED BY <1>1, <1>3, <1>5, <1>6, JobBecomes DEF AccountInv
<1> HIDE DEF u, j
<1>8. SameIds /\ TokenStep(q)
  <2>1. SameIds
    BY <1>1 DEF AccountInv, AccountTables, SameIds
  <2>2. \A t \in Ids("token") : rows'[t] = rows[t]
    BY <1>1, <1>2 DEF Ids
  <2> QED BY <2>1, <2>2 DEF TokenStep, TokensAge, AccountInv, AccountTables, Existing, Has
<1>9. UserStep(q)
  <2>1. rows'[u] = User(q, "admin") /\ \A x \in Ids("user") \ {u} : rows'[x] = rows[x]
    BY <1>1, <1>2 DEF Ids
  <2>2. UserRow(User(q, "admin")) /\ IsAdmin(User(q, "admin"))
    BY DEF User, UserRow, UserColumns, IsAdmin
  <2> QED BY <1>2, <2>1, <2>2 DEF UserStep, NewUser
<1>10. JobOK(q)'
  <2>1. Unused(q)
    BY <1>1 DEF AccountInv, TokenJobOK, BeginsFamily
  <2>2. Unused(q)'
    BY <1>1, <1>2, <1>8, <2>1 DEF Unused, Existing, Ids, Has, SameIds
  <2>3. PhaseOK(q)' /\ UserJobOK(q)'
    BY <1>3, <1>5, <1>7 DEF PhaseOK, UserJobOK, UserKinds, RecoveryKinds, TokenKinds, Outcomes
  <2>4. TokenRow(Token(u, q)) /\ Token(u, q).family = q
    BY DEF Token, TokenRow, TokenColumns
  <2>5. TokenJobOK(q)'
    BY <1>3, <1>5, <1>7, <2>2, <2>4 DEF TokenJobOK, At
  <2> QED BY <2>3, <2>5 DEF JobOK
<1> QED BY <1>7, <1>8, <1>9, <1>10, AccountStep

LEMMA LoginStep ==
  ASSUME AccountInv, NEW q \in Requests, Login(q)
  PROVE  AccountInv'
<1>1. UNCHANGED rows
  BY DEF Login
<1>2. PICK u \in Existing("user") : \E known \in BOOLEAN :
        Begins(q, IF rows[u].active /\ known
                  THEN AccountJob("login", "insert", u, Token(u, q), "ok")
                  ELSE Answered("login", "refused"))
  BY DEF Login
<1>3. CASE Begins(q, Answered("login", "refused"))
  BY <1>1, <1>3, RefusalStep DEF AccountKinds, TokenKinds, Outcomes
<1>4. CASE Begins(q, AccountJob("login", "insert", u, Token(u, q), "ok"))
  <2>1. /\ RequestInv' /\ Steps(q) /\ job[q].kind = "none"
        /\ job'[q].kind = "login" /\ job'[q].phase = "insert" /\ job'[q].then = "ok"
        /\ job'[q].next = Token(u, q)
        /\ JobFields \cup {"row", "next", "then"} \subseteq DOMAIN job'[q]
    BY <1>4, StartMeans
  <2>2. Unused(q)'
    BY <1>1, <2>1 DEF AccountInv, TokenJobOK, BeginsFamily, Unused, Existing, Ids, Has
  <2>3. PhaseOK(q)' /\ UserJobOK(q)'
    BY <2>1 DEF PhaseOK, UserJobOK, UserKinds, RecoveryKinds, TokenKinds, Outcomes
  <2>4. TokenRow(Token(u, q)) /\ Token(u, q).family = q
    BY DEF Token, TokenRow, TokenColumns
  <2>5. TokenJobOK(q)'
    BY <2>1, <2>2, <2>4 DEF TokenJobOK, At
  <2> QED BY <1>1, <2>1, <2>3, <2>5, ReadingStep DEF JobOK
<1> QED BY <1>2, <1>3, <1>4

LEMMA RefreshStep ==
  ASSUME AccountInv, NEW q \in Requests, Refresh(q)
  PROVE  AccountInv'
<1>1. UNCHANGED rows
  BY DEF Refresh
<1>2. PICK t \in Existing("token") : \E expired \in BOOLEAN :
        Begins(q, IF expired \/ rows[t].revoked THEN Answered("refresh", "refused")
                  ELSE AccountJob("refresh", "user", t,
                                  [rows[t] EXCEPT !.revoked = TRUE, !.replaced = TRUE], "ok"))
  BY DEF Refresh
<1> DEFINE next == [rows[t] EXCEPT !.revoked = TRUE, !.replaced = TRUE]
<1>3. CASE Begins(q, Answered("refresh", "refused"))
  BY <1>1, <1>3, RefusalStep DEF AccountKinds, TokenKinds, Outcomes
<1>4. CASE Begins(q, AccountJob("refresh", "user", t, next, "ok")) /\ ~rows[t].revoked
  <2>1. TokenRow(next) /\ next.family = rows[t].family /\ next.revoked
    BY <1>2 DEF AccountInv, AccountTables, TokenRow, TokenColumns
  <2> HIDE DEF next
  <2>2. /\ RequestInv' /\ Steps(q)
        /\ job'[q].kind = "refresh" /\ job'[q].phase = "user" /\ job'[q].then = "ok"
        /\ job'[q].next = next /\ job'[q].row = t
        /\ JobFields \cup {"row", "next", "then"} \subseteq DOMAIN job'[q]
    BY <1>4, StartMeans
  <2>3. PhaseOK(q)' /\ UserJobOK(q)'
    BY <2>2 DEF PhaseOK, UserJobOK, UserKinds, RecoveryKinds, TokenKinds, Outcomes
  <2>4. t \in Existing("token")' /\ rows'[t] = rows[t]
    BY <1>1, <1>2 DEF Existing, Ids, Has
  <2>5. RefreshOK(q)'
    BY <1>4, <2>1, <2>2, <2>4 DEF RefreshOK, HoldsLast
  <2>6. TokenJobOK(q)'
    BY <2>2, <2>5 DEF TokenJobOK, BeginsFamily, At
  <2> QED BY <1>1, <2>2, <2>3, <2>6, ReadingStep DEF JobOK
<1> QED BY <1>2, <1>3, <1>4

LEMMA ReadUserStep ==
  ASSUME AccountInv, NEW q \in Requests, ReadUser(q)
  PROVE  AccountInv'
<1>1. /\ job[q].kind = "refresh" /\ job[q].phase = "user" /\ Busy(q)
      /\ job[q].kind \in AccountKinds /\ UNCHANGED rows
  BY DEF ReadUser, At, Busy, Outcomes, AccountKinds, TokenKinds
<1>2. CASE Ends(q, "refused")
  BY <1>1, <1>2, EndStep DEF Outcomes
<1>3. CASE Goes(q, "rotate")
  <2>1. /\ RequestInv' /\ Steps(q) /\ job'[q].phase = "rotate"
        /\ job'[q].kind = "refresh" /\ job'[q].row = job[q].row /\ job'[q].next = job[q].next
        /\ JobFields \cup {"row", "next", "then"} \subseteq DOMAIN job'[q]
        /\ job'[q].then = job[q].then
    BY <1>1, <1>3, GoMeans
  <2>2. UNCHANGED alone
    BY <1>3 DEF Goes
  <2>3. RefreshOK(q)
    BY <1>1 DEF AccountInv, TokenJobOK, At
  <2>4. RefreshOK(q)'
    BY <1>1, <2>1, <2>2, <2>3
       DEF RefreshOK, HoldsLast, RotatedAside, Steps, OthersStay, Existing, Ids, Has
  <2>5. PhaseOK(q)' /\ UserJobOK(q)'
    BY <2>1 DEF PhaseOK, UserJobOK, UserKinds, RecoveryKinds, TokenKinds, Outcomes
  <2>6. TokenJobOK(q)'
    BY <2>1, <2>4 DEF TokenJobOK, BeginsFamily, At
  <2> QED BY <1>1, <2>1, <2>5, <2>6, ReadingStep DEF JobOK
<1> QED BY <1>2, <1>3 DEF ReadUser

LEMMA RotateStep ==
  ASSUME AccountInv, NEW q \in Requests, Rotate(q)
  PROVE  AccountInv'
<1> DEFINE t == FirstFree("token")
           old == job[q].row
<1>1. /\ job[q].kind = "refresh" /\ job[q].phase = "rotate" /\ Busy(q)
      /\ job[q].kind \in AccountKinds /\ Free("token") # {} /\ Goes(q, "ok")
  BY DEF Rotate, At, Busy, Outcomes, AccountKinds, TokenKinds
<1>2. t \in Ids("token") /\ t \in DOMAIN rows /\ t[1] = "token" /\ rows[t] = NoRow
  BY <1>1, FreeIdExists DEF AccountInv
<1>3. RefreshOK(q)
  BY <1>1 DEF AccountInv, TokenJobOK, At
<1>4. old \in Ids("token") /\ rows[old] # NoRow /\ old \in DOMAIN rows
  BY <1>3 DEF RefreshOK, Existing, Ids, Has
<1>5. rows' = [rows EXCEPT ![t] = Token(job[q].next.user, job[q].next.family),
                           ![old] = job[q].next]
  BY DEF Rotate
<1>6. t # old
  BY <1>2, <1>4
<1> HIDE DEF t, old
<1>7. /\ SameIds
      /\ rows'[t] = Token(job[q].next.user, job[q].next.family) /\ rows'[old] = job[q].next
      /\ \A x \in DOMAIN rows \ {t, old} : rows'[x] = rows[x]
  BY <1>2, <1>4, <1>5, <1>6 DEF AccountInv, AccountTables, SameIds
<1>8. /\ RequestInv' /\ Steps(q) /\ job'[q].phase = "ok" /\ job'[q].kind = "refresh"
      /\ job'[q].next = job[q].next /\ alone'[q] = alone[q]
  BY <1>1, GoMeans DEF Goes
<1>9. UsersStay
  BY <1>2, <1>4, <1>7 DEF UsersStay, Ids
<1>10. Rotation(q)
  BY <1>1, <1>2, <1>7, <1>8 DEF Rotation, At, Ids, old
<1>11. JobOK(q)'
  BY <1>8, EndedJob DEF Outcomes
<1> QED BY <1>7, <1>8, <1>9, <1>10, <1>11, AccountStep DEF TokenStep, UserStep

\* An UPDATE that revokes the tokens of a user.
LEMMA OfUserRows ==
  ASSUME NEW user
  PROVE  OfUser(user) =
           [id \in DOMAIN rows |-> IF id \in Existing("token") /\ rows[id].user = user
                                   THEN [rows[id] EXCEPT !.revoked = TRUE] ELSE rows[id]]
BY DEF OfUser, Revoked

LEMMA RevokingTokens ==
  ASSUME AccountTables, NEW user, \A t \in Ids("token") : rows'[t] = OfUser(user)[t]
  PROVE  TokensAge
<1> SUFFICES ASSUME NEW t \in Ids("token")
             PROVE  /\ rows[t] = NoRow => rows'[t] = NoRow
                    /\ rows[t] # NoRow =>
                         /\ TokenRow(rows'[t]) /\ rows'[t].family = rows[t].family
                         /\ rows[t].revoked => rows'[t].revoked
  BY DEF TokensAge
<1>1. t \in DOMAIN rows /\ (t \in Existing("token") <=> rows[t] # NoRow)
  BY DEF Ids, Existing, Has
<1>2. \/ rows'[t] = rows[t]
      \/ t \in Existing("token") /\ rows'[t] = [rows[t] EXCEPT !.revoked = TRUE]
  BY <1>1, OfUserRows
<1>3. t \in Existing("token") => TokenRow(rows[t])
  BY DEF AccountTables
<1>4. CASE rows'[t] = rows[t]
  BY <1>1, <1>3, <1>4
<1>5. CASE t \in Existing("token") /\ rows'[t] = [rows[t] EXCEPT !.revoked = TRUE]
  <2>1. /\ TokenRow(rows'[t]) /\ rows'[t].family = rows[t].family /\ rows'[t].revoked
    BY <1>3, <1>5 DEF TokenRow, TokenColumns
  <2> QED BY <1>1, <1>5, <2>1
<1> QED BY <1>2, <1>4, <1>5

LEMMA RevokingUser ==
  ASSUME AccountTables, NEW user, rows' = OfUser(user)
  PROVE  SameIds /\ TokensAge /\ UsersStay
<1>1. SameIds
  BY OfUserRows DEF SameIds
<1>2. UsersStay
  BY OfUserRows DEF UsersStay, Ids, Existing
<1> QED BY <1>1, <1>2, RevokingTokens

LEMMA LogoutStep ==
  ASSUME AccountInv, NEW q \in Requests, Logout(q) \/ LogoutAll(q)
  PROVE  AccountInv'
<1>1. CASE Logout(q)
  <2>1. PICK t \in Existing("token") :
          Begins(q, Answered("logout", "ok")) /\ rows' = [rows EXCEPT ![t].revoked = TRUE]
    BY <1>1 DEF Logout
  <2>2. t \in DOMAIN rows /\ t[1] = "token" /\ TokenRow(rows[t]) /\ rows[t] # NoRow
    BY DEF Existing, Ids, Has, AccountInv, AccountTables
  <2>3. SameIds /\ UsersStay
    BY <2>1, <2>2 DEF SameIds, UsersStay, Ids, AccountInv, AccountTables
  <2>4. TokensAge
    <3>1. \A x \in Ids("token") \ {t} : rows'[x] = rows[x]
      BY <2>1
    <3>2. rows'[t] = [rows[t] EXCEPT !.revoked = TRUE]
      BY <2>1, <2>2
    <3>3. TokenRow(rows'[t]) /\ rows'[t].family = rows[t].family /\ rows'[t].revoked
      BY <2>2, <3>2 DEF TokenRow, TokenColumns
    <3>4. \A x \in Ids("token") : rows[x] # NoRow => TokenRow(rows[x])
      BY DEF AccountInv, AccountTables, Existing, Has
    <3> QED BY <2>2, <3>1, <3>3, <3>4 DEF TokensAge
  <2> QED BY <2>1, <2>3, <2>4, AnswerStep DEF AccountKinds, TokenKinds, Outcomes
<1>2. CASE LogoutAll(q)
  <2>1. PICK u \in Existing("user") : Begins(q, Answered("logout_all", "ok")) /\ rows' = OfUser(u)
    BY <1>2 DEF LogoutAll
  <2>2. SameIds /\ TokensAge /\ UsersStay
    BY <2>1, RevokingUser DEF AccountInv
  <2> QED BY <2>1, <2>2, AnswerStep DEF AccountKinds, TokenKinds, Outcomes
<1> QED BY <1>1, <1>2

\* save() of the first token of a family.
LEMMA InsertTokenStep ==
  ASSUME AccountInv, NEW q \in Requests, InsertRow(q, TokenKinds, "token")
  PROVE  AccountInv'
<1> DEFINE t == FirstFree("token")
           j == [job[q] EXCEPT !.phase = job[q].then, !.row = t]
<1>1. /\ job[q].kind \in TokenKinds /\ job[q].phase = "insert" /\ Busy(q)
      /\ Free("token") # {} /\ UNCHANGED alone
      /\ rows' = [rows EXCEPT ![t] = job[q].next]
      /\ job' = [job EXCEPT ![q].phase = job[q].then, ![q].row = t]
  BY DEF InsertRow, At, Busy, Outcomes
<1>2. job[q].kind \in {"register", "login"}
  BY <1>1 DEF AccountInv, PhaseOK, TokenKinds, Outcomes
<1>3. t \in Ids("token") /\ t \in DOMAIN rows /\ t[1] = "token" /\ rows[t] = NoRow
  BY <1>1, FreeIdExists DEF AccountInv
<1>4. /\ JobFields \cup {"row", "next", "then"} \subseteq DOMAIN job[q]
      /\ job[q].then = "ok"
  BY <1>1, <1>2 DEF AccountInv, PhaseOK, AccountKinds, TokenKinds
<1>5. /\ JobFields \subseteq DOMAIN j /\ j.kind = job[q].kind /\ j.phase = "ok"
  BY <1>4 DEF JobFields
<1>6. job' = [job EXCEPT ![q] = j]
  BY <1>1, <1>4 DEF AccountInv, RequestInv
<1>7. RequestInv' /\ job'[q] = j /\ Steps(q)
  <2> HIDE DEF j
  <2> QED BY <1>1, <1>5, <1>6, JobBecomes DEF AccountInv
<1> HIDE DEF t, j
<1>8. TokenRow(job[q].next) /\ job[q].next.family = q
  BY <1>1, <1>2 DEF AccountInv, TokenJobOK, At
<1>9. BeginsFamily(q)
  BY <1>1, <1>2 DEF BeginsFamily, At
<1>10. SameIds /\ UsersStay
  BY <1>1, <1>3 DEF AccountInv, AccountTables, SameIds, UsersStay, Ids
<1>11. FirstToken(q)
  BY <1>1, <1>3, <1>8, <1>9 DEF FirstToken, Ids
<1>12. JobOK(q)'
  BY <1>2, <1>5, <1>7, EndedJob DEF Outcomes
<1> QED BY <1>7, <1>10, <1>11, <1>12, AccountStep DEF TokenStep, UserStep

-------------------------------------------------------------------------------
(* The actions about users. *)

\* A change begins with what it has read of the user.
LEMMA ChangeBegins ==
  ASSUME AccountInv, NEW q \in Requests, NEW kind \in UserKinds \cup RecoveryKinds,
         NEW phase \in {"count", "diff", "insert"}, NEW u \in Existing("user"), NEW next, NEW then,
         Begins(q, AccountJob(kind, phase, u, next, then)), UNCHANGED rows,
         UserRow(next), next.org = rows[u].org,
         phase = "count" => rows[u].role = "admin",
         phase = "diff" => (IsAdmin(rows[u]) => IsAdmin(next)),
         kind \in RecoveryKinds => phase = "diff" /\ then = "ok",
         kind \in UserKinds => then \in {"audit", "tokens"},
         phase = "insert" <=> kind = "invite_user",
         kind = "invite_user" => then = "audit"
  PROVE  AccountInv'
<1>1. /\ RequestInv' /\ Steps(q)
      /\ job'[q].kind = kind /\ job'[q].phase = phase /\ job'[q].row = u
      /\ job'[q].next = next /\ job'[q].then = then
      /\ JobFields \cup {"row", "next", "then"} \subseteq DOMAIN job'[q]
  BY StartMeans
<1>2. kind \notin TokenKinds /\ kind # "none"
  BY DEF UserKinds, RecoveryKinds, TokenKinds
<1>3. PhaseOK(q)'
  BY <1>1, <1>2 DEF PhaseOK, UserKinds, RecoveryKinds, TokenKinds, Outcomes
<1>4. TokenJobOK(q)'
  BY <1>1, <1>2 DEF TokenJobOK, BeginsFamily, At, TokenKinds
<1>5. u \in Existing("user")' /\ rows'[u] = rows[u]
  BY DEF Existing, Ids, Has
<1>6. UserJobOK(q)'
  BY <1>1, <1>5 DEF UserJobOK, ChangeOK
<1> QED BY <1>1, <1>3, <1>4, <1>6, ReadingStep DEF JobOK

LEMMA InviteUserStep ==
  ASSUME AccountInv, NEW q \in Requests, InviteUser(q)
  PROVE  AccountInv'
<1>1. UNCHANGED rows
  BY DEF InviteUser
<1>2. PICK r \in UserRoles, u \in Existing("user"), taken \in BOOLEAN :
        Begins(q, IF taken THEN Answered("invite_user", "refused")
                  ELSE AccountJob("invite_user", "insert", u, User(rows[u].org, r), "audit"))
  BY DEF InviteUser
<1>3. CASE Begins(q, Answered("invite_user", "refused"))
  BY <1>1, <1>3, RefusalStep DEF AccountKinds, UserKinds, Outcomes
<1>4. CASE Begins(q, AccountJob("invite_user", "insert", u, User(rows[u].org, r), "audit"))
  <2> DEFINE next == User(rows[u].org, r)
  <2>1. UserRow(next) /\ next.org = rows[u].org
    BY DEF User, UserRow, UserColumns
  <2>2. Begins(q, AccountJob("invite_user", "insert", u, next, "audit"))
    BY <1>4
  <2>3. "invite_user" \in UserKinds \cup RecoveryKinds /\ "invite_user" \notin RecoveryKinds
    BY DEF UserKinds, RecoveryKinds
  <2> HIDE DEF next
  <2> QED BY <1>1, <2>1, <2>2, <2>3, ChangeBegins
<1> QED BY <1>2, <1>3, <1>4

LEMMA UpdateUserRoleStep ==
  ASSUME AccountInv, NEW q \in Requests, UpdateUserRole(q)
  PROVE  AccountInv'
<1>1. UNCHANGED rows
  BY DEF UpdateUserRole
<1>2. PICK u \in Existing("user"), r \in UserRoles :
        Begins(q, IF rows[u].role = r THEN Answered("user_role", "ok")
                  ELSE AccountJob("user_role", IF rows[u].role = "admin" THEN "count" ELSE "diff",
                                  u, [rows[u] EXCEPT !.role = r], "audit"))
  BY DEF UpdateUserRole
<1> DEFINE next == [rows[u] EXCEPT !.role = r]
           phase == IF rows[u].role = "admin" THEN "count" ELSE "diff"
<1>3. CASE Begins(q, Answered("user_role", "ok"))
  BY <1>1, <1>3, RefusalStep DEF AccountKinds, UserKinds, Outcomes
<1>4. CASE Begins(q, AccountJob("user_role", phase, u, next, "audit"))
  <2>1. UserRow(next) /\ next.org = rows[u].org
    BY DEF UserRow, UserColumns, AccountInv, AccountTables
  <2>2. /\ phase \in {"count", "diff", "insert"} /\ phase # "insert"
        /\ phase = "count" <=> rows[u].role = "admin"
    OBVIOUS
  <2>3. "user_role" \in UserKinds /\ "user_role" \notin RecoveryKinds
    BY DEF UserKinds, RecoveryKinds
  <2> HIDE DEF next, phase
  <2> QED BY <1>1, <1>4, <2>1, <2>2, <2>3, ChangeBegins DEF IsAdmin
<1> QED BY <1>2, <1>3, <1>4

LEMMA RevokeUserStep ==
  ASSUME AccountInv, NEW q \in Requests, RevokeUser(q)
  PROVE  AccountInv'
<1>1. UNCHANGED rows
  BY DEF RevokeUser
<1>2. PICK u \in Existing("user") :
        Begins(q, AccountJob("revoke_user", IF rows[u].role = "admin" THEN "count" ELSE "diff", u,
                             [rows[u] EXCEPT !.active = FALSE], "tokens"))
  BY DEF RevokeUser
<1> DEFINE next == [rows[u] EXCEPT !.active = FALSE]
           phase == IF rows[u].role = "admin" THEN "count" ELSE "diff"
<1>3. UserRow(next) /\ next.org = rows[u].org
  BY DEF UserRow, UserColumns, AccountInv, AccountTables
<1>4. /\ phase \in {"count", "diff", "insert"} /\ phase # "insert"
      /\ phase = "count" <=> rows[u].role = "admin"
  OBVIOUS
<1>5. "revoke_user" \in UserKinds /\ "revoke_user" \notin RecoveryKinds
  BY DEF UserKinds, RecoveryKinds
<1>6. Begins(q, AccountJob("revoke_user", phase, u, next, "tokens"))
  BY <1>2
<1> HIDE DEF next, phase
<1> QED BY <1>1, <1>3, <1>4, <1>5, <1>6, ChangeBegins DEF IsAdmin

LEMMA CountAdminsStep ==
  ASSUME AccountInv, NEW q \in Requests, CountAdmins(q) \/ RecheckUser(q)
  PROVE  AccountInv'
<1>1. /\ job[q].kind \in UserKinds /\ job[q].phase \in {"count", "recheck"} /\ Busy(q)
      /\ job[q].kind \in AccountKinds /\ UNCHANGED rows
  BY DEF CountAdmins, RecheckUser, At, Busy, Outcomes, AccountKinds
<1>2. ChangeOK(q) /\ job[q].then \in {"audit", "tokens"} /\ job[q].kind # "invite_user"
  BY <1>1 DEF AccountInv, UserJobOK, PhaseOK
<1>3. CASE Ends(q, "refused")
  BY <1>1, <1>3, EndStep DEF Outcomes
<1>4. ASSUME NEW phase \in {"recheck", "diff"}, Goes(q, phase),
             phase = "recheck" => job[q].phase = "count",
             phase = "diff" /\ alone[q] => AnotherAdmin(job[q].row)
      PROVE  AccountInv'
  <2>1. /\ RequestInv' /\ Steps(q) /\ job'[q].phase = phase
        /\ job'[q].kind = job[q].kind /\ job'[q].row = job[q].row
        /\ job'[q].next = job[q].next /\ job'[q].then = job[q].then
        /\ JobFields \cup {"row", "next", "then"} \subseteq DOMAIN job'[q]
    BY <1>1, <1>4, GoMeans
  <2>2. UNCHANGED alone
    BY <1>4 DEF Goes
  <2>3. job[q].kind \notin TokenKinds \cup RecoveryKinds /\ job[q].kind # "none"
    BY <1>1 DEF UserKinds, RecoveryKinds, TokenKinds
  <2>4. PhaseOK(q)'
    BY <1>1, <1>2, <2>1, <2>3 DEF PhaseOK, TokenKinds, Outcomes
  <2>5. TokenJobOK(q)'
    BY <2>1, <2>3 DEF TokenJobOK, BeginsFamily, At, TokenKinds
  <2>6. Existing("user")' = Existing("user")
    BY <1>1 DEF Existing, Ids, Has
  <2>7. AnotherAdmin(job[q].row)' <=> AnotherAdmin(job[q].row)
    BY <1>1, <2>1, <2>6 DEF AnotherAdmin, ActiveAdmins
  <2>8. ChangeOK(q)'
    <3>1. /\ job'[q].row \in Existing("user")' /\ UserRow(job'[q].next)
          /\ job'[q].next.org = rows'[job'[q].row].org
      BY <1>1, <1>2, <2>1, <2>6 DEF ChangeOK
    <3>2. CASE phase = "recheck"
      BY <1>1, <1>2, <1>4, <2>1, <2>2, <3>1, <3>2 DEF ChangeOK
    <3>3. CASE phase = "diff"
      BY <1>4, <2>1, <2>2, <2>7, <3>1, <3>3 DEF ChangeOK
    <3> QED BY <3>2, <3>3
  <2>9. UserJobOK(q)'
    BY <2>8 DEF UserJobOK
  <2> QED BY <1>1, <2>1, <2>4, <2>5, <2>9, ReadingStep DEF JobOK
<1>5. CASE CountAdmins(q)
  <2> DEFINE S == ActiveAdmins(rows[job[q].row].org)
  <2>1. Goes(q, IF Cardinality(S) <= 1 THEN "recheck" ELSE "diff") /\ job[q].phase = "count"
    BY <1>5 DEF CountAdmins, At
\* More than one admin is one besides the user.
  <2>2. ~(Cardinality(S) <= 1) => AnotherAdmin(job[q].row)
    <3>1. S \ {job[q].row} = {} => S = {} \/ S = {job[q].row}
      OBVIOUS
    <3>2. Cardinality({}) = 0 /\ Cardinality({job[q].row}) = 1
      BY FS_EmptySet, FS_Singleton
    <3>3. S \ {job[q].row} = {} => Cardinality(S) <= 1
      <4> HIDE DEF S
      <4>1. S = {} => Cardinality(S) <= 1
        BY <3>2
      <4>2. S = {job[q].row} => Cardinality(S) <= 1
        BY <3>2
      <4> QED BY <3>1, <4>1, <4>2
    <3> QED BY <3>3 DEF AnotherAdmin
  <2> HIDE DEF S
  <2> QED BY <1>4, <2>1, <2>2
<1>6. CASE RecheckUser(q)
  <2>1. job[q].phase = "recheck"
    BY <1>6 DEF RecheckUser, At
  <2>2. alone[q] => rows[job[q].row].role = "admin"
    BY <1>2, <2>1 DEF ChangeOK
  <2>3. CASE rows[job[q].row].role = "admin"
    BY <1>3, <1>6, <2>3 DEF RecheckUser
  <2>4. CASE rows[job[q].row].role # "admin"
    BY <1>4, <1>6, <2>2, <2>4 DEF RecheckUser
  <2> QED BY <2>3, <2>4
<1> QED BY <1>5, <1>6

\* Once its row is saved a change has the tokens to revoke or the audit log to write.
LEMMA SavedJob ==
  ASSUME NEW q \in Requests, job'[q].kind \in UserKinds, job'[q].phase \in {"tokens", "audit"},
         job'[q].then \in {"audit", "tokens"},
         JobFields \cup {"row", "next", "then"} \subseteq DOMAIN job'[q],
         job'[q].kind = "invite_user" => job'[q].phase = "audit" /\ job'[q].then = "audit"
  PROVE  JobOK(q)'
<1>1. job'[q].kind \notin TokenKinds \cup RecoveryKinds /\ job'[q].kind # "none"
  BY DEF UserKinds, RecoveryKinds, TokenKinds
<1>2. PhaseOK(q)'
  BY <1>1 DEF PhaseOK, TokenKinds, Outcomes
<1>3. TokenJobOK(q)'
  BY <1>1 DEF TokenJobOK, BeginsFamily, At, TokenKinds
<1>4. UserJobOK(q)'
  BY DEF UserJobOK
<1> QED BY <1>2, <1>3, <1>4 DEF JobOK

LEMMA RevokeTokensStep ==
  ASSUME AccountInv, NEW q \in Requests, RevokeTokens(q)
  PROVE  AccountInv'
<1>1. /\ job[q].kind = "revoke_user" /\ job[q].kind \in UserKinds /\ Busy(q)
      /\ job[q].kind \in AccountKinds /\ Goes(q, "audit") /\ rows' = OfUser(job[q].row)
  BY DEF RevokeTokens, At, Busy, Outcomes, AccountKinds, UserKinds
<1>2. /\ RequestInv' /\ Steps(q) /\ job'[q].phase = "audit"
      /\ job'[q].kind = job[q].kind /\ job'[q].then = job[q].then
      /\ JobFields \cup {"row", "next", "then"} \subseteq DOMAIN job'[q]
  BY <1>1, GoMeans
<1>3. SameIds /\ TokensAge /\ UsersStay
  BY <1>1, RevokingUser DEF AccountInv
<1>4. job[q].then \in {"audit", "tokens"}
  BY <1>1 DEF AccountInv, PhaseOK
<1>5. JobOK(q)'
  BY <1>1, <1>2, <1>4, SavedJob
<1> QED BY <1>2, <1>3, <1>5, AccountStep DEF TokenStep, UserStep

\* Recovery keeps who the user is.
LEMMA RecoverStep ==
  ASSUME AccountInv, NEW q \in Requests, UNCHANGED rows, NEW kind \in RecoveryKinds,
         NEW u \in Existing("user"), NEW next, UserRow(next), next.org = rows[u].org,
         next.role = rows[u].role, next.active = rows[u].active,
         \/ Begins(q, Answered(kind, "refused"))
         \/ Begins(q, AccountJob(kind, "diff", u, next, "ok"))
  PROVE  AccountInv'
<1>1. CASE Begins(q, Answered(kind, "refused"))
  BY <1>1, RefusalStep DEF AccountKinds, Outcomes
<1>2. CASE Begins(q, AccountJob(kind, "diff", u, next, "ok"))
  <2>1. kind \in UserKinds \cup RecoveryKinds /\ kind \notin UserKinds /\ kind # "invite_user"
    BY DEF UserKinds, RecoveryKinds
  <2>2. IsAdmin(rows[u]) => IsAdmin(next)
    BY DEF IsAdmin
  <2> QED BY <1>2, <2>1, <2>2, ChangeBegins
<1> QED BY <1>1, <1>2

LEMMA RecoveryStep ==
  ASSUME AccountInv, NEW q \in Requests,
         ForgotPassword(q) \/ VerifyEmail(q) \/ ResendVerification(q) \/ ResetPassword(q)
  PROVE  AccountInv'
<1>1. \A u \in Existing("user") : UserRow(rows[u])
  BY DEF AccountInv, AccountTables
<1>2. CASE ForgotPassword(q)
  <2>1. PICK u \in Existing("user") :
          Begins(q, IF TRUE THEN AccountJob("forgot_password", "diff", u,
                                            [rows[u] EXCEPT !.reset = TRUE], "ok")
                    ELSE Answered("forgot_password", "refused"))
    BY <1>2 DEF ForgotPassword, Recover
  <2> DEFINE next == [rows[u] EXCEPT !.reset = TRUE]
  <2>2. /\ UserRow(next) /\ next.org = rows[u].org /\ next.role = rows[u].role
        /\ next.active = rows[u].active
    BY <1>1 DEF UserRow, UserColumns
  <2>3. Begins(q, AccountJob("forgot_password", "diff", u, next, "ok")) /\ UNCHANGED rows
    BY <1>2, <2>1 DEF ForgotPassword, Recover
  <2> HIDE DEF next
  <2> QED BY <2>2, <2>3, RecoverStep DEF RecoveryKinds
<1>3. CASE VerifyEmail(q)
  <2>1. PICK u \in Existing("user") :
          Begins(q, IF rows[u].verification
                    THEN AccountJob("verify_email", "diff", u,
                           [rows[u] EXCEPT !.verified = TRUE, !.verification = FALSE], "ok")
                    ELSE Answered("verify_email", "refused"))
    BY <1>3 DEF VerifyEmail, Recover
  <2> DEFINE next == [rows[u] EXCEPT !.verified = TRUE, !.verification = FALSE]
  <2>2. /\ UserRow(next) /\ next.org = rows[u].org /\ next.role = rows[u].role
        /\ next.active = rows[u].active
    BY <1>1 DEF UserRow, UserColumns
  <2>3. /\ \/ Begins(q, AccountJob("verify_email", "diff", u, next, "ok"))
           \/ Begins(q, Answered("verify_email", "refused"))
        /\ UNCHANGED rows
    BY <1>3, <2>1 DEF VerifyEmail, Recover
  <2> HIDE DEF next
  <2> QED BY <2>2, <2>3, RecoverStep DEF RecoveryKinds
<1>4. CASE ResendVerification(q)
  <2>1. PICK u \in Existing("user") :
          Begins(q, IF ~rows[u].verified
                    THEN AccountJob("resend_email", "diff", u,
                                    [rows[u] EXCEPT !.verification = TRUE], "ok")
                    ELSE Answered("resend_email", "refused"))
    BY <1>4 DEF ResendVerification, Recover
  <2> DEFINE next == [rows[u] EXCEPT !.verification = TRUE]
  <2>2. /\ UserRow(next) /\ next.org = rows[u].org /\ next.role = rows[u].role
        /\ next.active = rows[u].active
    BY <1>1 DEF UserRow, UserColumns
  <2>3. /\ \/ Begins(q, AccountJob("resend_email", "diff", u, next, "ok"))
           \/ Begins(q, Answered("resend_email", "refused"))
        /\ UNCHANGED rows
    BY <1>4, <2>1 DEF ResendVerification, Recover
  <2> HIDE DEF next
  <2> QED BY <2>2, <2>3, RecoverStep DEF RecoveryKinds
<1>5. CASE ResetPassword(q)
  <2>1. PICK u \in Existing("user") :
          Begins(q, IF rows[u].reset
                    THEN AccountJob("reset_password", "diff", u,
                           [rows[u] EXCEPT !.password = @ + 1, !.reset = FALSE], "ok")
                    ELSE Answered("reset_password", "refused"))
    BY <1>5 DEF ResetPassword, Recover
  <2> DEFINE next == [rows[u] EXCEPT !.password = @ + 1, !.reset = FALSE]
  <2>2. /\ UserRow(next) /\ next.org = rows[u].org /\ next.role = rows[u].role
        /\ next.active = rows[u].active
    BY <1>1 DEF UserRow, UserColumns
  <2>3. /\ \/ Begins(q, AccountJob("reset_password", "diff", u, next, "ok"))
           \/ Begins(q, Answered("reset_password", "refused"))
        /\ UNCHANGED rows
    BY <1>5, <2>1 DEF ResetPassword, Recover
  <2> HIDE DEF next
  <2> QED BY <2>2, <2>3, RecoverStep DEF RecoveryKinds
<1> QED BY <1>2, <1>3, <1>4, <1>5

-------------------------------------------------------------------------------
(* save() of an account. *)

\* The kinds that load a user and save it.
LEMMA ChangingKind ==
  ASSUME AccountInv, NEW q \in Requests, job[q].kind \in AccountKinds,
         job[q].phase \in {"diff", "write"}
  PROVE  /\ Busy(q) /\ ChangeOK(q) /\ job[q].kind \in UserKinds \cup RecoveryKinds
         /\ job[q].kind \notin TokenKinds \cup {"none", "invite_user"}
         /\ JobFields \cup {"row", "next", "then"} \subseteq DOMAIN job[q]
         /\ job[q].kind \in RecoveryKinds => job[q].then = "ok"
         /\ job[q].kind \in UserKinds => job[q].then \in {"audit", "tokens"}
<1>1. Busy(q) /\ PhaseOK(q) /\ UserJobOK(q)
  BY DEF Busy, Outcomes, AccountInv
<1>2. job[q].kind \notin TokenKinds \cup {"invite_user"}
  BY <1>1 DEF PhaseOK, TokenKinds, Outcomes
<1>3. job[q].kind \in UserKinds \cup RecoveryKinds
  BY <1>2 DEF AccountKinds
<1>4. job[q].kind # "none"
  BY <1>3 DEF UserKinds, RecoveryKinds
<1>5. ChangeOK(q)
  BY <1>1, <1>3 DEF UserJobOK
<1>6. /\ JobFields \cup {"row", "next", "then"} \subseteq DOMAIN job[q]
      /\ job[q].kind \in RecoveryKinds => job[q].then = "ok"
      /\ job[q].kind \in UserKinds => job[q].then \in {"audit", "tokens"}
  BY <1>1 DEF PhaseOK
<1> QED BY <1>1, <1>2, <1>3, <1>4, <1>5, <1>6

LEMMA DiffStep ==
  ASSUME AccountInv, NEW q \in Requests, DiffRow(q, AccountKinds)
  PROVE  AccountInv'
<1> DEFINE dirty == Differing(job[q].next, rows[job[q].row])
           j == [job[q] EXCEPT !.phase = "write", !.dirty = dirty]
<1>1. /\ job[q].kind \in AccountKinds /\ job[q].phase = "diff" /\ UNCHANGED <<alone, rows>>
      /\ job' = [job EXCEPT ![q].phase = "write", ![q].dirty = dirty]
  BY DEF DiffRow, At
<1> HIDE DEF dirty
<1>2. /\ Busy(q) /\ ChangeOK(q) /\ job[q].kind \in UserKinds \cup RecoveryKinds
      /\ job[q].kind \notin TokenKinds \cup {"none", "invite_user"}
      /\ JobFields \cup {"row", "next", "then"} \subseteq DOMAIN job[q]
      /\ job[q].kind \in RecoveryKinds => job[q].then = "ok"
      /\ job[q].kind \in UserKinds => job[q].then \in {"audit", "tokens"}
  BY <1>1, ChangingKind
<1>3. /\ JobFields \cup {"row", "next", "then"} \subseteq DOMAIN j
      /\ j.kind = job[q].kind /\ j.phase = "write" /\ j.row = job[q].row
      /\ j.next = job[q].next /\ j.then = job[q].then
  BY <1>2 DEF JobFields
<1>4. job' = [job EXCEPT ![q] = j]
  BY <1>1, <1>2 DEF AccountInv, RequestInv
<1>5. RequestInv' /\ job'[q] = j /\ Steps(q)
  <2> HIDE DEF j
  <2> QED BY <1>1, <1>2, <1>3, <1>4, JobBecomes DEF AccountInv
<1> HIDE DEF j
<1>6. PhaseOK(q)' /\ TokenJobOK(q)'
  BY <1>2, <1>3, <1>5 DEF PhaseOK, TokenJobOK, BeginsFamily, At, TokenKinds, RecoveryKinds,
                          UserKinds, Outcomes
<1>7. /\ Existing("user")' = Existing("user")
      /\ AnotherAdmin(job[q].row)' <=> AnotherAdmin(job[q].row)
  BY <1>1, <1>3, <1>5 DEF Existing, Ids, Has, AnotherAdmin, ActiveAdmins
<1>8. ChangeOK(q)'
  BY <1>1, <1>2, <1>3, <1>5, <1>7 DEF ChangeOK
<1>9. UserJobOK(q)'
  BY <1>8 DEF UserJobOK
<1> QED BY <1>1, <1>5, <1>6, <1>9, ReadingStep DEF JobOK

LEMMA WriteStep ==
  ASSUME AccountInv, NEW q \in Requests, WriteRow(q, AccountKinds \ {"reset_password"})
  PROVE  AccountInv'
<1> DEFINE id == job[q].row
<1>1. /\ job[q].kind \in AccountKinds /\ job[q].phase = "write" /\ Goes(q, job[q].then)
      /\ rows' = [rows EXCEPT ![id] = Written(rows[id], job[q].next, job[q].dirty)]
  BY DEF WriteRow, At
<1>2. /\ Busy(q) /\ ChangeOK(q) /\ job[q].kind \in UserKinds \cup RecoveryKinds
      /\ job[q].kind \notin TokenKinds \cup {"none", "invite_user"}
      /\ job[q].kind \in RecoveryKinds => job[q].then = "ok"
      /\ job[q].kind \in UserKinds => job[q].then \in {"audit", "tokens"}
  BY <1>1, ChangingKind
<1>3. id \in DOMAIN rows /\ id[1] = "user" /\ rows = [x \in DOMAIN rows |-> rows[x]]
  BY <1>2 DEF ChangeOK, Existing, Ids, AccountInv, AccountTables
<1>4. /\ SameIds /\ rows'[id] = Written(rows[id], job[q].next, job[q].dirty)
      /\ \A x \in DOMAIN rows \ {id} : rows'[x] = rows[x]
  BY <1>1, <1>3 DEF SameIds
<1>5. UserChange(q)
  BY <1>1, <1>2, <1>4 DEF UserChange, Ids
<1>6. TokensAge
  <2>1. \A t \in Ids("token") : rows'[t] = rows[t]
    BY <1>3, <1>4 DEF Ids
  <2> QED BY <2>1 DEF TokensAge, AccountInv, AccountTables, Existing, Has
<1>7. /\ RequestInv' /\ Steps(q) /\ job'[q].phase = job[q].then
      /\ job'[q].kind = job[q].kind /\ job'[q].then = job[q].then
      /\ JobFields \cup {"row", "next", "then"} \subseteq DOMAIN job'[q]
  BY <1>1, <1>2, GoMeans
<1>8. JobOK(q)'
  <2>1. CASE job[q].kind \in RecoveryKinds
    BY <1>2, <1>7, <2>1, EndedJob DEF Outcomes
  <2>2. CASE job[q].kind \in UserKinds
    BY <1>2, <1>7, <2>2, SavedJob
  <2> QED BY <1>2, <2>1, <2>2
<1> QED BY <1>4, <1>5, <1>6, <1>7, <1>8, AccountStep DEF TokenStep, UserStep

LEMMA CommitResetStep ==
  ASSUME AccountInv, NEW q \in Requests, CommitReset(q)
  PROVE  AccountInv'
<1> DEFINE id == job[q].row
<1>1. /\ job[q].kind = "reset_password" /\ job[q].phase = "write" /\ Goes(q, "ok")
      /\ job[q].kind \in AccountKinds
      /\ rows' = [OfUser(id) EXCEPT ![id] = Written(OfUser(id)[id], job[q].next, job[q].dirty)]
  BY DEF CommitReset, At, AccountKinds, RecoveryKinds
<1>2. Busy(q) /\ ChangeOK(q) /\ job[q].kind \in UserKinds \cup RecoveryKinds
  BY <1>1, ChangingKind
<1>3. id \in DOMAIN rows /\ id[1] = "user" /\ id \notin Existing("token")
  BY <1>2 DEF ChangeOK, Existing, Ids
<1>4. DOMAIN OfUser(id) = DOMAIN rows /\ OfUser(id)[id] = rows[id]
  BY <1>3, OfUserRows
<1>5. \A x \in Ids("user") : OfUser(id)[x] = rows[x]
  BY OfUserRows DEF Ids, Existing
<1>6. OfUser(id) = [x \in DOMAIN rows |-> OfUser(id)[x]]
  BY OfUserRows
<1> DEFINE before == OfUser(id)
<1>7. /\ SameIds /\ rows'[id] = Written(rows[id], job[q].next, job[q].dirty)
      /\ \A x \in DOMAIN rows \ {id} : rows'[x] = before[x]
  <2>1. /\ rows' = [before EXCEPT ![id] = Written(before[id], job[q].next, job[q].dirty)]
        /\ before = [x \in DOMAIN rows |-> before[x]] /\ before[id] = rows[id]
    BY <1>1, <1>4, <1>6
  <2> HIDE DEF before
  <2> QED BY <1>3, <2>1 DEF SameIds
<1>8. UserChange(q)
  BY <1>1, <1>2, <1>5, <1>7 DEF UserChange, Ids
<1>9. TokensAge
  <2>1. \A t \in Ids("token") : rows'[t] = before[t]
    BY <1>3, <1>7 DEF Ids
  <2> QED BY <2>1, RevokingTokens DEF AccountInv
<1>10. RequestInv' /\ Steps(q) /\ job'[q].phase = "ok" /\ job'[q].kind = job[q].kind
  BY <1>1, <1>2, GoMeans
<1>11. JobOK(q)'
  BY <1>1, <1>10, EndedJob DEF Outcomes
<1> QED BY <1>7, <1>8, <1>9, <1>10, <1>11, AccountStep DEF TokenStep, UserStep

\* save() of a user who was invited.
LEMMA InsertUserStep ==
  ASSUME AccountInv, NEW q \in Requests, InsertRow(q, UserKinds, "user")
  PROVE  AccountInv'
<1> DEFINE u == FirstFree("user")
           j == [job[q] EXCEPT !.phase = job[q].then, !.row = u]
<1>1. /\ job[q].kind \in UserKinds /\ job[q].phase = "insert" /\ Busy(q)
      /\ job[q].kind \in AccountKinds /\ Free("user") # {} /\ UNCHANGED alone
      /\ rows' = [rows EXCEPT ![u] = job[q].next]
      /\ job' = [job EXCEPT ![q].phase = job[q].then, ![q].row = u]
  BY DEF InsertRow, At, Busy, Outcomes, AccountKinds
<1>2. job[q].kind = "invite_user"
  BY <1>1 DEF AccountInv, PhaseOK, Outcomes
<1>3. u \in Ids("user") /\ u \in DOMAIN rows /\ u[1] = "user" /\ rows[u] = NoRow
  BY <1>1, FreeIdExists DEF AccountInv
<1>4. /\ JobFields \cup {"row", "next", "then"} \subseteq DOMAIN job[q]
      /\ job[q].then = "audit" /\ ChangeOK(q)
  BY <1>1, <1>2 DEF AccountInv, PhaseOK, UserJobOK
<1>5. /\ JobFields \cup {"row", "next", "then"} \subseteq DOMAIN j /\ j.kind = job[q].kind
      /\ j.phase = "audit" /\ j.then = "audit"
  BY <1>4 DEF JobFields
<1>6. job' = [job EXCEPT ![q] = j]
  BY <1>1, <1>4 DEF AccountInv, RequestInv
<1>7. RequestInv' /\ job'[q] = j /\ Steps(q)
  <2> HIDE DEF j
  <2> QED BY <1>1, <1>5, <1>6, JobBecomes DEF AccountInv
<1> HIDE DEF u, j
<1>8. SameIds /\ rows'[u] = job[q].next /\ \A x \in DOMAIN rows \ {u} : rows'[x] = rows[x]
  BY <1>1, <1>3 DEF AccountInv, AccountTables, SameIds
<1>9. TokensAge
  <2>1. \A t \in Ids("token") : rows'[t] = rows[t]
    BY <1>3, <1>8 DEF Ids
  <2> QED BY <2>1 DEF TokensAge, AccountInv, AccountTables, Existing, Has
<1>10. NewUser
  <2>1. UserRow(job[q].next) /\ job[q].row \in Existing("user")
        /\ job[q].next.org = rows[job[q].row].org
    BY <1>4 DEF ChangeOK
  <2> QED BY <1>3, <1>8, <2>1 DEF NewUser, Ids
<1>11. JobOK(q)'
  BY <1>1, <1>2, <1>5, <1>7, SavedJob
<1> QED BY <1>7, <1>8, <1>9, <1>10, <1>11, AccountStep DEF TokenStep, UserStep

LEMMA AuditStep ==
  ASSUME AccountInv, NEW q \in Requests, AuditedRow(q, AccountKinds)
  PROVE  AccountInv'
<1>1. job[q].kind \in AccountKinds /\ Busy(q) /\ Goes(q, "ok") /\ UNCHANGED rows
  BY DEF AuditedRow, At, Busy, Outcomes
<1>2. RequestInv' /\ Steps(q) /\ job'[q].phase = "ok" /\ job'[q].kind = job[q].kind
  BY <1>1, GoMeans
<1>3. job[q].kind # "none"
  BY <1>1 DEF AccountKinds, TokenKinds, UserKinds, RecoveryKinds
<1> QED BY <1>1, <1>2, <1>3, EndedJob, ReadingStep DEF Outcomes

LEMMA AccountsStay ==
  ASSUME AccountInv, UNCHANGED <<requestVars, rows>>
  PROVE  AccountInv'
<1>1. UNCHANGED <<job, alone, rows>>
  BY DEF requestVars
<1>2. RequestInv' /\ AccountTables'
  BY <1>1 DEF AccountInv, RequestInv, Solitude, Busy, AccountTables, Existing, Ids, Has
<1>3. \A q \in Requests : PhaseOK(q)' /\ TokenJobOK(q)' /\ UserJobOK(q)'
  BY <1>1 DEF AccountInv, PhaseOK, Busy, TokenJobOK, BeginsFamily, Unused, At, RefreshOK,
              HoldsLast, RotatedAside, UserJobOK, ChangeOK, AnotherAdmin, ActiveAdmins, Existing, Ids, Has
<1>4. OneLiveTokenPerFamily' /\ AdminRemains'
  BY <1>1 DEF AccountInv, OneLiveTokenPerFamily, RotatedAside, AdminRemains, ActiveAdmins,
              Existing, Ids, Has
<1> QED BY <1>2, <1>3, <1>4 DEF AccountInv

LEMMA AccountNextStep ==
  ASSUME AccountInv, AccountNext
  PROVE  AccountInv'
<1>1. ASSUME NEW q \in Requests,
             \/ Register(q) \/ CreateAdmin(q) \/ Login(q) \/ Refresh(q) \/ ReadUser(q)
             \/ Rotate(q) \/ Logout(q) \/ LogoutAll(q)
      PROVE  AccountInv'
  BY <1>1, RegisterStep, CreateAdminStep, LoginStep, RefreshStep, ReadUserStep, RotateStep,
     LogoutStep
<1>2. ASSUME NEW q \in Requests,
             \/ InviteUser(q) \/ UpdateUserRole(q) \/ RevokeUser(q) \/ CountAdmins(q)
             \/ RecheckUser(q) \/ RevokeTokens(q) \/ ForgotPassword(q) \/ VerifyEmail(q)
             \/ ResendVerification(q) \/ ResetPassword(q) \/ CommitReset(q)
      PROVE  AccountInv'
  BY <1>2, InviteUserStep, UpdateUserRoleStep, RevokeUserStep, CountAdminsStep,
     RevokeTokensStep, RecoveryStep, CommitResetStep
<1>3. ASSUME NEW q \in Requests, SaveAccount(q)
      PROVE  AccountInv'
  BY <1>3, InsertTokenStep, InsertUserStep, DiffStep, WriteStep, AuditStep DEF SaveAccount
<1>4. ASSUME NEW q \in Requests, AccountFails(q)
      PROVE  AccountInv'
  BY <1>4, EndStep DEF AccountFails
<1> QED BY <1>1, <1>2, <1>3, <1>4 DEF AccountNext

-------------------------------------------------------------------------------
\* Refreshes, logins and logouts of any number of requests, the changes of users and their
\* recovery, with any number of failed calls, keep the invariant: every family begins with
\* one request, a rotation replaces one token by one, and who removes an admin has counted.
THEOREM AccountInvariance == AccountSpec => []AccountInv
<1>1. AccountInit => AccountInv
  <2> SUFFICES ASSUME AccountInit PROVE AccountInv
    OBVIOUS
  <2>1. RequestInv
    BY RequestsBegin DEF AccountInit
  <2>2. PICK n \in Nat : rows = [id \in {"user", "token"} \X (1..n) |-> NoRow]
    BY DEF AccountInit
  <2>3. Existing("user") = {} /\ Existing("token") = {}
    BY <2>2 DEF Existing, Ids, Has
  <2>4. AccountTables
    BY <2>2, <2>3 DEF AccountTables
  <2>5. \A q \in Requests : job[q].kind = "none" /\ job[q].phase = "idle"
    BY DEF AccountInit, RequestInit, NoJob
  <2>6. \A q \in Requests : PhaseOK(q) /\ TokenJobOK(q) /\ UserJobOK(q)
    BY <2>3, <2>5 DEF PhaseOK, TokenJobOK, BeginsFamily, Unused, At, UserJobOK, TokenKinds,
                      UserKinds, RecoveryKinds, AccountKinds
  <2>7. OneLiveTokenPerFamily /\ AdminRemains
    BY <2>3 DEF OneLiveTokenPerFamily, AdminRemains
  <2> QED BY <2>1, <2>4, <2>6, <2>7 DEF AccountInv
<1>2. AccountInv /\ [AccountNext]_<<requestVars, rows>> => AccountInv'
  BY AccountsStay, AccountNextStep
<1> QED BY <1>1, <1>2, PTL DEF AccountSpec

\* refresh() rotates: of the tokens of one login at most one can still be refreshed, unless
\* two refreshes of this login rotated while another request was at work, which no lock of
\* auth.service.ts prevents.
THEOREM FamiliesHaveOneToken == AccountSpec => []OneLiveTokenPerFamily
<1>1. AccountInv => OneLiveTokenPerFamily
  BY DEF AccountInv
<1> QED BY <1>1, AccountInvariance, PTL

\* assertNotLastActiveAdmin() holds what its name says as long as the requests about users
\* come one after the other: an organization that has users has an active admin.
THEOREM AdminsRemain == AccountSpec => []AdminRemains
<1>1. AccountInv => AdminRemains
  BY DEF AccountInv
<1> QED BY <1>1, AccountInvariance, PTL

-------------------------------------------------------------------------------
(* Members of workspaces and organizations.  Both tables are managed alike. *)

SeatTables == {"member", "orgmember"}
SeatColumns == {"home", "user", "role", "status"}
Seat(r) == r = [c \in SeatColumns |-> r[c]]
Peopled(home) == \E m \in Existing("member") : rows[m].home = home
OfWorkspace(r) == "home" \in DOMAIN r /\ r.home \in Ids("workspace") /\ Peopled(r.home)

SeatsInv ==
  /\ rows = [id \in DOMAIN rows |-> rows[id]]
  /\ \A id \in DOMAIN rows : id[2] \in Nat \ {0}
  /\ \A table \in SeatTables : \A id \in Existing(table) : Seat(rows[id])
  /\ \A id \in Existing("member") \cup Existing("invitation") : OfWorkspace(rows[id])

DisconnectKinds == {"member_suspend", "member_remove"}
SeatTable(kind) == IF kind \in {"orgmember_role", "orgmember_remove"} THEN "orgmember" ELSE "member"

\* What a request of each kind may change of the seat.
ChangeOf(kind, change) ==
  /\ kind \in {"member_role", "orgmember_role"} => change = [role |-> change.role]
  /\ kind = "member_restore" => change = [status |-> "active"]
  /\ kind = "member_suspend" => change = [status |-> "suspended"]
  /\ kind \in {"member_remove", "orgmember_remove"} => change = [status |-> "removed"]

IsOwner(r) == r.role = "owner" /\ r.status = "active"
AnotherOwner(id) == Owners(id[1], rows[id].home) \ {id} # {}

\* The copy is of a seat that is still there, of the same person in the same place.  A change
\* that has been alone finds the seat as it was, and does not remove the last owner.
SeatChangeOK(q) ==
  LET id == job[q].row
      next == job[q].next
  IN /\ Seat(next) /\ next.home = rows[id].home /\ next.user = rows[id].user
     /\ job[q].then = AfterSave(job[q].kind)
     /\ job[q].kind = "member_restore" => next.status = "active"
     /\ job[q].kind = "member_role" /\ alone[q] => next.status = rows[id].status
     /\ alone[q] /\ job[q].phase \in {"diff", "write"} =>
          \/ AnotherOwner(id)
          \/ IsOwner(rows[id]) => IsOwner(next)

ManageJobOK(q) ==
  job[q].kind \in ManageKinds =>
    /\ job[q].phase \in {"target", "owners", "diff", "write"} \cup Outcomes
                        \cup (IF job[q].kind \in DisconnectKinds THEN {"disconnect", "kick"} ELSE {})
    /\ job[q].phase \in {"target", "owners", "diff", "write"} =>
         job[q].row \in Existing(SeatTable(job[q].kind))
    /\ job[q].phase = "target" => ChangeOf(job[q].kind, job[q].next)
    /\ job[q].phase \in {"owners", "diff", "write"} => SeatChangeOK(q)

OtherJobOK(q) ==
  /\ job[q].kind = "invitation_create" =>
       /\ job[q].phase \in {"pending", "insert"} \cup Outcomes
       /\ job[q].phase \in {"pending", "insert"} => OfWorkspace(job[q].next) /\ job[q].then = "ok"
  /\ job[q].kind = "invitation_revoke" =>
       /\ job[q].phase \in {"diff", "write"} \cup Outcomes
       /\ job[q].phase \in {"diff", "write"} =>
            /\ job[q].row \in Existing("invitation") /\ job[q].then = "ok"
            /\ OfWorkspace(job[q].next)
  /\ job[q].kind \in WorkspaceKinds =>
       /\ job[q].phase \in {"diff", "write"} \cup Outcomes
       /\ job[q].phase \in {"diff", "write"} => job[q].row \in Ids("workspace")
  /\ job[q].kind = "invitation_accept" => job[q].phase \in Outcomes

MemberFields == JobFields \cup {"row", "next", "dirty", "then"}
MemberJobOK(q) ==
  /\ Busy(q) => job[q].kind \in MemberKinds /\ MemberFields \subseteq DOMAIN job[q]
  /\ ManageJobOK(q) /\ OtherJobOK(q)

MemberInv ==
  /\ RequestInv /\ SeatsInv
  /\ \A q \in Requests : MemberJobOK(q)
  /\ OwnerRemains

-------------------------------------------------------------------------------
(* Sockets: whoever loses the membership is on the way to losing the room. *)

\* Closing s is another process's business, or fetchSockets() could not find it.
Marked(s) == s \in ordered \cup unseen

Admitted(s, home) ==
  \/ IsMember(Caller(s).user, home)
  \/ Marked(s)
  \/ \E q \in Requests : Disconnects(q, s)
  \/ \E q \in Requests : job[q].kind = "member_role" /\ ~alone[q]

SocketOK(s) ==
  /\ socket[s] = [c \in {"phase", "at", "jwt"} |-> socket[s][c]]
  /\ socket[s] = NoSocket => joining[s] = {}
  /\ Live(s) => \A room \in rooms[s] \cup joining[s] :
                  room.type \in {"workspace", "ai-task"} => Admitted(s, room.of)

RoomsInv ==
  /\ socket = [s \in Sockets |-> socket[s]] /\ rooms = [s \in Sockets |-> rooms[s]]
  /\ joining = [s \in Sockets |-> joining[s]]
  /\ \A s \in Sockets : SocketOK(s)

RealtimeInv == MemberInv /\ RoomsInv

-------------------------------------------------------------------------------
(* What a step does to the tables of members. *)

SeatIds == Ids("member") \cup Ids("orgmember")

SeatsStay == \A id \in SeatIds : rows'[id] = rows[id]

SeatChange(q) ==
  /\ job[q].kind \in ManageKinds /\ job[q].phase = "write"
  /\ rows'[job[q].row] = Written(rows[job[q].row], job[q].next, job[q].dirty)
  /\ \A x \in SeatIds \ {job[q].row} : rows'[x] = rows[x]

\* An invitation gives the invited a new seat or their old one; the only owner who takes
\* another role by it is remembered.
SeatTaken(q) ==
  /\ job'[q].kind = "invitation_accept"
  /\ \E id \in Ids("member"), home \in Ids("workspace") : \E user, role :
       /\ Peopled(home)
       /\ rows'[id] = Member(home, user, role)
       /\ rows[id] # NoRow => rows[id].home = home /\ rows[id].user = user
       /\ Owners("member", home) = {id} /\ role # "owner" => home \in job'[q].resigned
       /\ \A x \in SeatIds \ {id} : rows'[x] = rows[x]

SeatFounded ==
  \E id \in Ids("member"), home \in Ids("workspace") : \E user :
    /\ rows[id] = NoRow
    /\ rows'[id] = Member(home, user, "owner")
    /\ \A x \in SeatIds \ {id} : rows'[x] = rows[x]

SeatStep(q) == SeatsStay \/ SeatChange(q) \/ SeatTaken(q) \/ SeatFounded

InvitationsKept ==
  \A id \in Ids("invitation") :
    /\ rows[id] # NoRow => rows'[id] # NoRow
    /\ rows'[id] # NoRow => OfWorkspace(rows'[id])

LEMMA SeatsAreRows ==
  ASSUME NEW r
  PROVE  (Seat(r) => r # NoRow) /\ (OfWorkspace(r) => r # NoRow)
<1>1. DOMAIN NoRow = {"status"} /\ "home" \in SeatColumns
  BY DEF NoRow, SeatColumns
<1>2. Seat(r) => DOMAIN r = SeatColumns
  BY DEF Seat
<1> QED BY <1>1, <1>2 DEF OfWorkspace

LEMMA MemberIsSeat ==
  ASSUME NEW home, NEW user, NEW role
  PROVE  /\ Seat(Member(home, user, role))
         /\ Member(home, user, role).home = home /\ Member(home, user, role).user = user
         /\ Member(home, user, role).role = role /\ Member(home, user, role).status = "active"
BY DEF Member, Seat, SeatColumns

\* The columns of a change come from the row or from the copy.
LEMMA MixedSeat ==
  ASSUME NEW stored, NEW copy, NEW dirty, Seat(stored), Seat(copy),
         copy.home = stored.home, copy.user = stored.user
  PROVE  LET r == Written(stored, copy, dirty)
         IN /\ Seat(r) /\ r.home = stored.home /\ r.user = stored.user
            /\ r.role \in {stored.role, copy.role} /\ r.status \in {stored.status, copy.status}
<1> DEFINE r == Written(stored, copy, dirty)
<1>1. DOMAIN stored = SeatColumns
  BY DEF Seat
<1>2. /\ DOMAIN r = SeatColumns
      /\ \A c \in SeatColumns : r[c] = IF c \in dirty THEN copy[c] ELSE stored[c]
      /\ r = [c \in SeatColumns |-> r[c]]
  BY <1>1 DEF Written
<1>3. SeatColumns = {"home", "user", "role", "status"}
  BY DEF SeatColumns
<1> HIDE DEF r
<1>4. /\ r.home = stored.home /\ r.user = stored.user
      /\ r.role \in {stored.role, copy.role} /\ r.status \in {stored.status, copy.status}
  BY <1>2, <1>3
<1>5. Seat(r)
  BY <1>2 DEF Seat
<1> QED BY <1>4, <1>5 DEF r

\* Seats stay where they are and with whom they are; new ones are of workspaces.
LEMMA SeatsKept ==
  ASSUME MemberInv, NEW q \in Requests, SameIds, SeatStep(q)
  PROVE  /\ SeatIds' = SeatIds /\ \A table \in SeatTables : Ids(table)' = Ids(table)
         /\ \A id \in SeatIds : rows[id] # NoRow =>
              /\ rows'[id] # NoRow /\ Seat(rows[id]) /\ Seat(rows'[id])
              /\ rows'[id].home = rows[id].home /\ rows'[id].user = rows[id].user
         /\ \A id \in SeatIds : rows[id] = NoRow /\ rows'[id] # NoRow =>
              /\ Seat(rows'[id]) /\ id \in Ids("member") /\ rows'[id].home \in Ids("workspace")
         /\ SeatChange(q) => /\ job[q].row \in SeatIds /\ rows[job[q].row] # NoRow
                             /\ SeatChangeOK(q)
<1>1. SeatIds' = SeatIds /\ \A table \in SeatTables : Ids(table)' = Ids(table)
  BY DEF SameIds, SeatIds, Ids
<1>2. \A id \in SeatIds : rows[id] # NoRow => Seat(rows[id])
  BY DEF MemberInv, SeatsInv, SeatIds, SeatTables, Existing, Has
<1>3. SeatChange(q) => /\ job[q].row \in SeatIds /\ rows[job[q].row] # NoRow
                       /\ SeatChangeOK(q)
  <2> SUFFICES ASSUME SeatChange(q)
               PROVE  /\ job[q].row \in SeatIds /\ rows[job[q].row] # NoRow /\ SeatChangeOK(q)
    OBVIOUS
  <2>1. job[q].kind \in ManageKinds /\ job[q].phase = "write" /\ ManageJobOK(q)
    BY DEF SeatChange, MemberInv, MemberJobOK
  <2>2. job[q].row \in Existing(SeatTable(job[q].kind)) /\ SeatChangeOK(q)
    BY <2>1 DEF ManageJobOK
  <2> QED BY <2>2 DEF SeatTable, SeatIds, Existing, Has
<1>4. ASSUME NEW id \in SeatIds
      PROVE  /\ rows[id] # NoRow =>
                  /\ Seat(rows'[id])
                  /\ rows'[id].home = rows[id].home /\ rows'[id].user = rows[id].user
             /\ rows[id] = NoRow /\ rows'[id] # NoRow =>
                  /\ Seat(rows'[id]) /\ id \in Ids("member") /\ rows'[id].home \in Ids("workspace")
  <2>1. CASE rows'[id] = rows[id]
    BY <1>2, <2>1
  <2>2. CASE SeatChange(q) /\ id = job[q].row
    <3>1. Seat(rows[id]) /\ Seat(job[q].next) /\ rows[id] # NoRow
          /\ job[q].next.home = rows[id].home /\ job[q].next.user = rows[id].user
      BY <1>2, <1>3, <2>2 DEF SeatChangeOK
    <3>2. rows'[id] = Written(rows[id], job[q].next, job[q].dirty)
      BY <2>2 DEF SeatChange
    <3> QED BY <3>1, <3>2, MixedSeat
  <2>3. ASSUME id \in Ids("member"),
               NEW home \in Ids("workspace"), NEW user, NEW role,
               rows'[id] = Member(home, user, role),
               rows[id] # NoRow => rows[id].home = home /\ rows[id].user = user
        PROVE  /\ Seat(rows'[id]) /\ rows'[id].home \in Ids("workspace")
               /\ rows[id] # NoRow =>
                    rows'[id].home = rows[id].home /\ rows'[id].user = rows[id].user
    BY <2>3 DEF Member, Seat, SeatColumns
  <2>4. \/ rows'[id] = rows[id]
        \/ SeatChange(q) /\ id = job[q].row
        \/ /\ id \in Ids("member")
           /\ \E home \in Ids("workspace") : \E user, role :
                /\ rows'[id] = Member(home, user, role)
                /\ rows[id] # NoRow => rows[id].home = home /\ rows[id].user = user
    <3>1. CASE SeatsStay
      BY <3>1 DEF SeatsStay
    <3>2. CASE SeatChange(q)
      BY <3>2 DEF SeatChange
    <3>3. CASE SeatTaken(q)
      BY <3>3 DEF SeatTaken
    <3>4. CASE SeatFounded
      BY <3>4 DEF SeatFounded
    <3> QED BY <3>1, <3>2, <3>3, <3>4 DEF SeatStep
  <2> QED BY <2>1, <2>2, <2>3, <2>4
<1>5. \A id \in SeatIds : rows[id] # NoRow => rows'[id] # NoRow
  BY <1>4, SeatsAreRows
<1> QED BY <1>1, <1>2, <1>3, <1>4, <1>5

LEMMA PeopledStay ==
  ASSUME MemberInv, NEW q \in Requests, SameIds, SeatStep(q)
  PROVE  \A home : Peopled(home) => Peopled(home)'
<1> SUFFICES ASSUME NEW home, Peopled(home) PROVE Peopled(home)'
  OBVIOUS
<1>1. PICK m \in Existing("member") : rows[m].home = home
  BY DEF Peopled
<1>2. m \in SeatIds /\ m \in Ids("member") /\ rows[m] # NoRow
  BY DEF Existing, Has, SeatIds
<1>3. rows'[m] # NoRow /\ rows'[m].home = home /\ Ids("member")' = Ids("member")
  BY <1>1, <1>2, SeatsKept DEF SeatTables
<1> QED BY <1>2, <1>3 DEF Peopled, Existing, Has

\* Who is an owner stays one, except the one whose seat changes.
LEMMA OwnersInOrder ==
  ASSUME MemberInv, NEW q \in Requests, SameIds, Steps(q), SeatStep(q)
  PROVE  OwnerRemains'
<1> DEFINE Crossed == \E r \in Requests : job[r].kind \in ManageKinds /\ ~alone[r]
           Lost(h) == \E r \in Requests : job[r].kind = "invitation_accept" /\ h \in job[r].resigned
           LostNow(h) == \E r \in Requests : job'[r].kind = "invitation_accept" /\ h \in job'[r].resigned
<1>1. Crossed => Crossed'
  <2> SUFFICES ASSUME NEW r \in Requests, job[r].kind \in ManageKinds, ~alone[r]
               PROVE  job'[r].kind \in ManageKinds /\ ~alone'[r]
    OBVIOUS
  <2>1. job[r].kind # "none"
    BY DEF ManageKinds
  <2> QED BY <2>1 DEF Steps, OthersStay
\* An acceptance is answered with its first step.
<1>2. \A h : Lost(h) => LostNow(h)
  <2> SUFFICES ASSUME NEW h, NEW r \in Requests, job[r].kind = "invitation_accept",
                      h \in job[r].resigned
               PROVE  LostNow(h)
    OBVIOUS
  <2>1. ~Busy(r)
    BY DEF MemberInv, MemberJobOK, OtherJobOK, Busy
  <2>2. r # q /\ job'[r] = job[r]
    BY <2>1 DEF Steps, OthersStay
  <2> QED BY <2>2
<1> SUFFICES ASSUME NEW table \in SeatTables, NEW id \in Existing(table)', NEW home,
                    home = rows'[id].home, ~Crossed', ~(table = "member" /\ LostNow(home))
             PROVE  \E o \in Existing(table)' : rows'[o].home = home /\ IsOwner(rows'[o])
  BY DEF OwnerRemains, SeatTables, Owners, IsOwner
<1>3. ~Crossed /\ ~(table = "member" /\ Lost(home))
  BY <1>1, <1>2
<1>4. /\ SeatIds' = SeatIds /\ \A tab \in SeatTables : Ids(tab)' = Ids(tab)
      /\ \A x \in SeatIds : rows[x] # NoRow =>
           /\ rows'[x] # NoRow /\ Seat(rows[x]) /\ Seat(rows'[x])
           /\ rows'[x].home = rows[x].home /\ rows'[x].user = rows[x].user
      /\ SeatChange(q) => /\ job[q].row \in SeatIds /\ rows[job[q].row] # NoRow
                          /\ SeatChangeOK(q)
  BY SeatsKept
<1>5. /\ Ids(table) \subseteq SeatIds /\ id \in Ids(table) /\ rows'[id] # NoRow
      /\ \A x \in Ids(table) : x[1] = table
      /\ Existing(table)' = {x \in Ids(table) : rows'[x] # NoRow}
      /\ Existing(table) = {x \in Ids(table) : rows[x] # NoRow}
  BY <1>4 DEF Existing, Ids, Has, SeatIds, SeatTables
<1>6. ASSUME NEW x \in Ids(table), rows[x] # NoRow, rows[x].home = home
      PROVE  \E o \in Ids(table) : rows[o] # NoRow /\ rows[o].home = home /\ IsOwner(rows[o])
  <2>1. Owners(table, home) # {}
    BY <1>3, <1>5, <1>6 DEF MemberInv, OwnerRemains, SeatTables
  <2> QED BY <1>5, <2>1 DEF Owners, IsOwner
<1> HIDE DEF Crossed, Lost
\* The home of a seat that was there before still has an owner.
<1>7. ASSUME NEW x \in Ids(table), rows[x] # NoRow, rows[x].home = home
      PROVE  \E o \in Ids(table) : rows'[o] # NoRow /\ rows'[o].home = home /\ IsOwner(rows'[o])
  <2>1. PICK o \in Ids(table) : rows[o] # NoRow /\ rows[o].home = home /\ IsOwner(rows[o])
    BY <1>6, <1>7
  <2>2. CASE rows'[o] = rows[o]
    BY <2>1, <2>2
  <2>3. CASE SeatChange(q) /\ o = job[q].row
    <3>1. /\ SeatChangeOK(q) /\ alone[q] /\ job[q].phase = "write"
      BY <1>3, <1>4, <2>3 DEF Crossed, SeatChange, RequestInv, MemberInv
    <3>2. CASE AnotherOwner(o)
      <4>1. PICK p \in Existing(table) :
              p # o /\ rows[p].home = rows[o].home /\ IsOwner(rows[p])
        BY <1>5, <3>2 DEF AnotherOwner, Owners, IsOwner
      <4>2. rows'[p] = rows[p]
        BY <1>5, <2>3, <4>1 DEF SeatChange
      <4> QED BY <1>5, <2>1, <4>1, <4>2
    <3>3. CASE IsOwner(rows[o]) => IsOwner(job[q].next)
      <4>1. /\ Seat(rows[o]) /\ Seat(job[q].next)
            /\ job[q].next.home = rows[o].home /\ job[q].next.user = rows[o].user
        BY <1>4, <2>3, <3>1 DEF SeatChangeOK
      <4>2. rows'[o] = Written(rows[o], job[q].next, job[q].dirty)
        BY <2>3 DEF SeatChange
      <4>3. /\ rows'[o].home = rows[o].home
            /\ rows'[o].role \in {rows[o].role, job[q].next.role}
            /\ rows'[o].status \in {rows[o].status, job[q].next.status}
        BY <4>1, <4>2, MixedSeat
      <4>4. IsOwner(rows'[o])
        BY <2>1, <3>3, <4>3 DEF IsOwner
      <4> QED BY <1>4, <1>5, <2>1, <4>3, <4>4
    <3> QED BY <2>3, <3>1, <3>2, <3>3 DEF SeatChangeOK
\* The only owner may take another role by an invitation, which is remembered.
  <2>4. CASE SeatTaken(q)
    <3>0. PICK seat \in Ids("member"), h \in Ids("workspace") : \E user, role :
            /\ rows'[seat] = Member(h, user, role)
            /\ rows[seat] # NoRow => rows[seat].home = h /\ rows[seat].user = user
            /\ Owners("member", h) = {seat} /\ role # "owner" => h \in job'[q].resigned
            /\ \A y \in SeatIds \ {seat} : rows'[y] = rows[y]
      BY <2>4 DEF SeatTaken
    <3>1. PICK user, role :
            /\ rows'[seat] = Member(h, user, role)
            /\ rows[seat] # NoRow => rows[seat].home = h /\ rows[seat].user = user
            /\ Owners("member", h) = {seat} /\ role # "owner" => h \in job'[q].resigned
            /\ \A y \in SeatIds \ {seat} : rows'[y] = rows[y]
      BY <3>0
    <3>2. CASE o # seat
      BY <1>5, <2>1, <3>1, <3>2
    <3>3. CASE o = seat
      <4>1. h = home /\ table = "member"
        BY <1>5, <2>1, <3>1, <3>3 DEF SeatTables, Ids
      <4>2. CASE role = "owner"
        <5>1. rows'[o].home = home /\ IsOwner(rows'[o])
          BY <3>1, <3>3, <4>1, <4>2, MemberIsSeat DEF IsOwner
        <5> QED BY <1>4, <1>5, <2>1, <5>1
      <4>3. CASE role # "owner"
        <5>1. Owners("member", home) # {o}
          BY <2>4, <3>1, <3>3, <4>1, <4>3 DEF SeatTaken
        <5>2. o \in Owners("member", home)
          BY <1>5, <2>1, <4>1 DEF Owners, IsOwner
        <5>3. PICK p \in Owners("member", home) : p # o
          BY <5>1, <5>2
        <5>4. /\ p \in Ids(table) /\ rows[p] # NoRow /\ rows[p].home = home /\ IsOwner(rows[p])
              /\ rows'[p] = rows[p]
          BY <1>5, <3>1, <3>3, <4>1, <5>3 DEF Owners, IsOwner
        <5> QED BY <5>4
      <4> QED BY <4>2, <4>3
    <3> QED BY <3>2, <3>3
  <2>5. \/ rows'[o] = rows[o]
        \/ SeatChange(q) /\ o = job[q].row
        \/ SeatTaken(q)
    <3>1. CASE SeatsStay
      BY <1>5, <3>1 DEF SeatsStay
    <3>2. CASE SeatChange(q)
      BY <1>5, <3>2 DEF SeatChange
    <3>3. CASE SeatFounded
      BY <1>5, <2>1, <3>3 DEF SeatFounded
    <3> QED BY <3>1, <3>2, <3>3 DEF SeatStep
  <2> QED BY <2>2, <2>3, <2>4, <2>5
\* A new one is an owner itself or joins people.
<1>8. CASE rows[id] = NoRow
  <2>1. ~SeatsStay /\ ~SeatChange(q)
    BY <1>4, <1>5, <1>8 DEF SeatsStay, SeatChange
  <2>2. CASE SeatTaken(q)
    <3>1. PICK seat \in Ids("member"), h \in Ids("workspace") : \E user, role :
            /\ Peopled(h) /\ rows'[seat] = Member(h, user, role)
            /\ \A y \in SeatIds \ {seat} : rows'[y] = rows[y]
      BY <2>2 DEF SeatTaken
    <3>2. id = seat
      BY <1>5, <1>8, <3>1
    <3>3. h = home /\ table = "member"
      BY <1>5, <3>1, <3>2, MemberIsSeat DEF SeatTables, Ids
    <3>4. PICK m \in Existing("member") : rows[m].home = home
      BY <3>1, <3>3 DEF Peopled
    <3> QED BY <1>5, <1>7, <3>3, <3>4
  <2>3. CASE SeatFounded
    <3>1. IsOwner(rows'[id])
      BY <1>5, <1>8, <2>3, MemberIsSeat DEF SeatFounded, IsOwner
    <3> QED BY <1>5, <3>1
  <2> QED BY <2>1, <2>2, <2>3 DEF SeatStep
<1>9. CASE rows[id] # NoRow
  <2>1. rows[id].home = home
    BY <1>4, <1>5, <1>9
  <2> QED BY <1>5, <1>7, <1>9, <2>1
<1> QED BY <1>8, <1>9

\* The other requests find the rows they work on.
LEMMA OtherMemberJobs ==
  ASSUME MemberInv, NEW q \in Requests, SameIds, Steps(q), SeatStep(q), InvitationsKept,
         NEW x \in Requests \ {q}
  PROVE  MemberJobOK(x)'
<1>1. job'[x] = job[x] /\ MemberJobOK(x) /\ (Busy(x) => ~alone'[x])
  BY OthersAreCrossed DEF MemberInv
<1>2. /\ SeatIds' = SeatIds /\ \A table \in SeatTables : Ids(table)' = Ids(table)
      /\ \A id \in SeatIds : rows[id] # NoRow =>
           /\ rows'[id] # NoRow
           /\ rows'[id].home = rows[id].home /\ rows'[id].user = rows[id].user
  BY SeatsKept
<1>3. Ids("workspace")' = Ids("workspace") /\ Ids("invitation")' = Ids("invitation")
  BY DEF SameIds, Ids
<1>4. /\ \A table \in SeatTables : Existing(table) \subseteq Existing(table)'
      /\ Existing("invitation") \subseteq Existing("invitation")'
  BY <1>2, <1>3 DEF SeatIds, SeatTables, InvitationsKept, Existing, Has
<1>5. ManageJobOK(x)'
  <2> SUFFICES ASSUME job[x].kind \in ManageKinds PROVE ManageJobOK(x)'
    BY <1>1 DEF ManageJobOK
  <2>1. ManageJobOK(x)
    BY <1>1 DEF MemberJobOK
  <2>2. CASE job[x].phase \notin {"target", "owners", "diff", "write"}
    BY <1>1, <2>1, <2>2 DEF ManageJobOK
  <2>3. CASE job[x].phase \in {"target", "owners", "diff", "write"}
    <3>1. ~alone'[x]
      BY <1>1, <2>3 DEF Busy, Outcomes
    <3>2. job[x].row \in Existing(SeatTable(job[x].kind))
      BY <2>1, <2>3 DEF ManageJobOK
    <3>3. SeatTable(job[x].kind) \in SeatTables
      BY DEF SeatTable, SeatTables
    <3>4. job[x].row \in Existing(SeatTable(job[x].kind))'
      BY <1>1, <1>4, <3>2, <3>3 DEF SeatTable
    <3>5. job[x].row \in SeatIds /\ rows[job[x].row] # NoRow
      BY <3>2, <3>3 DEF Existing, Has, SeatIds, SeatTables
    <3>6. SeatChangeOK(x) => SeatChangeOK(x)'
      BY <1>1, <1>2, <3>1, <3>5 DEF SeatChangeOK
    <3> QED BY <1>1, <2>1, <2>3, <3>4, <3>6 DEF ManageJobOK
  <2> QED BY <2>2, <2>3
<1>6. OtherJobOK(x)'
  <2>1. \A r : OfWorkspace(r) => OfWorkspace(r)'
    BY <1>3, PeopledStay DEF OfWorkspace
  <2> QED BY <1>1, <1>3, <1>4, <2>1 DEF MemberJobOK, OtherJobOK
<1> QED BY <1>1, <1>5, <1>6 DEF MemberJobOK, Busy

\* Only a request that disconnects the member, or one that writes back the status it has
\* read before somebody else's change, ends a membership.
LEMMA MembersKept ==
  ASSUME MemberInv, NEW q \in Requests, SameIds, SeatStep(q), NEW user, NEW home,
         IsMember(user, home)
  PROVE  \/ IsMember(user, home)'
         \/ /\ SeatChange(q) /\ job[q].kind \in DisconnectKinds /\ job[q].next.user = user
         \/ job[q].kind = "member_role" /\ ~alone[q]
<1>1. PICK m \in Existing("member") :
        rows[m].home = home /\ rows[m].user = user /\ rows[m].status = "active"
  BY DEF IsMember
<1>2. /\ SeatIds' = SeatIds /\ Ids("member")' = Ids("member")
      /\ \A id \in SeatIds : rows[id] # NoRow =>
           /\ rows'[id] # NoRow /\ Seat(rows[id]) /\ Seat(rows'[id])
           /\ rows'[id].home = rows[id].home /\ rows'[id].user = rows[id].user
      /\ SeatChange(q) => SeatChangeOK(q)
  BY SeatsKept DEF SeatTables
<1>3. m \in SeatIds /\ m \in Ids("member") /\ rows[m] # NoRow
  BY DEF Existing, Has, SeatIds
<1>4. /\ m \in Existing("member")' /\ rows'[m].home = home /\ rows'[m].user = user
  BY <1>1, <1>2, <1>3 DEF Existing, Has
<1>5. rows'[m].status = "active" => IsMember(user, home)'
  BY <1>4 DEF IsMember
<1>6. CASE SeatsStay
  BY <1>1, <1>3, <1>5, <1>6 DEF SeatsStay
<1>7. CASE SeatTaken(q) \/ SeatFounded
  <2>1. rows'[m] = rows[m] \/ rows'[m].status = "active"
    BY <1>3, <1>7, MemberIsSeat DEF SeatTaken, SeatFounded
  <2> QED BY <1>1, <1>5, <2>1
<1>8. CASE SeatChange(q)
  <2>1. CASE m # job[q].row
    BY <1>1, <1>3, <1>5, <1>8, <2>1 DEF SeatChange
  <2>2. CASE m = job[q].row
    <3>1. /\ Seat(rows[m]) /\ Seat(job[q].next) /\ job[q].next.home = rows[m].home
          /\ job[q].next.user = rows[m].user /\ SeatChangeOK(q)
      BY <1>2, <1>3, <1>8, <2>2 DEF SeatChangeOK
    <3>2. rows'[m] = Written(rows[m], job[q].next, job[q].dirty)
      BY <1>8, <2>2 DEF SeatChange
    <3>3. rows'[m].status \in {rows[m].status, job[q].next.status}
      BY <3>1, <3>2, MixedSeat
    <3>4. job[q].kind \in DisconnectKinds \cup {"member_role", "member_restore"}
      <4>1. job[q].kind \in ManageKinds /\ job[q].phase = "write"
        BY <1>8 DEF SeatChange
      <4>2. job[q].row \in Existing(SeatTable(job[q].kind))
        BY <4>1 DEF MemberInv, MemberJobOK, ManageJobOK
      <4>3. SeatTable(job[q].kind) # "orgmember"
        BY <1>3, <2>2, <4>2 DEF Existing, Ids
      <4> QED BY <4>1, <4>3 DEF ManageKinds, DisconnectKinds, SeatTable
    <3>5. CASE job[q].kind \in DisconnectKinds
      BY <1>1, <1>8, <3>1, <3>5
    <3>6. CASE job[q].kind = "member_restore"
      BY <1>1, <1>5, <3>1, <3>3, <3>6 DEF SeatChangeOK
    <3>7. CASE job[q].kind = "member_role"
      BY <1>1, <1>5, <2>2, <3>1, <3>3, <3>7 DEF SeatChangeOK, MemberInv, RequestInv
    <3> QED BY <3>4, <3>5, <3>6, <3>7
  <2> QED BY <2>1, <2>2
<1> QED BY <1>6, <1>7, <1>8 DEF SeatStep

LEMMA MemberStep ==
  ASSUME MemberInv, NEW q \in Requests, RequestInv', Steps(q), SameIds, SeatStep(q),
         InvitationsKept, MemberJobOK(q)'
  PROVE  MemberInv'
<1>1. \A x \in Requests : MemberJobOK(x)'
  BY OtherMemberJobs
<1>2. OwnerRemains'
  BY OwnersInOrder
<1>3. SeatsInv'
  <2>1. /\ SeatIds' = SeatIds
        /\ \A id \in SeatIds : rows[id] # NoRow =>
             Seat(rows'[id]) /\ rows'[id].home = rows[id].home
        /\ \A id \in SeatIds : rows[id] = NoRow /\ rows'[id] # NoRow =>
             /\ Seat(rows'[id]) /\ rows'[id].home \in Ids("workspace")
    BY SeatsKept
  <2>2. \A table : Ids(table)' = Ids(table)
    BY DEF SameIds, Ids
  <2>3. \A table \in SeatTables : \A id \in Existing(table)' : Seat(rows'[id])
    BY <2>1, <2>2 DEF Existing, Has, SeatIds, SeatTables
  <2>4. \A id \in Existing("member")' : OfWorkspace(rows[id])'
    <3> SUFFICES ASSUME NEW id \in Existing("member")' PROVE OfWorkspace(rows[id])'
      OBVIOUS
    <3>1. id \in Ids("member") /\ id \in SeatIds /\ rows'[id] # NoRow
      BY <2>2 DEF Existing, Has, SeatIds
    <3>4. Peopled(rows[id].home)'
      BY <3>1 DEF Peopled
    <3>2. Seat(rows'[id]) /\ rows'[id].home \in Ids("workspace")
      <4>1. rows[id] # NoRow => rows[id].home \in Ids("workspace")
        BY <3>1 DEF MemberInv, SeatsInv, OfWorkspace, Existing, Has
      <4> QED BY <2>1, <3>1, <4>1
    <3>3. "home" \in DOMAIN rows'[id]
      BY <3>2 DEF Seat, SeatColumns
    <3> QED BY <2>2, <3>2, <3>3, <3>4 DEF OfWorkspace
  <2>5. \A id \in Existing("invitation")' : OfWorkspace(rows[id])'
    BY <2>2, PeopledStay DEF InvitationsKept, OfWorkspace, Existing, Has
  <2>6. /\ rows' = [id \in DOMAIN rows' |-> rows'[id]]
        /\ \A id \in DOMAIN rows' : id[2] \in Nat \ {0}
    BY DEF SameIds, MemberInv, SeatsInv
  <2> QED BY <2>3, <2>4, <2>5, <2>6 DEF SeatsInv
<1> QED BY <1>1, <1>2, <1>3 DEF MemberInv

-------------------------------------------------------------------------------
(* One step of a request about members. *)

\* A request that disconnects somebody does so after its change, or fails.
Kicks(q) ==
  job[q].kind \in DisconnectKinds =>
    /\ job[q].phase \in {"disconnect", "kick", "failed"} =>
         job'[q].kind = job[q].kind /\ job'[q].phase = "failed"
    /\ SeatChange(q) =>
         /\ job'[q].kind = job[q].kind
         /\ \/ job'[q].phase = "failed"
            \/ job'[q].phase = "disconnect" /\ job'[q].next = job[q].next

MemberEffect(q) ==
  /\ RequestInv' /\ Steps(q) /\ SameIds /\ SeatStep(q) /\ InvitationsKept
  /\ MemberJobOK(q)' /\ Kicks(q)

LEMMA QuietKicks ==
  ASSUME NEW q \in Requests, job[q].phase \notin {"write", "disconnect", "kick", "failed"}
  PROVE  Kicks(q)
BY DEF Kicks, SeatChange

LEMMA NoSeatChanges ==
  ASSUME SeatsInv, UNCHANGED rows, NEW q \in Requests
  PROVE  SameIds /\ SeatStep(q) /\ InvitationsKept
<1>1. InvitationsKept
  BY DEF SeatsInv, InvitationsKept, Existing, Has
<1> QED BY <1>1 DEF SeatsInv, SameIds, SeatStep, SeatsStay

LEMMA EndedMemberJob ==
  ASSUME NEW q \in Requests, job'[q].phase \in Outcomes
  PROVE  MemberJobOK(q)'
<1>1. ManageJobOK(q)'
  BY DEF ManageJobOK, Outcomes
<1>2. OtherJobOK(q)'
  BY DEF OtherJobOK, Outcomes
<1> QED BY <1>1, <1>2 DEF MemberJobOK, Busy

LEMMA BegunMeans ==
  ASSUME MemberInv, NEW q \in Requests, NEW j, Begins(q, j), JobFields \subseteq DOMAIN j
  PROVE  RequestInv' /\ Steps(q) /\ job'[q] = j /\ Kicks(q)
<1>1. RequestInv' /\ Steps(q) /\ job'[q] = j
  BY BeginsMeans DEF MemberInv
<1>2. job[q].phase = "idle"
  BY DEF Begins, NoJob
<1> QED BY <1>1, <1>2, QuietKicks

LEMMA AnswerEffect ==
  ASSUME MemberInv, NEW q \in Requests, NEW kind, NEW outcome \in Outcomes,
         Begins(q, Answered(kind, outcome)), SameIds, SeatStep(q), InvitationsKept
  PROVE  MemberEffect(q)
<1>1. RequestInv' /\ Steps(q) /\ job'[q] = Answered(kind, outcome) /\ Kicks(q)
  BY BegunMeans, AnsweredFields
<1>2. job'[q].phase \in Outcomes
  BY <1>1 DEF Answered, NoJob
<1> QED BY <1>1, <1>2, EndedMemberJob DEF MemberEffect

LEMMA RefusalEffect ==
  ASSUME MemberInv, NEW q \in Requests, NEW kind, Begins(q, Answered(kind, "refused")),
         UNCHANGED rows
  PROVE  MemberEffect(q)
BY AnswerEffect, NoSeatChanges DEF MemberInv, Outcomes

LEMMA EndEffect ==
  ASSUME MemberInv, NEW q \in Requests, UNCHANGED rows,
         \/ /\ Busy(q) /\ job[q].phase \in {"target", "owners", "pending"}
            /\ Ends(q, "refused")
         \/ Fails(q)
  PROVE  MemberEffect(q)
<1>1. Busy(q)
  BY DEF Fails
<1>2. Proceeds(q) /\ job'[q].kind = job[q].kind /\ job'[q].phase \in Outcomes
  BY <1>1, EndsMeans DEF MemberInv, Outcomes
<1>3. RequestInv' /\ Steps(q)
  BY <1>2, ProceedsMeans DEF MemberInv
<1>4. Kicks(q)
  <2>1. CASE Ends(q, "refused") /\ job[q].phase \in {"target", "owners", "pending"}
    BY <2>1, QuietKicks
  <2>2. CASE Fails(q)
    <3>1. job'[q].phase = "failed"
      BY <2>2 DEF Fails, MemberInv, RequestInv, Answered, NoJob
    <3> QED BY <1>2, <3>1 DEF Kicks
  <2> QED BY <2>1, <2>2
<1>5. SameIds /\ SeatStep(q) /\ InvitationsKept
  BY NoSeatChanges DEF MemberInv
<1>6. MemberJobOK(q)'
  BY <1>2, EndedMemberJob
<1> QED BY <1>3, <1>4, <1>5, <1>6 DEF MemberEffect

\* A request that goes on with its copy.
LEMMA GoSeatMeans ==
  ASSUME MemberInv, NEW q \in Requests, Busy(q), NEW phase, Goes(q, phase)
  PROVE  /\ RequestInv' /\ Steps(q) /\ job'[q].phase = phase /\ UNCHANGED alone
         /\ job'[q].kind = job[q].kind /\ job'[q].row = job[q].row
         /\ job'[q].next = job[q].next /\ job'[q].then = job[q].then
         /\ job'[q].dirty = job[q].dirty
         /\ MemberFields \subseteq DOMAIN job'[q]
<1>1. /\ Proceeds(q) /\ job'[q] = [job[q] EXCEPT !.phase = phase]
      /\ job'[q].phase = phase
  BY GoesMeans DEF MemberInv
<1>2. MemberFields \subseteq DOMAIN job[q]
  BY DEF MemberInv, MemberJobOK
<1>3. /\ job'[q].kind = job[q].kind /\ job'[q].row = job[q].row
      /\ job'[q].next = job[q].next /\ job'[q].then = job[q].then
      /\ job'[q].dirty = job[q].dirty
      /\ DOMAIN job'[q] = DOMAIN job[q]
  BY <1>1, <1>2 DEF MemberFields, JobFields
<1>4. RequestInv' /\ Steps(q)
  BY <1>1, <1>3, ProceedsMeans DEF MemberInv
<1> QED BY <1>1, <1>2, <1>3, <1>4 DEF Goes

\* The copy of a seat or the rows it is compared with are as they were.
LEMMA SeatsUnchanged ==
  ASSUME UNCHANGED rows, NEW id
  PROVE  /\ \A table : Existing(table)' = Existing(table) /\ Ids(table)' = Ids(table)
         /\ AnotherOwner(id)' <=> AnotherOwner(id)
BY DEF Existing, Ids, Has, AnotherOwner, Owners

(* Managing members. *)

LEMMA ManageEffect ==
  ASSUME MemberInv, NEW q \in Requests, NEW kind \in ManageKinds, NEW change,
         ChangeOf(kind, change), ManageMember(q, SeatTable(kind), kind, change)
  PROVE  MemberEffect(q)
<1>1. PICK caller, id \in Existing(SeatTable(kind)) :
        Begins(q, IF MayManage(caller)
                  THEN [Request(kind, "target", id, change) EXCEPT !.then = rows[caller].role]
                  ELSE Answered(kind, "refused"))
  BY DEF ManageMember
<1>2. UNCHANGED rows
  BY DEF ManageMember
<1> DEFINE j == [Request(kind, "target", id, change) EXCEPT !.then = rows[caller].role]
<1>3. CASE Begins(q, Answered(kind, "refused"))
  BY <1>2, <1>3, RefusalEffect
<1>4. CASE Begins(q, j)
  <2>1. /\ MemberFields \subseteq DOMAIN j /\ j.kind = kind /\ j.phase = "target"
        /\ j.row = id /\ j.next = change
    BY DEF Request, MemberFields, JobFields
  <2> HIDE DEF j
  <2>2. RequestInv' /\ Steps(q) /\ job'[q] = j /\ Kicks(q)
    BY <1>4, <2>1, BegunMeans DEF MemberFields
  <2>3. ManageJobOK(q)'
    BY <1>1, <1>2, <2>1, <2>2, SeatsUnchanged DEF ManageJobOK
  <2>4. OtherJobOK(q)'
    BY <2>1, <2>2 DEF OtherJobOK, ManageKinds, WorkspaceKinds
  <2>5. MemberJobOK(q)'
    BY <2>1, <2>2, <2>3, <2>4 DEF MemberJobOK, MemberKinds
  <2> QED BY <1>2, <2>2, <2>5, NoSeatChanges DEF MemberEffect, MemberInv
<1> QED BY <1>1, <1>3, <1>4

LEMMA ManageEffects ==
  ASSUME MemberInv, NEW q \in Requests,
         ChangeRole(q) \/ SetStatus(q) \/ UpdateOrgMember(q) \/ RemoveOrgMember(q)
  PROVE  MemberEffect(q)
<1>1. CASE ChangeRole(q)
  <2>1. PICK r \in WorkspaceRoles : ManageMember(q, "member", "member_role", [role |-> r])
    BY <1>1 DEF ChangeRole
  <2>2. "member_role" \in ManageKinds /\ SeatTable("member_role") = "member"
    BY DEF ManageKinds, SeatTable
  <2>3. ChangeOf("member_role", [role |-> r])
    BY DEF ChangeOf
  <2> QED BY <2>1, <2>2, <2>3, ManageEffect
<1>2. CASE UpdateOrgMember(q)
  <2>1. PICK r \in OrgRoles : ManageMember(q, "orgmember", "orgmember_role", [role |-> r])
    BY <1>2 DEF UpdateOrgMember
  <2>2. "orgmember_role" \in ManageKinds /\ SeatTable("orgmember_role") = "orgmember"
    BY DEF ManageKinds, SeatTable
  <2>3. ChangeOf("orgmember_role", [role |-> r])
    BY DEF ChangeOf
  <2> QED BY <2>1, <2>2, <2>3, ManageEffect
<1>3. CASE RemoveOrgMember(q)
  <2>1. ManageMember(q, "orgmember", "orgmember_remove", [status |-> "removed"])
    BY <1>3 DEF RemoveOrgMember
  <2>2. "orgmember_remove" \in ManageKinds /\ SeatTable("orgmember_remove") = "orgmember"
    BY DEF ManageKinds, SeatTable
  <2>3. ChangeOf("orgmember_remove", [status |-> "removed"])
    BY DEF ChangeOf
  <2> QED BY <2>1, <2>2, <2>3, ManageEffect
<1>4. CASE SetStatus(q)
  <2>1. {"member_suspend", "member_restore", "member_remove"} \subseteq ManageKinds
    BY DEF ManageKinds
  <2>2. /\ SeatTable("member_suspend") = "member" /\ SeatTable("member_restore") = "member"
        /\ SeatTable("member_remove") = "member"
    BY DEF SeatTable
  <2>3. /\ ChangeOf("member_suspend", [status |-> "suspended"])
        /\ ChangeOf("member_restore", [status |-> "active"])
        /\ ChangeOf("member_remove", [status |-> "removed"])
    BY DEF ChangeOf
  <2>4. CASE ManageMember(q, "member", "member_suspend", [status |-> "suspended"])
    BY <2>1, <2>2, <2>3, <2>4, ManageEffect
  <2>5. CASE ManageMember(q, "member", "member_restore", [status |-> "active"])
    BY <2>1, <2>2, <2>3, <2>5, ManageEffect
  <2>6. CASE ManageMember(q, "member", "member_remove", [status |-> "removed"])
    BY <2>1, <2>2, <2>3, <2>6, ManageEffect
  <2> QED BY <1>4, <2>4, <2>5, <2>6 DEF SetStatus
<1> QED BY <1>1, <1>2, <1>3, <1>4

\* The copy has one column from the change and the others from the seat.
LEMMA CopyOfSeat ==
  ASSUME NEW stored, Seat(stored), NEW kind \in ManageKinds, NEW change, ChangeOf(kind, change)
  PROVE  LET next == [c \in DOMAIN stored |-> IF c \in DOMAIN change THEN change[c] ELSE stored[c]]
         IN /\ Seat(next) /\ next.home = stored.home /\ next.user = stored.user
            /\ kind = "member_restore" => next.status = "active"
            /\ kind = "member_role" => next.status = stored.status
            /\ IsOwner(stored) /\ ~Dethrones(change) => IsOwner(next)
<1> DEFINE next == [c \in DOMAIN stored |-> IF c \in DOMAIN change THEN change[c] ELSE stored[c]]
<1>1. DOMAIN stored = SeatColumns /\ SeatColumns = {"home", "user", "role", "status"}
  BY DEF Seat, SeatColumns
<1>2. \/ kind \in {"member_role", "orgmember_role"} /\ DOMAIN change = {"role"}
      \/ kind = "member_restore" /\ DOMAIN change = {"status"} /\ change.status = "active"
      \/ /\ kind \notin {"member_role", "orgmember_role", "member_restore"}
         /\ DOMAIN change = {"status"}
  <2>1. CASE kind \in {"member_role", "orgmember_role"}
    <3>1. change = [role |-> change.role]
      BY <2>1 DEF ChangeOf
    <3>2. DOMAIN [role |-> change.role] = {"role"}
      OBVIOUS
    <3> QED BY <2>1, <3>1, <3>2
  <2>2. CASE kind \notin {"member_role", "orgmember_role"}
    <3>1. change = [status |-> "active"] \/ change = [status |-> "suspended"]
          \/ change = [status |-> "removed"]
      BY <2>2 DEF ChangeOf, ManageKinds
    <3>2. kind = "member_restore" => change = [status |-> "active"]
      BY DEF ChangeOf
    <3> QED BY <2>2, <3>1, <3>2
  <2> QED BY <2>1, <2>2
<1>3. /\ DOMAIN next = SeatColumns /\ next = [c \in SeatColumns |-> next[c]]
      /\ \A c \in SeatColumns : next[c] = IF c \in DOMAIN change THEN change[c] ELSE stored[c]
  BY <1>1
<1> HIDE DEF next
<1>4. /\ next.home = stored.home /\ next.user = stored.user
      /\ kind = "member_restore" => next.status = "active"
      /\ kind = "member_role" => next.status = stored.status
      /\ "role" \in DOMAIN change => next.role = change.role
      /\ "role" \notin DOMAIN change => next.role = stored.role
      /\ "status" \in DOMAIN change => next.status = change.status
      /\ "status" \notin DOMAIN change => next.status = stored.status
  BY <1>1, <1>2, <1>3
<1>5. IsOwner(stored) /\ ~Dethrones(change) => IsOwner(next)
  BY <1>4 DEF IsOwner, Dethrones
<1>6. Seat(next)
  BY <1>3 DEF Seat
<1> QED BY <1>4, <1>5, <1>6 DEF next

LEMMA ReadTargetEffect ==
  ASSUME MemberInv, NEW q \in Requests, ReadTarget(q)
  PROVE  MemberEffect(q)
<1> DEFINE kind == job[q].kind
           stored == rows[job[q].row]
           change == job[q].next
           next == [c \in DOMAIN stored |-> IF c \in DOMAIN change THEN change[c] ELSE stored[c]]
           phase == IF stored.role = "owner" /\ Dethrones(change) THEN "owners" ELSE "diff"
           j == [job[q] EXCEPT !.phase = phase, !.next = next, !.then = AfterSave(kind)]
<1>1. /\ kind \in ManageKinds /\ job[q].phase = "target" /\ UNCHANGED rows
      /\ Busy(q) /\ MemberFields \subseteq DOMAIN job[q]
  BY DEF ReadTarget, At, MemberInv, MemberJobOK, Busy, Outcomes
<1>2. job[q].row \in Existing(SeatTable(kind)) /\ ChangeOf(kind, change)
  BY <1>1 DEF MemberInv, MemberJobOK, ManageJobOK
<1>3. Seat(stored)
  BY <1>2 DEF MemberInv, SeatsInv, SeatTable, SeatTables
<1>4. /\ Seat(next) /\ next.home = stored.home /\ next.user = stored.user
      /\ kind = "member_restore" => next.status = "active"
      /\ kind = "member_role" => next.status = stored.status
      /\ IsOwner(stored) /\ ~Dethrones(change) => IsOwner(next)
  <2> HIDE DEF kind, stored, change
  <2> QED BY <1>1, <1>2, <1>3, CopyOfSeat
<1>5. CASE Ends(q, "refused")
  BY <1>1, <1>5, EndEffect
<1>6. CASE /\ job' = [job EXCEPT ![q].phase = phase, ![q].next = next, ![q].then = AfterSave(kind)]
           /\ UNCHANGED alone
  <2>1. phase \in {"owners", "diff"} /\ (phase = "diff" => ~(stored.role = "owner" /\ Dethrones(change)))
    OBVIOUS
  <2> HIDE DEF phase, next
  <2>2. /\ MemberFields \subseteq DOMAIN j /\ j.kind = kind /\ j.phase = phase /\ j.next = next
        /\ j.row = job[q].row /\ j.then = AfterSave(kind)
    BY <1>1 DEF MemberFields, JobFields
  <2>3. job' = [job EXCEPT ![q] = j]
    BY <1>1, <1>6 DEF MemberInv, RequestInv
  <2>4. RequestInv' /\ job'[q] = j /\ Steps(q)
    <3> HIDE DEF j
    <3> QED BY <1>1, <1>6, <2>2, <2>3, JobBecomes DEF MemberInv, MemberFields
  <2> HIDE DEF j
  <2>5. /\ job'[q].kind = job[q].kind /\ job'[q].phase = phase /\ job'[q].next = next
        /\ job'[q].row = job[q].row /\ job'[q].then = AfterSave(job[q].kind)
        /\ rows'[job'[q].row] = stored
    BY <1>1, <2>2, <2>4
  <2>6. SeatChangeOK(q)'
    <3>1. phase \in {"diff", "write"} => (IsOwner(stored) => IsOwner(next))
      BY <1>4, <2>1 DEF IsOwner
    <3> QED BY <1>4, <2>5, <3>1 DEF SeatChangeOK
  <2>7. (job[q].row \in Existing(SeatTable(job[q].kind)))'
    BY <1>1, <1>2, <2>5, SeatsUnchanged
  <2>8. ManageJobOK(q)'
    BY <2>1, <2>5, <2>6, <2>7 DEF ManageJobOK
  <2>9. OtherJobOK(q)'
    BY <1>1, <2>5 DEF OtherJobOK, ManageKinds, WorkspaceKinds
  <2>10. MemberJobOK(q)'
    BY <1>1, <2>2, <2>4, <2>5, <2>8, <2>9 DEF MemberJobOK, MemberKinds
  <2>11. Kicks(q)
    BY <1>1, QuietKicks
  <2> QED BY <1>1, <2>4, <2>10, <2>11, NoSeatChanges DEF MemberEffect, MemberInv
<1>7. Ends(q, "refused")
      \/ /\ job' = [job EXCEPT ![q].phase = phase, ![q].next = next, ![q].then = AfterSave(kind)]
         /\ UNCHANGED alone
  BY DEF ReadTarget
<1> QED BY <1>5, <1>6, <1>7

\* assertAnotherOwner()
LEMMA CountOwnersEffect ==
  ASSUME MemberInv, NEW q \in Requests, CountOwners(q)
  PROVE  MemberEffect(q)
<1>1. /\ job[q].kind \in ManageKinds /\ job[q].phase = "owners" /\ UNCHANGED rows
      /\ Busy(q)
  BY DEF CountOwners, At, Busy, Outcomes
<1>2. job[q].row \in Existing(SeatTable(job[q].kind)) /\ SeatChangeOK(q)
  BY <1>1 DEF MemberInv, MemberJobOK, ManageJobOK
<1>3. CASE Ends(q, "refused")
  BY <1>1, <1>3, EndEffect
<1>4. CASE Goes(q, "diff") /\ AnotherOwner(job[q].row)
  <2>1. /\ RequestInv' /\ Steps(q) /\ job'[q].phase = "diff" /\ UNCHANGED alone
        /\ job'[q].kind = job[q].kind /\ job'[q].row = job[q].row
        /\ job'[q].next = job[q].next /\ job'[q].then = job[q].then
        /\ MemberFields \subseteq DOMAIN job'[q]
    BY <1>1, <1>4, GoSeatMeans
  <2>2. AnotherOwner(job[q].row)'
    BY <1>1, <1>4, <2>1 DEF Existing, Ids, Has, AnotherOwner, Owners
  <2>3. SeatChangeOK(q)'
    BY <1>1, <1>2, <2>1, <2>2 DEF SeatChangeOK
  <2>4. (job[q].row \in Existing(SeatTable(job[q].kind)))'
    BY <1>1, <1>2, <2>1, SeatsUnchanged
  <2>5. ManageJobOK(q)'
    BY <2>1, <2>3, <2>4 DEF ManageJobOK
  <2>6. OtherJobOK(q)'
    BY <1>1, <2>1 DEF OtherJobOK, ManageKinds, WorkspaceKinds
  <2>7. MemberJobOK(q)'
    BY <1>1, <2>1, <2>5, <2>6 DEF MemberJobOK, MemberKinds
  <2>8. Kicks(q)
    BY <1>1, QuietKicks
  <2> QED BY <1>1, <2>1, <2>7, <2>8, NoSeatChanges DEF MemberEffect, MemberInv
<1> QED BY <1>3, <1>4 DEF CountOwners, AnotherOwner

(* Invitations and workspaces. *)

\* A row of a workspace or an invitation is written.
LEMMA OtherRowWritten ==
  ASSUME MemberInv, NEW q \in Requests, NEW id, NEW r, rows' = [rows EXCEPT ![id] = r],
         id \in Ids("workspace") \/ (id \in Ids("invitation") /\ OfWorkspace(r))
  PROVE  SameIds /\ SeatStep(q) /\ InvitationsKept
<1>1. rows = [x \in DOMAIN rows |-> rows[x]] /\ id \in DOMAIN rows
      /\ id[1] \in {"workspace", "invitation"}
  BY DEF MemberInv, SeatsInv, Ids
<1>2. SameIds /\ \A x \in DOMAIN rows \ {id} : rows'[x] = rows[x]
  BY <1>1 DEF SameIds
<1>3. SeatsStay
  BY <1>1, <1>2 DEF SeatsStay, SeatIds, Ids
<1>4. rows'[id] = r
  BY <1>1
<1>5. InvitationsKept
  <2> SUFFICES ASSUME NEW x \in Ids("invitation")
               PROVE  /\ rows[x] # NoRow => rows'[x] # NoRow
                      /\ rows'[x] # NoRow => OfWorkspace(rows'[x])
    BY DEF InvitationsKept
  <2>1. CASE x = id
    <3>1. OfWorkspace(r)
      BY <2>1 DEF Ids
    <3> QED BY <1>4, <2>1, <3>1, SeatsAreRows
  <2>2. CASE x # id
    <3>1. rows'[x] = rows[x]
      BY <1>2, <2>2 DEF Ids
    <3> QED BY <3>1 DEF MemberInv, SeatsInv, Existing, Has
  <2> QED BY <2>1, <2>2
<1> QED BY <1>2, <1>3, <1>5 DEF SeatStep

LEMMA CreateInvitationEffect ==
  ASSUME MemberInv, NEW q \in Requests, CreateInvitation(q)
  PROVE  MemberEffect(q)
<1>1. PICK caller \in Existing("member"), u \in Users, r \in WorkspaceRoles :
        Begins(q, IF MayManage(caller) /\ (r = "owner" => rows[caller].role = "owner")
                  THEN Request("invitation_create", "pending", caller,
                               Invitation(rows[caller].home, u, r))
                  ELSE Answered("invitation_create", "refused"))
  BY DEF CreateInvitation
<1>2. UNCHANGED rows
  BY DEF CreateInvitation
<1> DEFINE next == Invitation(rows[caller].home, u, r)
           j == Request("invitation_create", "pending", caller, next)
<1>3. CASE Begins(q, Answered("invitation_create", "refused"))
  BY <1>2, <1>3, RefusalEffect
<1>4. CASE Begins(q, j)
  <2>1. OfWorkspace(rows[caller])
    BY <1>1 DEF MemberInv, SeatsInv
  <2>2. "home" \in DOMAIN next /\ next.home = rows[caller].home
    BY DEF Invitation
  <2>3. OfWorkspace(next)
    BY <2>1, <2>2 DEF OfWorkspace
  <2> HIDE DEF next
  <2>4. /\ MemberFields \subseteq DOMAIN j /\ j.kind = "invitation_create" /\ j.phase = "pending"
        /\ j.next = next /\ j.then = "ok"
    BY DEF Request, MemberFields, JobFields
  <2> HIDE DEF j
  <2>5. RequestInv' /\ Steps(q) /\ job'[q] = j /\ Kicks(q)
    BY <1>4, <2>4, BegunMeans DEF MemberFields
  <2>6. ManageJobOK(q)'
    BY <2>4, <2>5 DEF ManageJobOK, ManageKinds
  <2>7. OtherJobOK(q)'
    BY <1>2, <2>3, <2>4, <2>5 DEF OtherJobOK, OfWorkspace, Peopled, Existing, Has, Ids, WorkspaceKinds
  <2>8. MemberJobOK(q)'
    BY <2>4, <2>5, <2>6, <2>7 DEF MemberJobOK, MemberKinds, InviteKinds
  <2> QED BY <1>2, <2>5, <2>8, NoSeatChanges DEF MemberEffect, MemberInv
<1> QED BY <1>1, <1>3, <1>4

LEMMA LookForPendingEffect ==
  ASSUME MemberInv, NEW q \in Requests, LookForPending(q)
  PROVE  MemberEffect(q)
<1>1. /\ job[q].kind = "invitation_create" /\ job[q].phase = "pending" /\ UNCHANGED rows
      /\ Busy(q)
  BY DEF LookForPending, At, Busy, Outcomes
<1>2. CASE Ends(q, "refused")
  BY <1>1, <1>2, EndEffect
<1>3. CASE Goes(q, "insert")
  <2>1. /\ RequestInv' /\ Steps(q) /\ job'[q].phase = "insert"
        /\ job'[q].kind = job[q].kind /\ job'[q].next = job[q].next
        /\ job'[q].then = job[q].then /\ MemberFields \subseteq DOMAIN job'[q]
    BY <1>1, <1>3, GoSeatMeans
  <2>2. OfWorkspace(job[q].next) /\ job[q].then = "ok"
    BY <1>1 DEF MemberInv, MemberJobOK, OtherJobOK
  <2>3. ManageJobOK(q)'
    BY <1>1, <2>1 DEF ManageJobOK, ManageKinds
  <2>4. OtherJobOK(q)'
    BY <1>1, <2>1, <2>2 DEF OtherJobOK, OfWorkspace, Peopled, Existing, Has, Ids, WorkspaceKinds
  <2>5. MemberJobOK(q)'
    BY <1>1, <2>1, <2>3, <2>4 DEF MemberJobOK, MemberKinds, InviteKinds
  <2>6. Kicks(q)
    BY <1>1, QuietKicks
  <2> QED BY <1>1, <2>1, <2>5, <2>6, NoSeatChanges DEF MemberEffect, MemberInv
<1> QED BY <1>2, <1>3 DEF LookForPending

\* A request that loads an invitation or a workspace and goes on to save it.
LEMMA CopyEffect ==
  ASSUME MemberInv, NEW q \in Requests, NEW j, Begins(q, j), UNCHANGED rows,
         MemberFields \subseteq DOMAIN j, j.phase \in {"diff", "write"},
         \/ /\ j.kind = "invitation_revoke" /\ j.row \in Existing("invitation")
            /\ OfWorkspace(j.next) /\ j.then = "ok"
         \/ j.kind \in WorkspaceKinds /\ j.row \in Ids("workspace")
  PROVE  MemberEffect(q)
<1>1. RequestInv' /\ Steps(q) /\ job'[q] = j /\ Kicks(q)
  BY BegunMeans DEF MemberFields
<1>2. ManageJobOK(q)'
  BY <1>1 DEF ManageJobOK, ManageKinds, WorkspaceKinds
<1>3. OtherJobOK(q)'
  BY <1>1 DEF OtherJobOK, OfWorkspace, Peopled, Existing, Has, Ids, WorkspaceKinds
<1>4. MemberJobOK(q)'
  BY <1>1, <1>2, <1>3 DEF MemberJobOK, MemberKinds, InviteKinds
<1> QED BY <1>1, <1>4, NoSeatChanges DEF MemberEffect, MemberInv

LEMMA CopyMeans ==
  ASSUME NEW kind, NEW p, NEW id, NEW next, NEW then
  PROVE  LET j == Copy(kind, p, id, next, then)
         IN /\ MemberFields \subseteq DOMAIN j /\ j.kind = kind /\ j.phase = "diff"
            /\ j.row = id /\ j.next = next /\ j.then = then
BY DEF Copy, MemberFields, JobFields

LEMMA RevokeInvitationEffect ==
  ASSUME MemberInv, NEW q \in Requests, RevokeInvitation(q)
  PROVE  MemberEffect(q)
<1>1. PICK id \in Existing("invitation") :
        Begins(q, IF rows[id].status = "pending"
                  THEN Copy("invitation_revoke", NoProcess, id,
                            [rows[id] EXCEPT !.status = "revoked"], "ok")
                  ELSE Answered("invitation_revoke", "refused"))
  BY DEF RevokeInvitation, Edits
<1>2. UNCHANGED rows
  BY DEF RevokeInvitation
<1> DEFINE next == [rows[id] EXCEPT !.status = "revoked"]
           j == Copy("invitation_revoke", NoProcess, id, next, "ok")
<1>3. OfWorkspace(next)
  BY <1>1 DEF MemberInv, SeatsInv, OfWorkspace
<1> HIDE DEF next
<1>4. /\ MemberFields \subseteq DOMAIN j /\ j.kind = "invitation_revoke" /\ j.phase = "diff"
      /\ j.row = id /\ j.next = next /\ j.then = "ok"
  BY CopyMeans
<1> HIDE DEF j
<1>5. Begins(q, j) \/ Begins(q, Answered("invitation_revoke", "refused"))
  BY <1>1 DEF j, next
<1> QED BY <1>1, <1>2, <1>3, <1>4, <1>5, CopyEffect, RefusalEffect

LEMMA FreeSeat ==
  ASSUME SeatsInv, NEW table, Free(table) # {}
  PROVE  /\ FirstFree(table) \in Ids(table) /\ FirstFree(table) \in DOMAIN rows
         /\ FirstFree(table)[1] = table /\ rows[FirstFree(table)] = NoRow
<1>1. \A id \in DOMAIN rows : id[2] \in Nat
  BY DEF SeatsInv
<1> QED BY <1>1, FirstFreeIsFree

\* accept(): the seat and the invitation are written together.
LEMMA AcceptInvitationEffect ==
  ASSUME MemberInv, NEW q \in Requests, AcceptInvitation(q)
  PROVE  MemberEffect(q)
<1>1. PICK id \in Existing("invitation"), u \in Users :
        LET inv == rows[id]
            mine == {m \in Existing("member") : rows[m].home = inv.home /\ rows[m].user = u}
            seat == IF mine = {} THEN FirstFree("member") ELSE CHOOSE m \in mine : TRUE
            again == inv.status = "accepted" /\ mine # {}
            ok == inv.email = u /\ inv.status = "pending" /\ ~inv.due
            resigns == ok /\ mine # {} /\ inv.role # "owner" /\ OnlyOwner(seat)
        IN /\ ok /\ mine = {} => Free("member") # {}
           /\ Begins(q, [kind |-> "invitation_accept", at |-> NoProcess,
                         phase |-> IF inv.email = u /\ (ok \/ again) THEN "ok" ELSE "refused",
                         resigned |-> IF resigns THEN {inv.home} ELSE {}])
           /\ rows' = IF ok THEN [rows EXCEPT ![seat] = Member(inv.home, u, inv.role),
                                              ![id].status = "accepted"]
                      ELSE rows
  BY DEF AcceptInvitation
<1> DEFINE inv == rows[id]
           mine == {m \in Existing("member") : rows[m].home = inv.home /\ rows[m].user = u}
           seat == IF mine = {} THEN FirstFree("member") ELSE CHOOSE m \in mine : TRUE
           ok == inv.email = u /\ inv.status = "pending" /\ ~inv.due
           resigns == ok /\ mine # {} /\ inv.role # "owner" /\ OnlyOwner(seat)
           resigned == IF resigns THEN {inv.home} ELSE {}
           j(o) == [kind |-> "invitation_accept", at |-> NoProcess, phase |-> o,
                    resigned |-> resigned]
<1>2. \E o \in {"ok", "refused"} : Begins(q, j(o))
  BY <1>1
<1>3. PICK outcome \in {"ok", "refused"} : Begins(q, j(outcome))
  BY <1>2
<1> DEFINE new == j(outcome)
<1>4. /\ JobFields \subseteq DOMAIN new /\ new.kind = "invitation_accept"
      /\ new.phase = outcome /\ new.resigned = resigned
  BY DEF JobFields
<1>5. mine # {} /\ inv.role # "owner" /\ OnlyOwner(seat) /\ ok => inv.home \in new.resigned
  BY <1>4
<1> HIDE DEF resigns, resigned, new
<1>6. Begins(q, new)
  BY <1>3 DEF new
<1>7. /\ RequestInv' /\ Steps(q) /\ job'[q] = new /\ Kicks(q)
  BY <1>4, <1>6, BegunMeans
<1>8. MemberJobOK(q)'
  BY <1>4, <1>7, EndedMemberJob DEF Outcomes
<1>9. CASE ~ok
  <2>1. UNCHANGED rows
    BY <1>1, <1>9
  <2>2. SameIds /\ SeatStep(q) /\ InvitationsKept
    BY <2>1, NoSeatChanges DEF MemberInv
  <2> QED BY <1>7, <1>8, <2>2 DEF MemberEffect
<1>10. CASE ok
  <2>1. /\ mine = {} => Free("member") # {}
        /\ rows' = [rows EXCEPT ![seat] = Member(inv.home, u, inv.role), ![id].status = "accepted"]
    BY <1>1, <1>10
  <2>2. /\ seat \in Ids("member") /\ seat \in DOMAIN rows
        /\ rows[seat] # NoRow => rows[seat].home = inv.home /\ rows[seat].user = u
    <3>1. CASE mine = {}
      <4>1. seat = FirstFree("member")
        BY <3>1
      <4> HIDE DEF seat
      <4> QED BY <2>1, <3>1, <4>1, FreeSeat DEF MemberInv
    <3>2. CASE mine # {}
      <4>1. seat \in mine
        BY <3>2
      <4> HIDE DEF seat
      <4> QED BY <4>1 DEF Existing, Ids
    <3> QED BY <3>1, <3>2
  <2>3. id \in DOMAIN rows /\ id \in Ids("invitation") /\ id[1] = "invitation" /\ rows[id] # NoRow
    BY DEF Existing, Ids, Has
  <2>4. OfWorkspace(inv)
    BY DEF MemberInv, SeatsInv
  <2>5. seat # id
    BY <2>2, <2>3 DEF Ids
  <2>12. rows[seat] # NoRow => mine # {}
    <3> SUFFICES ASSUME mine = {} PROVE rows[seat] = NoRow
      OBVIOUS
    <3>1. seat = FirstFree("member")
      OBVIOUS
    <3> HIDE DEF seat
    <3> QED BY <2>1, <3>1, FreeSeat DEF MemberInv
  <2> HIDE DEF seat, mine, ok
\* The only owner is there, so the seat is theirs.
  <2>13. Owners("member", inv.home) = {seat} /\ inv.role # "owner"
           => inv.home \in job'[q].resigned
    <3> SUFFICES ASSUME Owners("member", inv.home) = {seat}, inv.role # "owner"
                 PROVE  inv.home \in new.resigned
      BY <1>7
    <3>1. rows[seat] # NoRow
      BY DEF Owners, Existing, Has
    <3> QED BY <1>5, <1>10, <2>2, <2>12, <3>1 DEF OnlyOwner
  <2> DEFINE held == Member(inv.home, u, inv.role)
             accepted == [rows[id] EXCEPT !.status = "accepted"]
  <2>6. rows = [x \in DOMAIN rows |-> rows[x]]
    BY DEF MemberInv, SeatsInv
  <2>7. /\ SameIds /\ rows'[seat] = held /\ rows'[id] = accepted
        /\ \A x \in DOMAIN rows \ {seat, id} : rows'[x] = rows[x]
    <3> HIDE DEF held
    <3> QED BY <2>1, <2>2, <2>3, <2>5, <2>6 DEF SameIds, held
  <2>8. OfWorkspace(accepted)
    BY <2>4 DEF OfWorkspace
  <2> HIDE DEF accepted
  <2>9. InvitationsKept
    <3> SUFFICES ASSUME NEW x \in Ids("invitation")
                 PROVE  /\ rows[x] # NoRow => rows'[x] # NoRow
                        /\ rows'[x] # NoRow => OfWorkspace(rows'[x])
      BY DEF InvitationsKept
    <3>1. CASE x = id
      BY <2>7, <2>8, <3>1, SeatsAreRows
    <3>2. CASE x # id
      <4>1. rows'[x] = rows[x]
        BY <2>2, <2>7, <3>2 DEF Ids
      <4> QED BY <4>1 DEF MemberInv, SeatsInv, Existing, Has
    <3> QED BY <3>1, <3>2
  <2>10. SeatTaken(q)
    <3>1. \A x \in SeatIds \ {seat} : rows'[x] = rows[x]
      BY <2>3, <2>7 DEF SeatIds, Ids
    <3>2. inv.home \in Ids("workspace") /\ Peopled(inv.home)
      BY <2>4 DEF OfWorkspace
    <3>3. job'[q].kind = "invitation_accept"
      BY <1>4, <1>7
    <3> QED BY <2>2, <2>7, <2>13, <3>1, <3>2, <3>3 DEF SeatTaken
  <2>11. SameIds /\ SeatStep(q) /\ InvitationsKept
    BY <2>7, <2>9, <2>10 DEF SeatStep
  <2> QED BY <1>7, <1>8, <2>11 DEF MemberEffect
<1> QED BY <1>9, <1>10

\* create(): the workspace and its owner in one transaction.
LEMMA CreateWorkspaceEffect ==
  ASSUME MemberInv, NEW q \in Requests, CreateWorkspace(q)
  PROVE  MemberEffect(q)
<1> DEFINE w == FirstFree("workspace")
           seat == FirstFree("member")
<1>1. PICK m \in Existing("orgmember") :
        /\ Free("workspace") # {} /\ Free("member") # {}
        /\ Begins(q, Answered("workspace_create",
                              IF rows[m].status = "active" THEN "ok" ELSE "refused"))
        /\ rows' = IF rows[m].status = "active"
                   THEN [rows EXCEPT ![w] = Workspace("new"),
                                     ![seat] = Member(w, rows[m].user, "owner")]
                   ELSE rows
  BY DEF CreateWorkspace
<1>2. PICK outcome \in {"ok", "refused"} : Begins(q, Answered("workspace_create", outcome))
  BY <1>1
<1>3. /\ w \in Ids("workspace") /\ w \in DOMAIN rows /\ w[1] = "workspace"
      /\ seat \in Ids("member") /\ seat \in DOMAIN rows /\ seat[1] = "member" /\ rows[seat] = NoRow
  BY <1>1, FreeSeat DEF MemberInv
<1> HIDE DEF w, seat
<1>4. CASE rows[m].status # "active"
  <2>1. UNCHANGED rows
    BY <1>1, <1>4
  <2>2. SameIds /\ SeatStep(q) /\ InvitationsKept
    BY <2>1, NoSeatChanges DEF MemberInv
  <2> QED BY <1>2, <2>2, AnswerEffect DEF Outcomes
<1>5. CASE rows[m].status = "active"
  <2> DEFINE new == Member(w, rows[m].user, "owner")
  <2>1. rows = [x \in DOMAIN rows |-> rows[x]]
        /\ rows' = [rows EXCEPT ![w] = Workspace("new"), ![seat] = new]
    BY <1>1, <1>5 DEF MemberInv, SeatsInv
  <2>2. /\ SameIds /\ rows'[seat] = new
        /\ \A x \in DOMAIN rows \ {seat, w} : rows'[x] = rows[x]
    <3> HIDE DEF new
    <3> QED BY <1>3, <2>1 DEF SameIds
  <2>3. InvitationsKept
    <3>1. \A x \in Ids("invitation") : rows'[x] = rows[x]
      BY <1>3, <2>2 DEF Ids
    <3> QED BY <3>1 DEF InvitationsKept, MemberInv, SeatsInv, Existing, Has
  <2>4. \A x \in SeatIds \ {seat} : rows'[x] = rows[x]
    BY <1>3, <2>2 DEF SeatIds, Ids
  <2>5. SeatFounded
    BY <1>3, <2>2, <2>4 DEF SeatFounded
  <2>6. SameIds /\ SeatStep(q) /\ InvitationsKept
    BY <2>2, <2>3, <2>5 DEF SeatStep
  <2> QED BY <1>2, <2>6, AnswerEffect DEF Outcomes
<1> QED BY <1>4, <1>5

LEMMA EditWorkspaceEffect ==
  ASSUME MemberInv, NEW q \in Requests, UNCHANGED rows, NEW caller \in Existing("member"),
         NEW kind \in WorkspaceKinds, NEW next, NEW then,
         \/ Begins(q, Copy(kind, NoProcess, rows[caller].home, next, then))
         \/ Begins(q, Answered(kind, "refused"))
  PROVE  MemberEffect(q)
<1> DEFINE j == Copy(kind, NoProcess, rows[caller].home, next, then)
<1>1. rows[caller].home \in Ids("workspace")
  BY DEF MemberInv, SeatsInv, OfWorkspace
<1>2. /\ MemberFields \subseteq DOMAIN j /\ j.kind = kind /\ j.phase = "diff"
      /\ j.row = rows[caller].home
  BY CopyMeans
<1> HIDE DEF j
<1>3. Begins(q, j) \/ Begins(q, Answered(kind, "refused"))
  BY DEF j
<1> QED BY <1>1, <1>2, <1>3, CopyEffect, RefusalEffect

LEMMA EditWorkspaceEffects ==
  ASSUME MemberInv, NEW q \in Requests,
         UpdateWorkspace(q) \/ ArchiveWorkspace(q) \/ RemoveWorkspace(q)
  PROVE  MemberEffect(q)
<1>1. {"workspace_update", "workspace_archive", "workspace_restore", "workspace_remove"}
        \subseteq WorkspaceKinds
  BY DEF WorkspaceKinds
<1>2. CASE UpdateWorkspace(q) \/ ArchiveWorkspace(q)
  <2>1. UNCHANGED rows
    BY <1>2 DEF UpdateWorkspace, ArchiveWorkspace, EditWorkspace
  <2>2. \E kind \in WorkspaceKinds : \E caller \in Existing("member") : \E next, then :
          \/ Begins(q, Copy(kind, NoProcess, rows[caller].home, next, then))
          \/ Begins(q, Answered(kind, "refused"))
    BY <1>1, <1>2 DEF UpdateWorkspace, ArchiveWorkspace, EditWorkspace, Edits
  <2> QED BY <2>1, <2>2, EditWorkspaceEffect
<1>3. CASE RemoveWorkspace(q)
  <2>1. UNCHANGED rows
    BY <1>3 DEF RemoveWorkspace
  <2>2. PICK caller \in Existing("member") : \E next :
          \/ Begins(q, [Request("workspace_remove", "write", rows[caller].home, next)
                          EXCEPT !.dirty = {"deleted"}])
          \/ Begins(q, Answered("workspace_remove", "refused"))
    BY <1>3 DEF RemoveWorkspace
  <2>3. CASE Begins(q, Answered("workspace_remove", "refused"))
    BY <2>1, <2>3, RefusalEffect
  <2>4. ASSUME NEW next, Begins(q, [Request("workspace_remove", "write", rows[caller].home, next)
                                      EXCEPT !.dirty = {"deleted"}])
        PROVE  MemberEffect(q)
    <3> DEFINE j == [Request("workspace_remove", "write", rows[caller].home, next)
                       EXCEPT !.dirty = {"deleted"}]
    <3>1. rows[caller].home \in Ids("workspace")
      BY DEF MemberInv, SeatsInv, OfWorkspace
    <3>2. /\ MemberFields \subseteq DOMAIN j /\ j.kind = "workspace_remove" /\ j.phase = "write"
          /\ j.row = rows[caller].home
      BY DEF Request, MemberFields, JobFields
    <3>3. Begins(q, j)
      BY <2>4
    <3> HIDE DEF j
    <3> QED BY <1>1, <2>1, <3>1, <3>2, <3>3, CopyEffect
  <2> QED BY <2>2, <2>3, <2>4
<1> QED BY <1>2, <1>3

LEMMA WriteWorkspaceEffect ==
  ASSUME MemberInv, NEW q \in Requests, WriteWorkspace(q)
  PROVE  MemberEffect(q)
<1> DEFINE id == job[q].row
<1>1. /\ job[q].kind \in WorkspaceKinds /\ job[q].phase = "write" /\ Busy(q) /\ Goes(q, "ok")
  BY DEF WriteWorkspace, At, Busy, Outcomes
<1>2. rows' = [rows EXCEPT ![id] = rows'[id]]
  BY DEF WriteWorkspace, MemberInv, SeatsInv
<1>3. id \in Ids("workspace")
  BY <1>1 DEF MemberInv, MemberJobOK, OtherJobOK
<1> HIDE DEF id
<1>4. SameIds /\ SeatStep(q) /\ InvitationsKept
  BY <1>2, <1>3, OtherRowWritten
<1>5. RequestInv' /\ Steps(q) /\ job'[q].phase = "ok"
  BY <1>1, GoSeatMeans
<1>6. MemberJobOK(q)'
  BY <1>5, EndedMemberJob DEF Outcomes
<1>7. Kicks(q)
  BY <1>1 DEF Kicks, WorkspaceKinds, DisconnectKinds
<1> QED BY <1>4, <1>5, <1>6, <1>7 DEF MemberEffect

(* save() of a member or an invitation. *)

LEMMA InsertInvitationEffect ==
  ASSUME MemberInv, NEW q \in Requests, InsertRow(q, InviteKinds, "invitation")
  PROVE  MemberEffect(q)
<1> DEFINE id == FirstFree("invitation")
           j == [job[q] EXCEPT !.phase = job[q].then, !.row = id]
<1>1. /\ job[q].kind \in InviteKinds /\ job[q].phase = "insert" /\ Busy(q)
      /\ Free("invitation") # {} /\ UNCHANGED alone
      /\ rows' = [rows EXCEPT ![id] = job[q].next]
      /\ job' = [job EXCEPT ![q].phase = job[q].then, ![q].row = id]
  BY DEF InsertRow, At, Busy, Outcomes
<1>2. job[q].kind = "invitation_create"
  BY <1>1 DEF InviteKinds, MemberInv, MemberJobOK, OtherJobOK, Outcomes
<1>3. OfWorkspace(job[q].next) /\ job[q].then = "ok" /\ MemberFields \subseteq DOMAIN job[q]
  BY <1>1, <1>2 DEF MemberInv, MemberJobOK, OtherJobOK
<1>4. id \in Ids("invitation")
  BY <1>1, FreeSeat DEF MemberInv
<1> HIDE DEF id
<1>5. SameIds /\ SeatStep(q) /\ InvitationsKept
  BY <1>1, <1>3, <1>4, OtherRowWritten
<1>6. MemberFields \subseteq DOMAIN j /\ j.kind = job[q].kind /\ j.phase = "ok"
  BY <1>3 DEF MemberFields, JobFields
<1>7. job' = [job EXCEPT ![q] = j]
  BY <1>1, <1>3 DEF MemberInv, RequestInv
<1> HIDE DEF j
<1>8. RequestInv' /\ job'[q] = j /\ Steps(q)
  BY <1>1, <1>6, <1>7, JobBecomes DEF MemberInv, MemberFields
<1>9. MemberJobOK(q)'
  BY <1>6, <1>8, EndedMemberJob DEF Outcomes
<1>10. Kicks(q)
  BY <1>1, QuietKicks
<1> QED BY <1>5, <1>8, <1>9, <1>10 DEF MemberEffect

LEMMA DiffSeatEffect ==
  ASSUME MemberInv, NEW q \in Requests, DiffRow(q, MemberKinds)
  PROVE  MemberEffect(q)
<1> DEFINE dirty == Differing(job[q].next, rows[job[q].row])
           j == [job[q] EXCEPT !.phase = "write", !.dirty = dirty]
<1>1. /\ job[q].kind \in MemberKinds /\ job[q].phase = "diff" /\ Busy(q)
      /\ UNCHANGED <<alone, rows>>
      /\ job' = [job EXCEPT ![q].phase = "write", ![q].dirty = dirty]
  BY DEF DiffRow, At, Busy, Outcomes
<1>2. MemberFields \subseteq DOMAIN job[q] /\ MemberJobOK(q)
  BY <1>1 DEF MemberInv, MemberJobOK
<1> HIDE DEF dirty
<1>3. /\ MemberFields \subseteq DOMAIN j /\ j.kind = job[q].kind /\ j.phase = "write"
      /\ j.row = job[q].row /\ j.next = job[q].next /\ j.then = job[q].then
  BY <1>2 DEF MemberFields, JobFields
<1>4. job' = [job EXCEPT ![q] = j]
  BY <1>1, <1>2 DEF MemberInv, RequestInv
<1> HIDE DEF j
<1>5. RequestInv' /\ job'[q] = j /\ Steps(q)
  BY <1>1, <1>3, <1>4, JobBecomes DEF MemberInv, MemberFields
<1>6. /\ job'[q].kind = job[q].kind /\ job'[q].phase = "write" /\ job'[q].row = job[q].row
      /\ job'[q].next = job[q].next /\ job'[q].then = job[q].then
  BY <1>3, <1>5
<1>7. /\ \A table : Existing(table)' = Existing(table) /\ Ids(table)' = Ids(table)
      /\ AnotherOwner(job[q].row)' <=> AnotherOwner(job[q].row)
  BY <1>1, <1>6 DEF Existing, Ids, Has, AnotherOwner, Owners
<1>8. ManageJobOK(q)'
  <2> SUFFICES ASSUME job[q].kind \in ManageKinds PROVE ManageJobOK(q)'
    BY <1>6 DEF ManageJobOK
  <2>1. job[q].row \in Existing(SeatTable(job[q].kind)) /\ SeatChangeOK(q)
    BY <1>1, <1>2 DEF MemberJobOK, ManageJobOK
  <2>2. SeatChangeOK(q)'
    BY <1>1, <1>6, <1>7, <2>1 DEF SeatChangeOK
  <2>3. (job[q].row \in Existing(SeatTable(job[q].kind)))'
    BY <1>6, <1>7, <2>1 DEF SeatTable
  <2> QED BY <1>6, <2>2, <2>3 DEF ManageJobOK
<1>9. OtherJobOK(q)'
  BY <1>1, <1>2, <1>6, <1>7 DEF MemberJobOK, OtherJobOK, OfWorkspace, Peopled, Outcomes
<1>10. MemberJobOK(q)'
  BY <1>1, <1>3, <1>5, <1>8, <1>9 DEF MemberJobOK
<1>11. Kicks(q)
  BY <1>1, QuietKicks
<1> QED BY <1>1, <1>5, <1>10, <1>11, NoSeatChanges DEF MemberEffect, MemberInv

LEMMA WriteSeatEffect ==
  ASSUME MemberInv, NEW q \in Requests, WriteRow(q, ManageKinds \cup InviteKinds)
  PROVE  MemberEffect(q)
<1> DEFINE id == job[q].row
           r == Written(rows[id], job[q].next, job[q].dirty)
<1>1. /\ job[q].kind \in ManageKinds \cup InviteKinds /\ job[q].phase = "write" /\ Busy(q)
      /\ Goes(q, job[q].then) /\ rows' = [rows EXCEPT ![id] = r]
  BY DEF WriteRow, At, Busy, Outcomes
<1>2. /\ RequestInv' /\ Steps(q) /\ job'[q].phase = job[q].then
      /\ job'[q].kind = job[q].kind /\ job'[q].next = job[q].next
      /\ MemberFields \subseteq DOMAIN job'[q]
  BY <1>1, GoSeatMeans
<1>3. MemberJobOK(q)
  BY DEF MemberInv
<1>4. CASE job[q].kind \in ManageKinds
  <2>1. id \in Existing(SeatTable(job[q].kind)) /\ SeatChangeOK(q)
    BY <1>1, <1>3, <1>4 DEF MemberJobOK, ManageJobOK
  <2>2. id \in DOMAIN rows /\ id[1] \in SeatTables
    BY <2>1 DEF Existing, Ids, SeatTable, SeatTables
  <2>3. rows = [x \in DOMAIN rows |-> rows[x]]
    BY DEF MemberInv, SeatsInv
  <2>4. job[q].then = AfterSave(job[q].kind)
    BY <2>1 DEF SeatChangeOK
  <2> HIDE DEF id, r
  <2>5. SameIds /\ rows'[id] = r /\ \A x \in DOMAIN rows \ {id} : rows'[x] = rows[x]
    BY <1>1, <2>2, <2>3 DEF SameIds
  <2>6. SeatChange(q)
    BY <1>1, <1>4, <2>5 DEF SeatChange, SeatIds, Ids, id, r
  <2>7. InvitationsKept
    <3>1. \A x \in Ids("invitation") : rows'[x] = rows[x]
      BY <2>2, <2>5 DEF Ids, SeatTables
    <3> QED BY <3>1 DEF InvitationsKept, MemberInv, SeatsInv, Existing, Has
  <2>8. /\ job[q].kind \in DisconnectKinds => job'[q].phase = "disconnect"
        /\ job[q].kind \notin DisconnectKinds => job'[q].phase = "ok"
    BY <1>2, <2>4 DEF AfterSave, DisconnectKinds
  <2>9. Kicks(q)
    BY <1>1, <1>2, <2>8 DEF Kicks
  <2>10. MemberJobOK(q)'
    <3>1. ManageJobOK(q)'
      BY <1>2, <2>8 DEF ManageJobOK, Outcomes
    <3>2. OtherJobOK(q)'
      BY <1>2, <1>4 DEF OtherJobOK, ManageKinds, WorkspaceKinds
    <3> QED BY <1>2, <1>4, <3>1, <3>2 DEF MemberJobOK, MemberKinds
  <2> QED BY <1>2, <2>5, <2>6, <2>7, <2>9, <2>10 DEF MemberEffect, SeatStep
<1>5. CASE job[q].kind \in InviteKinds
  <2>1. job[q].kind = "invitation_revoke"
    BY <1>1, <1>3, <1>5 DEF InviteKinds, MemberJobOK, OtherJobOK, Outcomes
  <2>2. id \in Existing("invitation") /\ job[q].then = "ok" /\ OfWorkspace(job[q].next)
    BY <1>1, <1>3, <2>1 DEF MemberJobOK, OtherJobOK
  <2>3. OfWorkspace(rows[id]) /\ id \in Ids("invitation")
    BY <2>2 DEF MemberInv, SeatsInv, Existing
  <2>4. OfWorkspace(r)
    BY <2>2, <2>3 DEF OfWorkspace, Written
  <2> HIDE DEF id, r
  <2>5. SameIds /\ SeatStep(q) /\ InvitationsKept
    BY <1>1, <2>3, <2>4, OtherRowWritten
  <2>6. MemberJobOK(q)'
    BY <1>2, <2>2, EndedMemberJob DEF Outcomes
  <2>7. Kicks(q)
    BY <2>1 DEF Kicks, DisconnectKinds
  <2> QED BY <1>2, <2>5, <2>6, <2>7 DEF MemberEffect
<1> QED BY <1>1, <1>4, <1>5

LEMMA MemberEffects ==
  ASSUME MemberInv, NEW q \in Requests,
         \/ ChangeRole(q) \/ SetStatus(q) \/ UpdateOrgMember(q) \/ RemoveOrgMember(q)
         \/ ReadTarget(q) \/ CountOwners(q) \/ CreateInvitation(q) \/ LookForPending(q)
         \/ RevokeInvitation(q) \/ AcceptInvitation(q) \/ CreateWorkspace(q) \/ UpdateWorkspace(q)
         \/ ArchiveWorkspace(q) \/ RemoveWorkspace(q) \/ WriteWorkspace(q) \/ SaveMember(q)
         \/ MemberFails(q)
  PROVE  MemberEffect(q)
<1>1. CASE ChangeRole(q) \/ SetStatus(q) \/ UpdateOrgMember(q) \/ RemoveOrgMember(q)
  BY <1>1, ManageEffects
<1>2. CASE ReadTarget(q) \/ CountOwners(q)
  BY <1>2, ReadTargetEffect, CountOwnersEffect
<1>3. CASE CreateInvitation(q) \/ LookForPending(q) \/ RevokeInvitation(q) \/ AcceptInvitation(q)
  BY <1>3, CreateInvitationEffect, LookForPendingEffect, RevokeInvitationEffect,
     AcceptInvitationEffect
<1>4. CASE CreateWorkspace(q) \/ WriteWorkspace(q)
  BY <1>4, CreateWorkspaceEffect, WriteWorkspaceEffect
<1>5. CASE UpdateWorkspace(q) \/ ArchiveWorkspace(q) \/ RemoveWorkspace(q)
  BY <1>5, EditWorkspaceEffects
<1>6. CASE SaveMember(q)
  BY <1>6, InsertInvitationEffect, DiffSeatEffect, WriteSeatEffect DEF SaveMember
<1>7. CASE MemberFails(q)
  BY <1>7, EndEffect DEF MemberFails
<1> QED BY <1>1, <1>2, <1>3, <1>4, <1>5, <1>6, <1>7

\* Seven days change nothing but the invitation.
LEMMA FallDueStep ==
  ASSUME MemberInv, NEW id \in Ids("invitation"), FallDue(id)
  PROVE  MemberInv' /\ \A user, home : IsMember(user, home) => IsMember(user, home)'
<1>1. /\ rows[id] # NoRow /\ UNCHANGED requestVars /\ id \in DOMAIN rows /\ id[1] = "invitation"
      /\ rows = [x \in DOMAIN rows |-> rows[x]] /\ OfWorkspace(rows[id])
      /\ rows' = [rows EXCEPT ![id].due = TRUE]
  BY DEF FallDue, Has, Ids, MemberInv, SeatsInv, Existing
<1> DEFINE r == [rows[id] EXCEPT !.due = TRUE]
<1>2. OfWorkspace(r)
  BY <1>1 DEF OfWorkspace
<1>3. rows' = [rows EXCEPT ![id] = r]
  BY <1>1
<1> HIDE DEF r
<1>4. /\ DOMAIN rows' = DOMAIN rows /\ rows' = [x \in DOMAIN rows' |-> rows'[x]]
      /\ rows'[id] = r /\ r # NoRow /\ \A x \in DOMAIN rows \ {id} : rows'[x] = rows[x]
  BY <1>1, <1>2, <1>3, SeatsAreRows
<1>5. /\ \A table : Ids(table)' = Ids(table) /\ Existing(table)' = Existing(table)
      /\ \A table \in SeatTables : \A x \in Ids(table) : rows'[x] = rows[x]
  BY <1>1, <1>4 DEF Ids, Existing, Has, SeatTables
<1>6. SeatsInv'
  <2>1. \A table \in SeatTables : \A x \in Existing(table)' : Seat(rows'[x])
    BY <1>5 DEF MemberInv, SeatsInv, Existing
  <2>2. \A x \in Existing("member") \cup Existing("invitation") : OfWorkspace(rows[x])'
    <3>1. \A s : OfWorkspace(s) => OfWorkspace(s)'
      BY <1>5 DEF OfWorkspace, Peopled, SeatTables, Existing
    <3> QED BY <1>2, <1>4, <1>5, <3>1 DEF MemberInv, SeatsInv, Existing, Ids
  <2>3. \A x \in DOMAIN rows' : x[2] \in Nat \ {0}
    BY <1>4 DEF MemberInv, SeatsInv
  <2> QED BY <1>4, <1>5, <2>1, <2>2, <2>3 DEF SeatsInv
<1>7. OwnerRemains'
  <2> SUFFICES ASSUME NEW table \in SeatTables, NEW x \in Existing(table)'
               PROVE  \/ (Owners(table, rows[x].home) # {})'
                      \/ (\E q \in Requests : job[q].kind \in ManageKinds /\ ~alone[q])'
                      \/ table = "member" /\ (\E q \in Requests : /\ job[q].kind = "invitation_accept"
                                                                /\ rows[x].home \in job[q].resigned)'
    BY DEF OwnerRemains, SeatTables
  <2>1. x \in Existing(table) /\ rows'[x] = rows[x]
    BY <1>5 DEF Existing
  <2>2. Owners(table, rows[x].home)' = Owners(table, rows[x].home)
    BY <1>5, <2>1 DEF Owners, Existing
  <2> QED BY <1>1, <2>1, <2>2 DEF MemberInv, OwnerRemains, SeatTables, requestVars
<1>8. RequestInv'
  BY <1>1 DEF MemberInv, RequestInv, Solitude, Busy, requestVars
<1>9. ASSUME NEW q \in Requests PROVE MemberJobOK(q)'
  <2>1. UNCHANGED <<job, alone>> /\ MemberJobOK(q)
    BY <1>1 DEF requestVars, MemberInv
  <2>2. ManageJobOK(q)'
    <3> SUFFICES ASSUME job[q].kind \in ManageKinds PROVE ManageJobOK(q)'
      BY <2>1 DEF ManageJobOK
    <3>1. ManageJobOK(q)
      BY <2>1 DEF MemberJobOK
    <3>2. CASE job[q].phase \notin {"target", "owners", "diff", "write"}
      BY <2>1, <3>1, <3>2 DEF ManageJobOK
    <3>3. CASE job[q].phase \in {"target", "owners", "diff", "write"}
      <4>1. job[q].row \in Existing(SeatTable(job[q].kind)) /\ SeatTable(job[q].kind) \in SeatTables
        BY <3>1, <3>3 DEF ManageJobOK, SeatTable, SeatTables
      <4>2. rows'[job[q].row] = rows[job[q].row] /\ job[q].row[1] = SeatTable(job[q].kind)
        BY <1>5, <4>1 DEF Existing, Ids
      <4>3. AnotherOwner(job[q].row)' <=> AnotherOwner(job[q].row)
        BY <1>5, <2>1, <4>1, <4>2 DEF AnotherOwner, Owners, Existing
      <4>4. SeatChangeOK(q) => SeatChangeOK(q)'
        BY <2>1, <4>2, <4>3 DEF SeatChangeOK
      <4> QED BY <1>5, <2>1, <3>1, <3>3, <4>1, <4>4 DEF ManageJobOK
    <3> QED BY <3>2, <3>3
  <2>3. OtherJobOK(q)'
    <3>1. \A s : OfWorkspace(s) => OfWorkspace(s)'
      BY <1>5 DEF OfWorkspace, Peopled, SeatTables, Existing
    <3> QED BY <1>5, <2>1, <3>1 DEF MemberJobOK, OtherJobOK
  <2> QED BY <2>1, <2>2, <2>3 DEF MemberJobOK, Busy
<1>10. \A user, home : IsMember(user, home) => IsMember(user, home)'
  BY <1>5 DEF IsMember, SeatTables, Existing
<1> QED BY <1>6, <1>7, <1>8, <1>9, <1>10 DEF MemberInv

-------------------------------------------------------------------------------
(* Sockets. *)

\* A step that leaves socket s alone keeps its rooms in order if it keeps the reasons for which
\* the socket is in them.
LEMMA SocketStays ==
  ASSUME NEW s \in Sockets, SocketOK(s),
         socket'[s] = socket[s], rooms'[s] = rooms[s], joining'[s] = joining[s],
         \A home : Live(s) /\ Admitted(s, home) => Admitted(s, home)'
  PROVE  SocketOK(s)'
BY DEF SocketOK, Live, NoSocket

LEMMA AllSocketsStay ==
  ASSUME RoomsInv, UNCHANGED <<socket, rooms, joining>>,
         \A s \in Sockets : \A home : Live(s) /\ Admitted(s, home) => Admitted(s, home)'
  PROVE  RoomsInv'
<1>1. \A s \in Sockets : SocketOK(s)'
  BY SocketStays DEF RoomsInv
<1> QED BY <1>1 DEF RoomsInv

\* The requests stay as they are, and the members.
LEMMA ReasonsStay ==
  ASSUME UNCHANGED <<requestVars, rows>>, NEW s \in Sockets, socket'[s] = socket[s],
         Marked(s) => Marked(s)'
  PROVE  \A home : Admitted(s, home) => Admitted(s, home)'
BY DEF requestVars, Admitted, IsMember, Existing, Ids, Has, Disconnects, Caller

LEMMA MembersStay ==
  ASSUME MemberInv, UNCHANGED <<requestVars, rows>>
  PROVE  MemberInv'
<1>1. UNCHANGED <<job, alone, rows>>
  BY DEF requestVars
<1>2. RequestInv' /\ SeatsInv'
  BY <1>1 DEF MemberInv, RequestInv, Solitude, Busy, SeatsInv, OfWorkspace, Peopled, Existing, Ids, Has
<1>3. OwnerRemains'
  BY <1>1 DEF MemberInv, OwnerRemains, Owners, Existing, Ids, Has
<1>4. ASSUME NEW q \in Requests PROVE MemberJobOK(q)'
  <2>1. SeatChangeOK(q) => SeatChangeOK(q)'
    BY <1>1 DEF SeatChangeOK, AnotherOwner, Owners, Existing, Ids, Has
  <2>2. \A table : Existing(table)' = Existing(table) /\ Ids(table)' = Ids(table)
    BY <1>1 DEF Existing, Ids, Has
  <2>3. ManageJobOK(q)'
    BY <1>1, <2>1, <2>2 DEF MemberInv, MemberJobOK, ManageJobOK
  <2>4. OtherJobOK(q)'
    BY <1>1, <2>2 DEF MemberInv, MemberJobOK, OtherJobOK, OfWorkspace, Peopled
  <2> QED BY <1>1, <2>3, <2>4 DEF MemberInv, MemberJobOK, Busy
<1> QED BY <1>2, <1>3, <1>4 DEF MemberInv

\* Who loses the membership gets the request that took it on the heels.
LEMMA ReasonsKept ==
  ASSUME MemberInv, NEW q \in Requests, MemberEffect(q), UNCHANGED realtimeVars,
         NEW s \in Sockets, NEW home, Admitted(s, home)
  PROVE  Admitted(s, home)'
<1>1. Caller(s)' = Caller(s) /\ Marked(s)' = Marked(s)
  BY DEF realtimeVars, Caller, Marked
<1>2. Steps(q) /\ SameIds /\ SeatStep(q) /\ Kicks(q)
  BY DEF MemberEffect
<1>3. ASSUME NEW r \in Requests, job[r].kind = "member_role", ~alone[r]
      PROVE  job'[r].kind = "member_role" /\ ~alone'[r]
  BY <1>2, <1>3 DEF Steps, OthersStay
<1>4. ASSUME NEW r \in Requests, Disconnects(r, s)
      PROVE  Disconnects(r, s)'
  <2>1. CASE r # q
    BY <1>1, <1>2, <1>4, <2>1 DEF Steps, OthersStay, Disconnects
  <2>2. CASE r = q
    BY <1>2, <1>4, <2>2 DEF Disconnects, DisconnectKinds, Kicks
  <2> QED BY <2>1, <2>2
<1>5. CASE IsMember(Caller(s).user, home)
  <2>1. \/ IsMember(Caller(s).user, home)'
        \/ /\ SeatChange(q) /\ job[q].kind \in DisconnectKinds
           /\ job[q].next.user = Caller(s).user
        \/ job[q].kind = "member_role" /\ ~alone[q]
    <3> DEFINE user == Caller(s).user
    <3>1. user' = user
      BY <1>1
    <3>2. \A u : IsMember(u, home) =>
            \/ IsMember(u, home)'
            \/ SeatChange(q) /\ job[q].kind \in DisconnectKinds /\ job[q].next.user = u
            \/ job[q].kind = "member_role" /\ ~alone[q]
      BY <1>2, MembersKept
    <3> QED BY <1>1, <1>5, <3>2 DEF IsMember
  <2>2. CASE SeatChange(q) /\ job[q].kind \in DisconnectKinds /\ job[q].next.user = Caller(s).user
    <3>1. Disconnects(q, s)'
      BY <1>1, <1>2, <2>2 DEF Kicks, Disconnects, DisconnectKinds
    <3> QED BY <3>1 DEF Admitted
  <2> QED BY <1>3, <2>1, <2>2 DEF Admitted
<1> QED BY <1>1, <1>3, <1>4, <1>5 DEF Admitted

LEMMA MemberNextStep ==
  ASSUME RealtimeInv, MemberNext, UNCHANGED realtimeVars
  PROVE  RealtimeInv'
<1>1. MemberInv /\ RoomsInv /\ UNCHANGED <<socket, rooms, joining, ordered, unseen>>
  BY DEF RealtimeInv, realtimeVars
<1>2. ASSUME NEW q \in Requests, MemberEffect(q)
      PROVE  RealtimeInv'
  <2>1. MemberInv'
    BY <1>1, <1>2, MemberStep DEF MemberEffect
  <2>2. \A s \in Sockets : \A home : Admitted(s, home) => Admitted(s, home)'
    BY <1>1, <1>2, ReasonsKept
  <2> QED BY <1>1, <2>1, <2>2, AllSocketsStay DEF RealtimeInv
<1>3. ASSUME NEW id \in Ids("invitation"), FallDue(id)
      PROVE  RealtimeInv'
  <2>1. MemberInv' /\ \A user, home : IsMember(user, home) => IsMember(user, home)'
    BY <1>1, <1>3, FallDueStep
  <2>2. UNCHANGED <<job, alone>>
    BY <1>3 DEF FallDue, requestVars
  <2>3. ASSUME NEW s \in Sockets, NEW home, Admitted(s, home)
        PROVE  Admitted(s, home)'
    <3>1. Caller(s)' = Caller(s) /\ Marked(s)' = Marked(s)
      BY <1>1 DEF Caller, Marked
    <3>2. \A q \in Requests : Disconnects(q, s)' <=> Disconnects(q, s)
      BY <2>2, <3>1 DEF Disconnects
    <3>3. IsMember(Caller(s).user, home) => IsMember(Caller(s).user, home)'
      <4>1. \A user : IsMember(user, home) => IsMember(user, home)'
        BY <2>1
      <4> QED BY <3>1, <4>1 DEF IsMember
    <3> QED BY <2>2, <2>3, <3>1, <3>2, <3>3 DEF Admitted
  <2> QED BY <1>1, <2>1, <2>3, AllSocketsStay DEF RealtimeInv
<1> QED BY <1>1, <1>2, <1>3, MemberEffects DEF MemberNext

\* A step of a socket that changes no request and no member.
LEMMA SocketStep ==
  ASSUME RealtimeInv, UNCHANGED <<requestVars, rows>>, NEW s \in Sockets,
         socket' = [x \in Sockets |-> socket'[x]], rooms' = [x \in Sockets |-> rooms'[x]],
         joining' = [x \in Sockets |-> joining'[x]],
         \A x \in Sockets \ {s} :
           /\ socket'[x] = socket[x] /\ rooms'[x] = rooms[x] /\ joining'[x] = joining[x]
           /\ Marked(x) => Marked(x)',
         SocketOK(s)'
  PROVE  RealtimeInv'
<1>1. MemberInv' /\ RoomsInv
  BY MembersStay DEF RealtimeInv
<1>2. \A x \in Sockets \ {s} : SocketOK(x)'
  <2> SUFFICES ASSUME NEW x \in Sockets \ {s} PROVE SocketOK(x)'
    OBVIOUS
  <2>1. \A home : Admitted(x, home) => Admitted(x, home)'
    BY ReasonsStay
  <2> QED BY <1>1, <2>1, SocketStays DEF RoomsInv
<1> QED BY <1>1, <1>2 DEF RealtimeInv, RoomsInv

LEMMA ClosedMeans ==
  ASSUME RoomsInv, NEW s \in Sockets, Closed(s)
  PROVE  /\ socket' = [x \in Sockets |-> socket'[x]] /\ rooms' = [x \in Sockets |-> rooms'[x]]
         /\ \A x \in Sockets \ {s} : socket'[x] = socket[x] /\ rooms'[x] = rooms[x]
         /\ SocketOK(s)' /\ ~Live(s)'
<1>1. /\ socket = [x \in Sockets |-> socket[x]] /\ rooms = [x \in Sockets |-> rooms[x]]
      /\ socket' = [socket EXCEPT ![s].phase = "gone"] /\ rooms' = [rooms EXCEPT ![s] = {}]
      /\ socket[s] = [c \in {"phase", "at", "jwt"} |-> socket[s][c]]
  BY DEF Closed, RoomsInv, SocketOK
<1>2. /\ socket' = [x \in Sockets |-> socket'[x]] /\ rooms' = [x \in Sockets |-> rooms'[x]]
      /\ \A x \in Sockets \ {s} : socket'[x] = socket[x] /\ rooms'[x] = rooms[x]
      /\ socket'[s] = [socket[s] EXCEPT !.phase = "gone"]
  BY <1>1
<1>3. /\ socket'[s] = [c \in {"phase", "at", "jwt"} |-> socket'[s][c]]
      /\ socket'[s].phase = "gone"
  BY <1>1, <1>2
<1>4. NoSocket.phase = "new"
  BY DEF NoSocket
<1>5. socket'[s] # NoSocket /\ ~Live(s)'
  BY <1>3, <1>4 DEF Live
<1>6. SocketOK(s)'
  BY <1>3, <1>5 DEF SocketOK, NoSocket
<1> QED BY <1>2, <1>5, <1>6

LEMMA ConnectionStep ==
  ASSUME RealtimeInv, NEW s \in Sockets, HandleConnection(s) \/ HandleDisconnect(s)
  PROVE  RealtimeInv'
<1>1. /\ RoomsInv /\ UNCHANGED <<requestVars, rows, joining>>
      /\ \A x \in Sockets : Marked(x)' = Marked(x)
  BY DEF RealtimeInv, HandleConnection, HandleDisconnect, Marked
<1>2. joining' = [x \in Sockets |-> joining'[x]]
  BY <1>1 DEF RoomsInv
<1>3. CASE HandleDisconnect(s)
  BY <1>1, <1>2, <1>3, ClosedMeans, SocketStep DEF HandleDisconnect
<1>4. CASE HandleConnection(s)
  <2>1. PICK p \in Processes, t \in JwtPayloads :
          /\ socket' = [socket EXCEPT ![s] = [phase |-> "live", at |-> p, jwt |-> {t}]]
          /\ rooms' = [rooms EXCEPT ![s] = {UserRoom(t.user)}]
    BY <1>4 DEF HandleConnection
  <2> DEFINE new == [phase |-> "live", at |-> p, jwt |-> {t}]
  <2>2. /\ new = [c \in {"phase", "at", "jwt"} |-> new[c]]
        /\ new.phase = "live" /\ new.jwt = {t}
    OBVIOUS
  <2>3. new # NoSocket
    BY DEF NoSocket
  <2> HIDE DEF new
  <2>4. /\ socket' = [x \in Sockets |-> socket'[x]] /\ rooms' = [x \in Sockets |-> rooms'[x]]
        /\ \A x \in Sockets \ {s} : socket'[x] = socket[x] /\ rooms'[x] = rooms[x]
        /\ socket'[s] = new /\ rooms'[s] = {UserRoom(t.user)}
    BY <2>1 DEF RoomsInv, RealtimeInv, new
  <2>5. joining[s] = {}
    BY <1>1, <1>4 DEF HandleConnection, RoomsInv, SocketOK
  <2>7. UserRoom(t.user).type = "user"
    BY DEF UserRoom
  <2>8. SocketOK(s)'
    <3>1. /\ socket'[s] = [c \in {"phase", "at", "jwt"} |-> socket'[s][c]]
          /\ ~(socket[s] = NoSocket)'
      BY <2>2, <2>3, <2>4 DEF NoSocket
    <3>2. (rooms[s] \cup joining[s])' = {UserRoom(t.user)}
      BY <1>1, <2>4, <2>5
    <3> QED BY <2>7, <3>1, <3>2 DEF SocketOK
  <2> QED BY <1>1, <1>2, <2>4, <2>8, SocketStep
<1> QED BY <1>3, <1>4

\* canJoin() answers for a workspace by its members.
LEMMA RoomStep ==
  ASSUME RealtimeInv, NEW s \in Sockets, NEW room \in ClientRooms,
         HandleJoinRoom(s, room) \/ Join(s, room) \/ HandleLeaveRoom(s, room)
  PROVE  RealtimeInv'
<1>1. /\ RoomsInv /\ SocketOK(s) /\ UNCHANGED <<requestVars, rows>>
      /\ \A x \in Sockets : Marked(x)' = Marked(x)
  BY DEF RealtimeInv, RoomsInv, HandleJoinRoom, Join, HandleLeaveRoom, Marked
<1>2. CASE Closed(s) /\ UNCHANGED joining
  <2>1. joining' = [x \in Sockets |-> joining'[x]]
    BY <1>1, <1>2 DEF RoomsInv
  <2> QED BY <1>1, <1>2, <2>1, ClosedMeans, SocketStep
<1>3. ASSUME UNCHANGED socket,
             rooms' = [x \in Sockets |-> rooms'[x]], joining' = [x \in Sockets |-> joining'[x]],
             \A x \in Sockets \ {s} : rooms'[x] = rooms[x] /\ joining'[x] = joining[x],
             socket[s] = NoSocket => joining'[s] = {},
             Live(s) =>
               \A r \in (rooms'[s] \cup joining'[s]) \ (rooms[s] \cup joining[s]) :
                 r.type \in {"workspace", "ai-task"} => Admitted(s, r.of)
      PROVE  RealtimeInv'
  <2>1. \A home : Admitted(s, home) => Admitted(s, home)'
    BY <1>1, <1>3, ReasonsStay
  <2>2. Live(s)' = Live(s) /\ Caller(s)' = Caller(s)
    BY <1>3 DEF Live, Caller
  <2>3. SocketOK(s)'
    BY <1>1, <1>3, <2>1, <2>2 DEF SocketOK, NoSocket
  <2>4. socket' = [x \in Sockets |-> socket'[x]]
    BY <1>1, <1>3 DEF RoomsInv
  <2> QED BY <1>1, <1>3, <2>3, <2>4, SocketStep
<1>4. CASE HandleLeaveRoom(s, room)
  <2>1. /\ UNCHANGED <<socket, joining>> /\ Live(s) /\ rooms' = [rooms EXCEPT ![s] = @ \ {room}]
    BY <1>4 DEF HandleLeaveRoom
  <2>2. /\ rooms' = [x \in Sockets |-> rooms'[x]] /\ joining' = [x \in Sockets |-> joining'[x]]
        /\ \A x \in Sockets \ {s} : rooms'[x] = rooms[x] /\ joining'[x] = joining[x]
        /\ rooms'[s] = rooms[s] \ {room}
    BY <1>1, <2>1 DEF RoomsInv
  <2> QED BY <1>1, <1>3, <2>1, <2>2 DEF SocketOK
<1>5. CASE Join(s, room)
  <2>1. /\ UNCHANGED socket /\ room \in joining[s]
        /\ joining' = [joining EXCEPT ![s] = @ \ {room}]
        /\ rooms' = [rooms EXCEPT ![s] = @ \cup {room}]
    BY <1>5 DEF Join
  <2>2. /\ rooms' = [x \in Sockets |-> rooms'[x]] /\ joining' = [x \in Sockets |-> joining'[x]]
        /\ \A x \in Sockets \ {s} : rooms'[x] = rooms[x] /\ joining'[x] = joining[x]
        /\ rooms'[s] = rooms[s] \cup {room} /\ joining'[s] = joining[s] \ {room}
    BY <1>1, <2>1 DEF RoomsInv
  <2> QED BY <1>1, <1>3, <2>1, <2>2 DEF SocketOK
<1>6. CASE /\ Live(s) /\ canJoin(Caller(s), room) /\ UNCHANGED <<socket, rooms>>
           /\ joining' = [joining EXCEPT ![s] = @ \cup {room}]
  <2>1. /\ rooms' = [x \in Sockets |-> rooms'[x]] /\ joining' = [x \in Sockets |-> joining'[x]]
        /\ \A x \in Sockets \ {s} : rooms'[x] = rooms[x] /\ joining'[x] = joining[x]
        /\ joining'[s] = joining[s] \cup {room}
    BY <1>1, <1>6 DEF RoomsInv
  <2>2. room.type \in {"workspace", "ai-task"} => Admitted(s, room.of)
    <3>1. UserRoom(Caller(s).user).type \notin {"workspace", "ai-task"}
      BY DEF UserRoom
    <3> QED BY <1>6, <3>1 DEF canJoin, BelongsToOrg, OrgRooms, Admitted
  <2>3. socket[s] # NoSocket
    BY <1>6 DEF Live, NoSocket
  <2> QED BY <1>1, <1>3, <1>6, <2>1, <2>2, <2>3 DEF SocketOK
<1>7. HandleJoinRoom(s, room) =>
        \/ Closed(s) /\ UNCHANGED joining
        \/ /\ Live(s) /\ canJoin(Caller(s), room) /\ UNCHANGED <<socket, rooms>>
           /\ joining' = [joining EXCEPT ![s] = @ \cup {room}]
  BY DEF HandleJoinRoom
<1> QED BY <1>2, <1>4, <1>5, <1>6, <1>7

(* disconnectWorkspaceMember() *)

\* The request that disconnects leaves the members alone.
LEMMA DisconnectingRequest ==
  ASSUME MemberInv, NEW q \in Requests, UNCHANGED rows, RequestInv', Steps(q),
         job[q].kind \in DisconnectKinds, job'[q].kind = job[q].kind,
         job'[q].phase \in {"kick"} \cup Outcomes,
         job'[q].phase = "kick" => MemberFields \subseteq DOMAIN job'[q]
  PROVE  MemberInv'
<1>1. ManageJobOK(q)'
  BY DEF ManageJobOK, Outcomes
<1>2. OtherJobOK(q)'
  BY DEF OtherJobOK, DisconnectKinds, WorkspaceKinds
<1>3. MemberJobOK(q)'
  BY <1>1, <1>2 DEF MemberJobOK, MemberKinds, ManageKinds, DisconnectKinds, Busy
<1>4. SameIds /\ SeatStep(q) /\ InvitationsKept
  BY NoSeatChanges DEF MemberInv
<1> QED BY <1>3, <1>4, MemberStep

\* A socket keeps its reasons when q goes on to disconnect it.
LEMMA ReasonsWhileDisconnecting ==
  ASSUME MemberInv, NEW q \in Requests, UNCHANGED rows, Steps(q), NEW s \in Sockets,
         socket'[s] = socket[s], job[q].kind \in DisconnectKinds, Marked(s) => Marked(s)',
         Disconnects(q, s) => Disconnects(q, s)' \/ Marked(s)', NEW home, Admitted(s, home)
  PROVE  Admitted(s, home)'
<1>1. Caller(s)' = Caller(s)
  BY DEF Caller
<1>2. IsMember(Caller(s).user, home) => IsMember(Caller(s).user, home)'
  BY <1>1 DEF IsMember, Existing, Ids, Has
<1>3. ASSUME NEW r \in Requests, Disconnects(r, s)
      PROVE  Disconnects(r, s)' \/ Marked(s)'
  BY <1>1, <1>3 DEF Steps, OthersStay, Disconnects
<1>4. ASSUME NEW r \in Requests, job[r].kind = "member_role", ~alone[r]
      PROVE  job'[r].kind = "member_role" /\ ~alone'[r]
  BY <1>4 DEF Steps, OthersStay
<1> QED BY <1>2, <1>3, <1>4 DEF Admitted

LEMMA FetchSocketsStep ==
  ASSUME RealtimeInv, NEW q \in Requests, FetchSockets(q)
  PROVE  RealtimeInv'
<1> DEFINE next == InUserRoom(job[q].next.user)
<1>1. PICK p \in Processes : Fetched(q, p, next)
  BY DEF FetchSockets
<1> DEFINE j == [job[q] EXCEPT !.phase = "kick", !.at = p, !.next = next]
<1>2. /\ job[q].kind \in DisconnectKinds /\ job[q].phase = "disconnect" /\ Busy(q)
      /\ UNCHANGED <<alone, rows, socket, rooms, joining, ordered>> /\ MemberInv /\ RoomsInv
      /\ job' = [job EXCEPT ![q].phase = "kick", ![q].at = p, ![q].next = next]
      /\ \A s \in Sockets : s \in unseen => s \in unseen'
      /\ \A s \in Sockets :
           Live(s) /\ Caller(s).user = job[q].next.user /\ UserRoom(Caller(s).user) \notin rooms[s]
             => s \in unseen'
  BY <1>1 DEF Fetched, At, Busy, Outcomes, DisconnectKinds, RealtimeInv
<1>3. \A s \in Sockets : Live(s) /\ UserRoom(job[q].next.user) \in rooms[s] => s \in next
  BY DEF InUserRoom
<1> HIDE DEF next
<1>4. MemberFields \subseteq DOMAIN job[q]
  BY <1>2 DEF MemberInv, MemberJobOK
<1>5. /\ MemberFields \subseteq DOMAIN j /\ j.kind = job[q].kind /\ j.phase = "kick"
      /\ j.next = next
  BY <1>4 DEF MemberFields, JobFields
<1>6. job' = [job EXCEPT ![q] = j]
  BY <1>2, <1>4 DEF MemberInv, RequestInv
<1> HIDE DEF j
<1>7. RequestInv' /\ job'[q] = j /\ Steps(q)
  BY <1>2, <1>5, <1>6, JobBecomes DEF MemberInv, MemberFields
<1>8. MemberInv'
  BY <1>2, <1>5, <1>7, DisconnectingRequest
\* A socket of the user is found, or has left the room of its user.
<1>9. ASSUME NEW s \in Sockets, NEW home, Live(s), Admitted(s, home)
      PROVE  Admitted(s, home)'
  <2>1. Disconnects(q, s) => job[q].next.user = Caller(s).user
    BY <1>2 DEF Disconnects
  <2>2. Disconnects(q, s) => s \in next \/ s \in unseen'
    BY <1>2, <1>3, <1>9, <2>1
  <2>3. Disconnects(q, s) => Disconnects(q, s)' \/ Marked(s)'
    BY <1>2, <1>5, <1>7, <2>2 DEF Disconnects, Marked
  <2>4. Marked(s) => Marked(s)'
    BY <1>2 DEF Marked
  <2> QED BY <1>2, <1>7, <1>9, <2>3, <2>4, ReasonsWhileDisconnecting
<1> QED BY <1>2, <1>8, <1>9, AllSocketsStay DEF RealtimeInv

LEMMA KickStep ==
  ASSUME RealtimeInv, NEW q \in Requests, NEW s \in Sockets, Kick(q, s)
  PROVE  RealtimeInv'
<1> DEFINE next == job[q].next \ {s}
           j == [job[q] EXCEPT !.next = next]
<1>1. /\ job[q].kind \in DisconnectKinds /\ job[q].phase = "kick" /\ Busy(q)
      /\ UNCHANGED <<alone, rows, joining>> /\ MemberInv /\ RoomsInv
      /\ job' = [job EXCEPT ![q].next = next]
  BY DEF Kick, At, Busy, Outcomes, DisconnectKinds, RealtimeInv
<1>2. MemberFields \subseteq DOMAIN job[q]
  BY <1>1 DEF MemberInv, MemberJobOK
<1> HIDE DEF next
<1>3. /\ MemberFields \subseteq DOMAIN j /\ j.kind = job[q].kind /\ j.phase = "kick"
      /\ j.next = next
  BY <1>1, <1>2 DEF MemberFields, JobFields
<1>4. job' = [job EXCEPT ![q] = j]
  BY <1>1, <1>2 DEF MemberInv, RequestInv
<1> HIDE DEF j
<1>5. RequestInv' /\ job'[q] = j /\ Steps(q)
  BY <1>1, <1>3, <1>4, JobBecomes DEF MemberInv, MemberFields
<1>6. MemberInv'
  BY <1>1, <1>3, <1>5, DisconnectingRequest
<1>7. /\ \/ Closed(s)
         \/ ~Live(s) /\ UNCHANGED <<socket, rooms>>
         \/ Marked(s)' /\ UNCHANGED <<socket, rooms>>
      /\ \A x \in Sockets : Marked(x) => Marked(x)'
  BY DEF Kick, Marked
<1>8. /\ socket' = [x \in Sockets |-> socket'[x]] /\ rooms' = [x \in Sockets |-> rooms'[x]]
      /\ \A x \in Sockets \ {s} : socket'[x] = socket[x] /\ rooms'[x] = rooms[x]
  <2>1. CASE Closed(s)
    BY <1>1, <2>1, ClosedMeans
  <2>2. CASE UNCHANGED <<socket, rooms>>
    BY <1>1, <2>2 DEF RoomsInv
  <2> QED BY <1>7, <2>1, <2>2
<1>9. SocketOK(s)'
  <2>1. CASE Closed(s)
    BY <1>1, <2>1, ClosedMeans
  <2>2. CASE ~Live(s) /\ UNCHANGED <<socket, rooms>>
    BY <1>1, <2>2 DEF RoomsInv, SocketOK, Live, NoSocket
  <2>3. CASE Marked(s)' /\ UNCHANGED <<socket, rooms>>
    <3>1. \A home : Admitted(s, home)'
      BY <2>3 DEF Admitted
    <3> QED BY <1>1, <2>3, <3>1, SocketStays DEF RoomsInv
  <2> QED BY <1>7, <2>1, <2>2, <2>3
<1>10. ASSUME NEW x \in Sockets \ {s}
       PROVE  SocketOK(x)'
  <2>1. Disconnects(q, x) => Disconnects(q, x)'
    BY <1>1, <1>3, <1>5 DEF Disconnects, next
  <2>2. \A home : Admitted(x, home) => Admitted(x, home)'
    BY <1>1, <1>5, <1>7, <1>8, <2>1, ReasonsWhileDisconnecting
  <2> QED BY <1>1, <1>8, <2>2, SocketStays DEF RoomsInv
<1> QED BY <1>1, <1>6, <1>8, <1>9, <1>10 DEF RealtimeInv, RoomsInv

\* Another process closes the socket it was asked to close, if it is still there.
LEMMA ObeyOrderStep ==
  ASSUME RealtimeInv, NEW s \in Sockets, ObeyOrder(s)
  PROVE  RealtimeInv'
<1>1. /\ RoomsInv /\ UNCHANGED <<requestVars, rows, joining>>
      /\ \A x \in Sockets \ {s} : Marked(x) => Marked(x)'
      /\ Closed(s) \/ (~Live(s) /\ UNCHANGED <<socket, rooms>>)
  BY DEF RealtimeInv, ObeyOrder, Marked
<1>2. joining' = [x \in Sockets |-> joining'[x]]
  BY <1>1 DEF RoomsInv
<1>3. CASE Closed(s)
  BY <1>1, <1>2, <1>3, ClosedMeans, SocketStep
<1>4. CASE ~Live(s) /\ UNCHANGED <<socket, rooms>>
  <2>1. SocketOK(s)'
    BY <1>1, <1>4 DEF RoomsInv, SocketOK, Live, NoSocket
  <2> QED BY <1>1, <1>2, <1>4, <2>1, SocketStep DEF RoomsInv
<1> QED BY <1>1, <1>3, <1>4

LEMMA KickedAllStep ==
  ASSUME RealtimeInv, NEW q \in Requests, KickedAll(q)
  PROVE  RealtimeInv'
<1>1. /\ job[q].kind \in DisconnectKinds /\ job[q].phase = "kick" /\ Busy(q)
      /\ job[q].next = {} /\ Ends(q, "ok") /\ MemberInv /\ RoomsInv
      /\ UNCHANGED <<rows, socket, rooms, joining, ordered, unseen>>
  BY DEF KickedAll, At, Busy, Outcomes, DisconnectKinds, RealtimeInv, realtimeVars
<1>2. Proceeds(q) /\ job'[q].kind = job[q].kind /\ job'[q].phase \in Outcomes
  BY <1>1, EndsMeans DEF MemberInv, Outcomes
<1>3. RequestInv' /\ Steps(q)
  BY <1>1, <1>2, ProceedsMeans DEF MemberInv
<1>4. MemberInv'
  BY <1>1, <1>2, <1>3, DisconnectingRequest DEF Outcomes
<1>5. ASSUME NEW s \in Sockets, NEW home, Admitted(s, home)
      PROVE  Admitted(s, home)'
  <2>1. ~Disconnects(q, s)
    BY <1>1 DEF Disconnects
  <2>2. Marked(s)' = Marked(s)
    BY <1>1 DEF Marked
  <2> QED BY <1>1, <1>3, <1>5, <2>1, <2>2, ReasonsWhileDisconnecting
<1> QED BY <1>1, <1>4, <1>5, AllSocketsStay DEF RealtimeInv

LEMMA EventStep ==
  ASSUME RealtimeInv, EventNext
  PROVE  RealtimeInv'
<1>1. UNCHANGED <<requestVars, rows, socket, rooms, joining, ordered, unseen>>
  BY DEF EventNext, EmitEvent, BridgeEvent, CanvasEvent, HandleCursorUpdate, FiftyMs
<1>2. MemberInv' /\ \A s \in Sockets : \A home : Admitted(s, home) => Admitted(s, home)'
  BY <1>1, MembersStay, ReasonsStay DEF RealtimeInv, Marked
<1> QED BY <1>1, <1>2, AllSocketsStay DEF RealtimeInv

LEMMA RealtimeStays ==
  ASSUME RealtimeInv, UNCHANGED <<requestVars, rows, realtimeVars>>
  PROVE  RealtimeInv'
<1>1. UNCHANGED <<requestVars, rows, socket, rooms, joining, ordered, unseen>>
  BY DEF realtimeVars
<1>2. MemberInv' /\ \A s \in Sockets : \A home : Admitted(s, home) => Admitted(s, home)'
  BY <1>1, MembersStay, ReasonsStay DEF RealtimeInv, Marked
<1> QED BY <1>1, <1>2, AllSocketsStay DEF RealtimeInv

LEMMA SocketNextStep ==
  ASSUME RealtimeInv, SocketNext
  PROVE  RealtimeInv'
BY ConnectionStep, RoomStep, KickStep, FetchSocketsStep, ObeyOrderStep, KickedAllStep
   DEF SocketNext

-------------------------------------------------------------------------------
\* Any number of requests about members, any number of sockets of any number of people that
\* connect, join, leave and are disconnected, keep the invariant.
THEOREM RealtimeInvariance == RealtimeSpec => []RealtimeInv
<1>1. MemberInit /\ RealtimeInit => RealtimeInv
  <2> SUFFICES ASSUME MemberInit, RealtimeInit PROVE RealtimeInv
    OBVIOUS
  <2>1. RequestInv
    BY RequestsBegin DEF MemberInit
  <2>2. PICK m \in Nat, n \in Nat :
          \E staff \in [1..n -> [home : STRING, user : Users, role : OrgRoles, status : {"active"}]] :
            /\ \A i \in 1..n : \E k \in 1..n :
                 staff[k].home = staff[i].home /\ staff[k].role = "owner"
            /\ rows = [id \in ({"workspace", "member", "invitation"} \X (1..m)) \cup
                              ({"orgmember"} \X (1..n)) |->
                         IF id[1] = "orgmember" THEN staff[id[2]] ELSE NoRow]
    BY DEF MemberInit
  <2>3. PICK staff \in [1..n -> [home : STRING, user : Users, role : OrgRoles, status : {"active"}]] :
          /\ \A i \in 1..n : \E k \in 1..n :
               staff[k].home = staff[i].home /\ staff[k].role = "owner"
          /\ rows = [id \in ({"workspace", "member", "invitation"} \X (1..m)) \cup
                            ({"orgmember"} \X (1..n)) |->
                       IF id[1] = "orgmember" THEN staff[id[2]] ELSE NoRow]
    BY <2>2
  <2>4. /\ Existing("member") = {} /\ Existing("invitation") = {}
        /\ Ids("orgmember") = {"orgmember"} \X (1..n)
        /\ \A i \in 1..n : rows[<<"orgmember", i>>] = staff[i]
    BY <2>3 DEF Existing, Ids, Has
  <2>5. \A i \in 1..n : Seat(staff[i]) /\ staff[i].status = "active"
    BY DEF Seat, SeatColumns
  <2>6. \A id \in Ids("orgmember") : \E i \in 1..n : id = <<"orgmember", i>>
    BY <2>4
  <2>7. SeatsInv
    <3>1. \A id \in Existing("orgmember") : Seat(rows[id])
      BY <2>4, <2>5, <2>6 DEF Existing
    <3>2. rows = [id \in DOMAIN rows |-> rows[id]]
      BY <2>3
    <3>3. DOMAIN rows = ({"workspace", "member", "invitation"} \X (1..m)) \cup
                        ({"orgmember"} \X (1..n))
      BY <2>3
    <3>4. 1..m \subseteq Nat \ {0} /\ 1..n \subseteq Nat \ {0}
      OBVIOUS
    <3>5. \A id \in DOMAIN rows : id[2] \in Nat \ {0}
      BY <3>3, <3>4
    <3> QED BY <2>4, <3>1, <3>2, <3>5 DEF SeatsInv, SeatTables
  <2>8. OwnerRemains
    <3> SUFFICES ASSUME NEW id \in Existing("orgmember")
                 PROVE  Owners("orgmember", rows[id].home) # {}
      BY <2>4 DEF OwnerRemains
    <3>1. PICK i \in 1..n : rows[id] = staff[i]
      BY <2>4, <2>6 DEF Existing
    <3>2. PICK k \in 1..n : staff[k].home = staff[i].home /\ staff[k].role = "owner"
      BY <2>3
    <3>3. staff[k] # NoRow
      BY <2>5, SeatsAreRows
    <3>4. <<"orgmember", k>> \in Existing("orgmember")
      BY <2>4, <3>3 DEF Existing, Has
    <3> QED BY <2>4, <2>5, <3>1, <3>2, <3>4 DEF Owners
  <2>9. \A q \in Requests : job[q].kind = "none" /\ job[q].phase = "idle"
    BY DEF MemberInit, RequestInit, NoJob
  <2>10. \A q \in Requests : MemberJobOK(q)
    BY <2>9 DEF MemberJobOK, ManageJobOK, OtherJobOK, Busy, ManageKinds, WorkspaceKinds
  <2>11. RoomsInv
    BY DEF RealtimeInit, RoomsInv, SocketOK, Live, NoSocket
  <2> QED BY <2>1, <2>7, <2>8, <2>10, <2>11 DEF RealtimeInv, MemberInv
<1>2. RealtimeInv /\ [RealtimeNext]_<<requestVars, rows, realtimeVars>> => RealtimeInv'
  <2> SUFFICES ASSUME RealtimeInv, [RealtimeNext]_<<requestVars, rows, realtimeVars>>
               PROVE  RealtimeInv'
    OBVIOUS
  <2>1. CASE UNCHANGED <<requestVars, rows, realtimeVars>>
    BY <2>1, RealtimeStays
  <2>2. CASE MemberNext /\ UNCHANGED realtimeVars
    BY <2>2, MemberNextStep
  <2>3. CASE SocketNext
    BY <2>3, SocketNextStep
  <2>4. CASE EventNext
    BY <2>4, EventStep
  <2> QED BY <2>1, <2>2, <2>3, <2>4 DEF RealtimeNext
<1> QED BY <1>1, <1>2, PTL DEF RealtimeSpec

\* assertAnotherOwner() holds what its name says while the requests that manage members come
\* one after the other, whatever invitations do meanwhile: no workspace and no organization
\* loses its last active owner, except by that owner's own acceptance of another role.
THEOREM OwnersRemain == RealtimeSpec => []OwnerRemains
<1>1. RealtimeInv => OwnerRemains
  BY DEF RealtimeInv, MemberInv
<1> QED BY <1>1, RealtimeInvariance, PTL

\* disconnectWorkspaceMember() closes every live socket of who was suspended or removed that is
\* in the user's room, also one whose join was allowed before and happened after; a socket of
\* another process goes once that process obeys.
THEOREM MembersOnlyInRooms == RealtimeSpec => []RoomsAreOfMembers
<1>1. RealtimeInv => RoomsAreOfMembers
  BY DEF RealtimeInv, RoomsInv, SocketOK, RoomsAreOfMembers, Admitted, Marked
<1> QED BY <1>1, RealtimeInvariance, PTL

-------------------------------------------------------------------------------
(* Members, accounts and sockets together, as TLC runs them. *)

\* Some request has begun.
Begun == \E q \in Requests : job[q].kind # "none"

\* A request that is at work goes on as what it is.
GoesOn(q) == \E j : job' = [job EXCEPT ![q] = j] /\ j.kind = job[q].kind

\* A step of q, a request of one of these kinds.
StepOf(q, kinds) ==
  \/ \E j : Begins(q, j) /\ j.kind \in kinds
  \/ job[q].kind \in kinds /\ GoesOn(q)

\* The tables that a step leaves alone.
Kept(tables) ==
  DOMAIN rows' = DOMAIN rows /\ \A id \in DOMAIN rows : id[1] \in tables => rows'[id] = rows[id]

LEMMA KindsApart ==
  /\ MemberKinds \cap AccountKinds = {} /\ "none" \notin MemberKinds \cup AccountKinds
  /\ SocketKinds \subseteq MemberKinds
BY DEF MemberKinds, ManageKinds, InviteKinds, WorkspaceKinds, AccountKinds, TokenKinds, UserKinds,
       RecoveryKinds, SocketKinds

LEMMA KindsStay ==
  ASSUME RequestInv, NEW q \in Requests, NEW K, "none" \notin K, Only(K), StepOf(q, K)
  PROVE  Only(K)' /\ Begun'
<1>1. PICK j : job' = [job EXCEPT ![q] = j] /\ j.kind \in K
  BY DEF StepOf, Begins, GoesOn
<1>2. job'[q].kind \in K /\ \A x \in Requests \ {q} : job'[x] = job[x]
  BY <1>1 DEF RequestInv
<1> QED BY <1>2 DEF Only, Begun

LEMMA GoingOn ==
  ASSUME RequestInv, NEW q \in Requests,
         \/ \E phase : Goes(q, phase)
         \/ \E outcome : Ends(q, outcome)
         \/ Fails(q)
         \/ \E table, kinds : InsertRow(q, kinds, table)
         \/ \E kinds : DiffRow(q, kinds)
  PROVE  GoesOn(q)
<1>1. CASE \E phase : Goes(q, phase)
  <2>1. PICK phase : job' = [job EXCEPT ![q].phase = phase]
    BY <1>1 DEF Goes
  <2>2. PICK j : j = [job[q] EXCEPT !.phase = phase]
    OBVIOUS
  <2>3. job' = [job EXCEPT ![q] = j] /\ j.kind = job[q].kind
    BY <2>1, <2>2 DEF RequestInv, JobFields
  <2> QED BY <2>3 DEF GoesOn
<1>2. CASE (\E outcome : Ends(q, outcome)) \/ Fails(q)
  <2>1. PICK outcome : job' = [job EXCEPT ![q] = [Answered(@.kind, outcome) EXCEPT !.at = job[q].at]]
    BY <1>2 DEF Ends, Fails
  <2>2. PICK j : j = [Answered(job[q].kind, outcome) EXCEPT !.at = job[q].at]
    OBVIOUS
  <2>3. job' = [job EXCEPT ![q] = j] /\ j.kind = job[q].kind
    BY <2>1, <2>2 DEF Answered, NoJob
  <2> QED BY <2>3 DEF GoesOn
<1>3. CASE \E table, kinds : InsertRow(q, kinds, table)
  <2>1. PICK table : job' = [job EXCEPT ![q].phase = job[q].then, ![q].row = FirstFree(table)]
    BY <1>3 DEF InsertRow
  <2>2. PICK id : id = FirstFree(table)
    OBVIOUS
  <2>3. PICK j : j = [job[q] EXCEPT !.phase = job[q].then, !.row = id]
    OBVIOUS
  <2>4. job' = [job EXCEPT ![q] = j] /\ j.kind = job[q].kind
    BY <2>1, <2>2, <2>3 DEF RequestInv, JobFields
  <2> QED BY <2>4 DEF GoesOn
<1>4. CASE \E kinds : DiffRow(q, kinds)
  <2>1. job' = [job EXCEPT ![q].phase = "write",
                           ![q].dirty = Differing(job[q].next, rows[job[q].row])]
    BY <1>4 DEF DiffRow
  <2>2. PICK dirty : dirty = Differing(job[q].next, rows[job[q].row])
    OBVIOUS
  <2>3. PICK j : j = [job[q] EXCEPT !.phase = "write", !.dirty = dirty]
    OBVIOUS
  <2>4. job' = [job EXCEPT ![q] = j] /\ j.kind = job[q].kind
    BY <2>1, <2>2, <2>3 DEF RequestInv, JobFields
  <2> QED BY <2>4 DEF GoesOn
<1> QED BY <1>1, <1>2, <1>3, <1>4

\* A request that goes on with two fields changed.
LEMMA GoingOnWith ==
  ASSUME RequestInv, NEW q \in Requests, NEW phase, NEW next,
         job' = [job EXCEPT ![q].phase = phase, ![q].next = next]
  PROVE  GoesOn(q)
<1>1. PICK j : j = [job[q] EXCEPT !.phase = phase, !.next = next]
  OBVIOUS
<1>2. job' = [job EXCEPT ![q] = j] /\ j.kind = job[q].kind
  BY <1>1 DEF RequestInv, JobFields
<1> QED BY <1>2 DEF GoesOn

\* Who sends what: the steps of requests to accounts.
LEMMA AccountSteps ==
  ASSUME RequestInv, AccountNext
  PROVE  \E q \in Requests : StepOf(q, AccountKinds)
<1>1. PICK q \in Requests :
        \/ Register(q) \/ CreateAdmin(q) \/ Login(q) \/ Refresh(q) \/ ReadUser(q) \/ Rotate(q)
        \/ Logout(q) \/ LogoutAll(q) \/ InviteUser(q) \/ UpdateUserRole(q) \/ RevokeUser(q)
        \/ CountAdmins(q) \/ RecheckUser(q) \/ RevokeTokens(q) \/ ForgotPassword(q)
        \/ VerifyEmail(q) \/ ResendVerification(q) \/ ResetPassword(q) \/ CommitReset(q)
        \/ SaveAccount(q) \/ AccountFails(q)
  BY DEF AccountNext
<1>2. /\ TokenKinds \cup UserKinds \cup RecoveryKinds \subseteq AccountKinds
      /\ {"register", "login", "refresh", "logout", "logout_all"} \subseteq AccountKinds
      /\ {"invite_user", "user_role", "revoke_user"} \subseteq AccountKinds
      /\ {"forgot_password", "reset_password", "verify_email", "resend_email"} \subseteq AccountKinds
  BY DEF AccountKinds, TokenKinds, UserKinds, RecoveryKinds
<1>3. \A kind, phase, id, next, then :
        /\ AccountJob(kind, phase, id, next, then).kind = kind
        /\ Answered(kind, phase).kind = kind
  BY DEF AccountJob, Answered, NoJob
<1>4. CASE Register(q) \/ Login(q) \/ Refresh(q) \/ Logout(q) \/ LogoutAll(q)
  <2>1. CASE Register(q) \/ Logout(q) \/ LogoutAll(q)
    <3>1. \E j : Begins(q, j) /\ j.kind \in {"register", "logout", "logout_all"}
      BY <1>3, <2>1 DEF Register, Logout, LogoutAll
    <3> QED BY <1>2, <3>1 DEF StepOf
  <2>2. CASE Login(q)
    <3>1. PICK u \in Existing("user"), known \in BOOLEAN :
            Begins(q, IF rows[u].active /\ known
                      THEN AccountJob("login", "insert", u, Token(u, q), "ok")
                      ELSE Answered("login", "refused"))
      BY <2>2 DEF Login
    <3>2. PICK j : j = IF rows[u].active /\ known
                       THEN AccountJob("login", "insert", u, Token(u, q), "ok")
                       ELSE Answered("login", "refused")
      OBVIOUS
    <3>3. Begins(q, j) /\ j.kind = "login"
      BY <1>3, <3>1, <3>2
    <3> QED BY <1>2, <3>3 DEF StepOf
  <2>3. CASE Refresh(q)
    <3>1. PICK t \in Existing("token") : \E expired \in BOOLEAN :
            Begins(q, IF expired \/ rows[t].revoked THEN Answered("refresh", "refused")
                      ELSE AccountJob("refresh", "user", t,
                                      [rows[t] EXCEPT !.revoked = TRUE, !.replaced = TRUE], "ok"))
      BY <2>3, ZenonT(30) DEF Refresh
    <3>2. PICK j : /\ Begins(q, j)
                   /\ \/ j = Answered("refresh", "refused")
                      \/ j = AccountJob("refresh", "user", t,
                                        [rows[t] EXCEPT !.revoked = TRUE, !.replaced = TRUE], "ok")
      BY <3>1
    <3>3. Begins(q, j)
      BY <3>2
    <3>4. j.kind = "refresh"
      BY <1>3, <3>2
    <3> QED BY <1>2, <3>3, <3>4 DEF StepOf
  <2> QED BY <1>4, <2>1, <2>2, <2>3
<1>5. CASE InviteUser(q) \/ UpdateUserRole(q) \/ RevokeUser(q)
  <2>1. CASE InviteUser(q)
    <3>1. PICK r \in UserRoles, u \in Existing("user"), taken \in BOOLEAN :
            Begins(q, IF taken THEN Answered("invite_user", "refused")
                      ELSE AccountJob("invite_user", "insert", u, User(rows[u].org, r), "audit"))
      BY <2>1 DEF InviteUser
    <3>2. PICK j : j = IF taken THEN Answered("invite_user", "refused")
                       ELSE AccountJob("invite_user", "insert", u, User(rows[u].org, r), "audit")
      OBVIOUS
    <3>3. Begins(q, j) /\ j.kind = "invite_user"
      BY <1>3, <3>1, <3>2
    <3> QED BY <1>2, <3>3 DEF StepOf
  <2>2. CASE UpdateUserRole(q)
    <3>1. PICK u \in Existing("user"), r \in UserRoles :
            Begins(q, IF rows[u].role = r THEN Answered("user_role", "ok")
                      ELSE AccountJob("user_role", IF rows[u].role = "admin" THEN "count" ELSE "diff",
                                      u, [rows[u] EXCEPT !.role = r], "audit"))
      BY <2>2 DEF UpdateUserRole
    <3>2. PICK phase : phase = IF rows[u].role = "admin" THEN "count" ELSE "diff"
      OBVIOUS
    <3>3. PICK j : j = IF rows[u].role = r THEN Answered("user_role", "ok")
                       ELSE AccountJob("user_role", phase, u, [rows[u] EXCEPT !.role = r], "audit")
      OBVIOUS
    <3>4. Begins(q, j)
      BY <3>1, <3>2, <3>3
    <3>5. j.kind = "user_role"
      BY <1>3, <3>3
    <3> QED BY <1>2, <3>4, <3>5 DEF StepOf
  <2>3. CASE RevokeUser(q)
    <3>1. PICK u \in Existing("user") :
            Begins(q, AccountJob("revoke_user", IF rows[u].role = "admin" THEN "count" ELSE "diff", u,
                                 [rows[u] EXCEPT !.active = FALSE], "tokens"))
      BY <2>3 DEF RevokeUser
    <3>2. PICK phase : phase = IF rows[u].role = "admin" THEN "count" ELSE "diff"
      OBVIOUS
    <3>3. PICK j : j = AccountJob("revoke_user", phase, u, [rows[u] EXCEPT !.active = FALSE], "tokens")
      OBVIOUS
    <3>4. Begins(q, j)
      BY <3>1, <3>2, <3>3
    <3>5. j.kind = "revoke_user"
      BY <1>3, <3>3
    <3> QED BY <1>2, <3>4, <3>5 DEF StepOf
  <2> QED BY <1>5, <2>1, <2>2, <2>3
<1>6. CASE ForgotPassword(q) \/ VerifyEmail(q) \/ ResendVerification(q) \/ ResetPassword(q)
  <2>1. CASE ForgotPassword(q)
    <3>1. \E j : Begins(q, j) /\ j.kind = "forgot_password"
      BY <1>3, <2>1 DEF ForgotPassword, Recover
    <3> QED BY <1>2, <3>1 DEF StepOf
  <2>2. CASE VerifyEmail(q)
    <3>1. \E j : Begins(q, j) /\ j.kind = "verify_email"
      BY <1>3, <2>2 DEF VerifyEmail, Recover
    <3> QED BY <1>2, <3>1 DEF StepOf
  <2>3. CASE ResendVerification(q)
    <3>1. \E j : Begins(q, j) /\ j.kind = "resend_email"
      BY <1>3, <2>3 DEF ResendVerification, Recover
    <3> QED BY <1>2, <3>1 DEF StepOf
  <2>4. CASE ResetPassword(q)
    <3>1. \E j : Begins(q, j) /\ j.kind = "reset_password"
      BY <1>3, <2>4 DEF ResetPassword, Recover
    <3> QED BY <1>2, <3>1 DEF StepOf
  <2> QED BY <1>6, <2>1, <2>2, <2>3, <2>4
<1>7. CASE CreateAdmin(q)
  <2>1. PICK token : job' = [job EXCEPT ![q].phase = "insert", ![q].next = token]
    BY <1>7 DEF CreateAdmin
  <2>2. job[q].kind \in AccountKinds
    BY <1>2, <1>7 DEF CreateAdmin, At
  <2> QED BY <2>1, <2>2, GoingOnWith DEF StepOf
<1>8. CASE \/ ReadUser(q) \/ Rotate(q) \/ CountAdmins(q) \/ RecheckUser(q) \/ RevokeTokens(q)
           \/ CommitReset(q)
  <2>1. job[q].kind \in AccountKinds
    BY <1>2, <1>8 DEF ReadUser, Rotate, CountAdmins, RecheckUser, RevokeTokens, CommitReset, At
  <2>2. (\E phase : Goes(q, phase)) \/ (\E outcome : Ends(q, outcome))
    BY <1>8 DEF ReadUser, Rotate, CountAdmins, RecheckUser, RevokeTokens, CommitReset
  <2> QED BY <2>1, <2>2, GoingOn DEF StepOf
<1>9. CASE SaveAccount(q) \/ AccountFails(q)
  <2>1. job[q].kind \in AccountKinds
    BY <1>2, <1>9 DEF SaveAccount, AccountFails, InsertRow, DiffRow, WriteRow, AuditedRow, At
  <2>2. \/ \E phase : Goes(q, phase)
        \/ Fails(q)
        \/ \E table, kinds : InsertRow(q, kinds, table)
        \/ \E kinds : DiffRow(q, kinds)
    BY <1>9 DEF SaveAccount, AccountFails, WriteRow, AuditedRow
  <2> QED BY <2>1, <2>2, GoingOn DEF StepOf
<1> QED BY <1>1, <1>4, <1>5, <1>6, <1>7, <1>8, <1>9

\* A request that begins as a record of one of two kinds of records.
LEMMA BeginsAs ==
  ASSUME NEW q \in Requests, NEW K, NEW kind \in K, NEW j, Begins(q, j), j.kind = kind
  PROVE  StepOf(q, K)
BY DEF StepOf

LEMMA ReadTargetGoesOn ==
  ASSUME RequestInv, NEW q \in Requests, ReadTarget(q)
  PROVE  job[q].kind \in ManageKinds /\ GoesOn(q)
<1> DEFINE stored == rows[job[q].row]
           change == job[q].next
           next == [c \in DOMAIN stored |-> IF c \in DOMAIN change THEN change[c] ELSE stored[c]]
           phase == IF stored.role = "owner" /\ Dethrones(change) THEN "owners" ELSE "diff"
           then == AfterSave(job[q].kind)
           after == [job[q] EXCEPT !.phase = phase, !.next = next, !.then = then]
<1>1. job[q].kind \in ManageKinds
  BY ZenonT(30) DEF ReadTarget, At
<1>2. \/ Ends(q, "refused")
      \/ job' = [job EXCEPT ![q].phase = phase, ![q].next = next, ![q].then = then]
  BY ZenonT(30) DEF ReadTarget
<1>3. CASE Ends(q, "refused")
  BY <1>1, <1>3, GoingOn
<1>4. CASE job' = [job EXCEPT ![q].phase = phase, ![q].next = next, ![q].then = then]
  <2> HIDE DEF phase, next, then
  <2>1. job' = [job EXCEPT ![q] = after]
    BY <1>4 DEF RequestInv
  <2>2. after.kind = job[q].kind
    BY DEF RequestInv, JobFields
  <2>3. PICK k : k = after
    OBVIOUS
  <2> HIDE DEF after
  <2>4. job' = [job EXCEPT ![q] = k] /\ k.kind = job[q].kind
    BY <2>1, <2>2, <2>3
  <2>5. GoesOn(q)
    BY <2>4 DEF GoesOn
  <2> QED BY <1>1, <2>5
<1> HIDE DEF phase, next, then
<1> QED BY <1>2, <1>3, <1>4

\* The steps of requests to workspaces and members.
LEMMA MemberSteps ==
  ASSUME RequestInv, NEW q \in Requests,
         \/ ChangeRole(q) \/ SetStatus(q) \/ UpdateOrgMember(q) \/ RemoveOrgMember(q)
         \/ ReadTarget(q) \/ CountOwners(q) \/ CreateInvitation(q) \/ LookForPending(q)
         \/ RevokeInvitation(q) \/ AcceptInvitation(q) \/ CreateWorkspace(q) \/ UpdateWorkspace(q)
         \/ ArchiveWorkspace(q) \/ RemoveWorkspace(q) \/ WriteWorkspace(q) \/ SaveMember(q)
         \/ MemberFails(q)
  PROVE  StepOf(q, MemberKinds)
<1>1. /\ ManageKinds \cup InviteKinds \cup WorkspaceKinds \subseteq MemberKinds
      /\ {"member_role", "member_suspend", "member_restore", "member_remove"} \subseteq MemberKinds
      /\ {"orgmember_role", "orgmember_remove"} \subseteq MemberKinds
      /\ {"invitation_create", "invitation_revoke", "invitation_accept"} \subseteq MemberKinds
      /\ {"workspace_create", "workspace_update", "workspace_archive",
          "workspace_restore", "workspace_remove"} \subseteq MemberKinds
  BY DEF MemberKinds, ManageKinds, InviteKinds, WorkspaceKinds
<1>2. \A kind, phase, id, next, then :
        /\ Request(kind, phase, id, next).kind = kind
        /\ [Request(kind, phase, id, next) EXCEPT !.then = then].kind = kind
        /\ [Request(kind, phase, id, next) EXCEPT !.dirty = then].kind = kind
        /\ Answered(kind, phase).kind = kind
        /\ Copy(kind, NoProcess, id, next, then).kind = kind
  BY DEF Request, Answered, NoJob, Copy
<1>3. ASSUME NEW table, NEW kind \in MemberKinds, NEW change, ManageMember(q, table, kind, change)
      PROVE  StepOf(q, MemberKinds)
  <2>1. PICK caller \in Existing(table), id \in Existing(table) :
          Begins(q, IF MayManage(caller)
                    THEN [Request(kind, "target", id, change) EXCEPT !.then = rows[caller].role]
                    ELSE Answered(kind, "refused"))
    BY <1>3 DEF ManageMember
  <2>2. PICK role : role = rows[caller].role
    OBVIOUS
  <2>3. PICK j : j = IF MayManage(caller)
                     THEN [Request(kind, "target", id, change) EXCEPT !.then = role]
                     ELSE Answered(kind, "refused")
    OBVIOUS
  <2>4. Begins(q, j)
    BY <2>1, <2>2, <2>3
  <2>5. j.kind = kind
    BY <1>2, <2>3
  <2> QED BY <2>4, <2>5, BeginsAs
<1>4. CASE ChangeRole(q) \/ SetStatus(q) \/ UpdateOrgMember(q) \/ RemoveOrgMember(q)
  <2>1. CASE ChangeRole(q)
    BY <1>1, <1>3, <2>1 DEF ChangeRole
  <2>2. CASE SetStatus(q)
    BY <1>1, <1>3, <2>2 DEF SetStatus
  <2>3. CASE UpdateOrgMember(q)
    BY <1>1, <1>3, <2>3 DEF UpdateOrgMember
  <2>4. CASE RemoveOrgMember(q)
    BY <1>1, <1>3, <2>4 DEF RemoveOrgMember
  <2> QED BY <1>4, <2>1, <2>2, <2>3, <2>4
<1>5. CASE ReadTarget(q) \/ CountOwners(q) \/ LookForPending(q)
  <2>1. job[q].kind \in MemberKinds
    <3>1. CASE ReadTarget(q) \/ CountOwners(q)
      BY <1>1, <3>1, ReadTargetGoesOn DEF CountOwners, At
    <3>2. CASE LookForPending(q)
      BY <1>1, <3>2 DEF LookForPending, At
    <3> QED BY <1>5, <3>1, <3>2
  <2>2. CASE CountOwners(q) \/ LookForPending(q)
    <3>1. (\E phase : Goes(q, phase)) \/ (\E outcome : Ends(q, outcome))
      BY <2>2 DEF CountOwners, LookForPending
    <3> QED BY <2>1, <3>1, GoingOn DEF StepOf
  <2>3. CASE ReadTarget(q)
    BY <1>1, <2>3, ReadTargetGoesOn DEF StepOf
  <2> QED BY <1>5, <2>2, <2>3
<1>6. ASSUME NEW id, NEW kind \in MemberKinds, NEW allowed, NEW next, NEW then,
             Edits(q, kind, NoProcess, id, allowed, next, then)
      PROVE  StepOf(q, MemberKinds)
  <2>1. PICK j : /\ Begins(q, j)
                 /\ j = Copy(kind, NoProcess, id, next, then) \/ j = Answered(kind, "refused")
    BY <1>6 DEF Edits
  <2> QED BY <1>2, <2>1, BeginsAs
<1>7. CASE CreateInvitation(q) \/ RevokeInvitation(q) \/ AcceptInvitation(q)
  <2>1. CASE CreateInvitation(q)
    <3>1. PICK caller \in Existing("member"), u \in Users, r \in WorkspaceRoles :
            Begins(q, IF MayManage(caller) /\ (r = "owner" => rows[caller].role = "owner")
                      THEN Request("invitation_create", "pending", caller,
                                   Invitation(rows[caller].home, u, r))
                      ELSE Answered("invitation_create", "refused"))
      BY <2>1 DEF CreateInvitation
    <3>2. PICK j : /\ Begins(q, j)
                   /\ \/ j = Request("invitation_create", "pending", caller,
                                     Invitation(rows[caller].home, u, r))
                      \/ j = Answered("invitation_create", "refused")
      BY <3>1
    <3> QED BY <1>1, <1>2, <3>2, BeginsAs
  <2>2. CASE RevokeInvitation(q)
    <3>1. PICK id \in Existing("invitation") :
            Edits(q, "invitation_revoke", NoProcess, id, rows[id].status = "pending",
                  [rows[id] EXCEPT !.status = "revoked"], "ok")
      BY <2>2 DEF RevokeInvitation
    <3> QED BY <1>1, <1>6, <3>1
  <2>3. CASE AcceptInvitation(q)
    <3>1. PICK id \in Existing("invitation"), u \in Users :
            LET inv == rows[id]
                mine == {m \in Existing("member") : rows[m].home = inv.home /\ rows[m].user = u}
                seat == IF mine = {} THEN FirstFree("member") ELSE CHOOSE m \in mine : TRUE
                again == inv.status = "accepted" /\ mine # {}
                ok == inv.email = u /\ inv.status = "pending" /\ ~inv.due
                resigns == ok /\ mine # {} /\ inv.role # "owner" /\ OnlyOwner(seat)
            IN Begins(q, [kind |-> "invitation_accept", at |-> NoProcess,
                          phase |-> IF inv.email = u /\ (ok \/ again) THEN "ok" ELSE "refused",
                          resigned |-> IF resigns THEN {inv.home} ELSE {}])
      BY <2>3 DEF AcceptInvitation
    <3> DEFINE inv == rows[id]
               mine == {m \in Existing("member") : rows[m].home = inv.home /\ rows[m].user = u}
               seat == IF mine = {} THEN FirstFree("member") ELSE CHOOSE m \in mine : TRUE
               again == inv.status = "accepted" /\ mine # {}
               ok == inv.email = u /\ inv.status = "pending" /\ ~inv.due
               resigns == ok /\ mine # {} /\ inv.role # "owner" /\ OnlyOwner(seat)
               j == [kind |-> "invitation_accept", at |-> NoProcess,
                     phase |-> IF inv.email = u /\ (ok \/ again) THEN "ok" ELSE "refused",
                     resigned |-> IF resigns THEN {inv.home} ELSE {}]
    <3>2. Begins(q, j) /\ j.kind = "invitation_accept"
      BY <3>1
    <3> HIDE DEF j
    <3> QED BY <1>1, <3>2, BeginsAs
  <2> QED BY <1>7, <2>1, <2>2, <2>3
<1>8. CASE CreateWorkspace(q)
  <2>1. PICK outcome : Begins(q, Answered("workspace_create", outcome))
    BY <1>8 DEF CreateWorkspace
  <2> QED BY <1>1, <1>2, <2>1, BeginsAs
<1>9. CASE UpdateWorkspace(q) \/ ArchiveWorkspace(q)
  <2>1. \E id, allowed, next : \E kind \in MemberKinds :
          Edits(q, kind, NoProcess, id, allowed, next, "ok")
    BY <1>1, <1>9 DEF UpdateWorkspace, ArchiveWorkspace, EditWorkspace
  <2> QED BY <1>6, <2>1
<1>10. CASE RemoveWorkspace(q)
  <2>1. PICK caller \in Existing("member") :
          \E allowed \in BOOLEAN :
            Begins(q, IF allowed
                      THEN [Request("workspace_remove", "write", rows[caller].home,
                                    [rows[rows[caller].home] EXCEPT !.deleted = TRUE])
                              EXCEPT !.dirty = {"deleted"}]
                      ELSE Answered("workspace_remove", "refused"))
    BY <1>10 DEF RemoveWorkspace
  <2>2. PICK next : next = [rows[rows[caller].home] EXCEPT !.deleted = TRUE]
    OBVIOUS
  <2>3. PICK id : id = rows[caller].home
    OBVIOUS
  <2>4. PICK j : /\ Begins(q, j)
                 /\ \/ j = [Request("workspace_remove", "write", id, next) EXCEPT !.dirty = {"deleted"}]
                    \/ j = Answered("workspace_remove", "refused")
    BY <2>1, <2>2, <2>3
  <2>5. j.kind = "workspace_remove"
    BY <2>4 DEF Request, Answered, NoJob
  <2> QED BY <1>1, <2>4, <2>5, BeginsAs
<1>11. CASE WriteWorkspace(q) \/ SaveMember(q) \/ MemberFails(q)
  <2>1. job[q].kind \in MemberKinds
    BY <1>1, <1>11 DEF WriteWorkspace, SaveMember, MemberFails, InsertRow, DiffRow, WriteRow, At
  <2>2. \/ \E phase : Goes(q, phase)
        \/ Fails(q)
        \/ \E table, kinds : InsertRow(q, kinds, table)
        \/ \E kinds : DiffRow(q, kinds)
    BY <1>11 DEF WriteWorkspace, SaveMember, MemberFails, WriteRow
  <2> QED BY <2>1, <2>2, GoingOn DEF StepOf
<1> QED BY <1>4, <1>5, <1>7, <1>8, <1>9, <1>10, <1>11

\* What sockets do leaves the requests alone or goes on with one that disconnects a member.
LEMMA SocketSteps ==
  ASSUME RequestInv, SocketNext
  PROVE  /\ UNCHANGED rows
         /\ UNCHANGED requestVars \/ \E q \in Requests : StepOf(q, MemberKinds)
<1>1. CASE \E s \in Sockets :
             \/ HandleConnection(s) \/ HandleDisconnect(s)
             \/ ObeyOrder(s)
             \/ \E room \in ClientRooms :
                  HandleJoinRoom(s, room) \/ Join(s, room) \/ HandleLeaveRoom(s, room)
  BY <1>1 DEF HandleConnection, HandleDisconnect, ObeyOrder, HandleJoinRoom, Join, HandleLeaveRoom
<1>2. {"member_suspend", "member_remove"} \subseteq MemberKinds
  BY DEF MemberKinds, ManageKinds
<1>3. ASSUME NEW q \in Requests, FetchSockets(q)
      PROVE  UNCHANGED rows /\ StepOf(q, MemberKinds)
  <2>1. PICK p, next : job' = [job EXCEPT ![q].phase = "kick", ![q].at = p, ![q].next = next]
    BY <1>3 DEF FetchSockets, Fetched
  <2>2. PICK j : j = [job[q] EXCEPT !.phase = "kick", !.at = p, !.next = next]
    OBVIOUS
  <2>3. job' = [job EXCEPT ![q] = j] /\ j.kind = job[q].kind
    BY <2>1, <2>2 DEF RequestInv, JobFields
  <2> QED BY <1>2, <1>3, <2>3 DEF FetchSockets, Fetched, At, StepOf, GoesOn
<1>4. ASSUME NEW q \in Requests, NEW s \in Sockets, Kick(q, s)
      PROVE  UNCHANGED rows /\ StepOf(q, MemberKinds)
  <2>1. PICK next : next = job[q].next \ {s}
    OBVIOUS
  <2>2. PICK j : j = [job[q] EXCEPT !.next = next]
    OBVIOUS
  <2>3. job' = [job EXCEPT ![q] = j] /\ j.kind = job[q].kind
    BY <1>4, <2>1, <2>2 DEF Kick, RequestInv, JobFields
  <2> QED BY <1>2, <1>4, <2>3 DEF Kick, At, StepOf, GoesOn
<1>5. ASSUME NEW q \in Requests, KickedAll(q)
      PROVE  UNCHANGED rows /\ StepOf(q, MemberKinds)
  BY <1>2, <1>5, GoingOn DEF KickedAll, At, StepOf
<1> QED BY <1>1, <1>3, <1>4, <1>5 DEF SocketNext

(* What the requests of one part leave alone of the other's. *)

MemberTables == {"workspace", "member", "invitation", "orgmember"}
UserTables == {"user", "token"}

LEMMA NothingTouched ==
  ASSUME UNCHANGED rows, NEW tables
  PROVE  Kept(tables)
BY DEF Kept

LEMMA RowsTouched ==
  ASSUME rows = [x \in DOMAIN rows |-> rows[x]], NEW a, NEW b, NEW r, NEW s, NEW tables,
         rows' = [rows EXCEPT ![a] = r, ![b] = s],
         a[1] \notin tables, b[1] \notin tables
  PROVE  Kept(tables)
BY DEF Kept

LEMMA RowTouched ==
  ASSUME rows = [x \in DOMAIN rows |-> rows[x]], NEW a, NEW r, NEW tables,
         rows' = [rows EXCEPT ![a] = r], a[1] \notin tables
  PROVE  Kept(tables)
BY DEF Kept

LEMMA AccountsTouchUsers ==
  ASSUME AccountInv, AccountNext
  PROVE  Kept(MemberTables)
<1>1. PICK q \in Requests :
        \/ Register(q) \/ CreateAdmin(q) \/ Login(q) \/ Refresh(q) \/ ReadUser(q) \/ Rotate(q)
        \/ Logout(q) \/ LogoutAll(q) \/ InviteUser(q) \/ UpdateUserRole(q) \/ RevokeUser(q)
        \/ CountAdmins(q) \/ RecheckUser(q) \/ RevokeTokens(q) \/ ForgotPassword(q)
        \/ VerifyEmail(q) \/ ResendVerification(q) \/ ResetPassword(q) \/ CommitReset(q)
        \/ SaveAccount(q) \/ AccountFails(q)
  BY DEF AccountNext
<1>2. rows = [x \in DOMAIN rows |-> rows[x]] /\ {"user", "token"} \cap MemberTables = {}
  BY DEF AccountInv, AccountTables, MemberTables
<1>3. \A table \in {"user", "token"} : Free(table) # {} => FirstFree(table)[1] = table
  BY FreeIdExists DEF AccountInv
<1>4. \A id : id \in Existing("user") \cup Existing("token") => id[1] \in {"user", "token"}
  BY DEF Existing, Ids
<1>5. CASE \/ Register(q) \/ Login(q) \/ Refresh(q) \/ ReadUser(q) \/ InviteUser(q)
           \/ UpdateUserRole(q) \/ RevokeUser(q) \/ CountAdmins(q) \/ RecheckUser(q)
           \/ AccountFails(q)
  <2>1. UNCHANGED rows
    BY <1>5, ZenonT(60) DEF Register, Login, Refresh, ReadUser, InviteUser, UpdateUserRole,
                            RevokeUser, CountAdmins, RecheckUser, AccountFails
  <2> QED BY <2>1, NothingTouched
<1>6. CASE ForgotPassword(q) \/ VerifyEmail(q) \/ ResendVerification(q) \/ ResetPassword(q)
  <2>1. UNCHANGED rows
    BY <1>6, ZenonT(60) DEF ForgotPassword, VerifyEmail, ResendVerification, ResetPassword,
                            Recover
  <2> QED BY <2>1, NothingTouched
<1>7. CASE CreateAdmin(q)
  <2>1. PICK r : rows' = [rows EXCEPT ![FirstFree("user")] = r]
    BY <1>7 DEF CreateAdmin
  <2>2. FirstFree("user")[1] = "user"
    BY <1>3, <1>7 DEF CreateAdmin
  <2>3. PICK id : id = FirstFree("user")
    OBVIOUS
  <2> QED BY <1>2, <2>1, <2>2, <2>3, RowTouched
<1>8. CASE Rotate(q)
  <2>1. PICK r : rows' = [rows EXCEPT ![FirstFree("token")] = r, ![job[q].row] = job[q].next]
    BY <1>8 DEF Rotate
  <2>2. FirstFree("token")[1] = "token"
    BY <1>3, <1>8 DEF Rotate
  <2>3. job[q].row[1] = "token"
    BY <1>8 DEF Rotate, At, AccountInv, TokenJobOK, RefreshOK, Existing, Ids
  <2>4. PICK id, old, next : id = FirstFree("token") /\ old = job[q].row /\ next = job[q].next
    OBVIOUS
  <2>5. rows' = [rows EXCEPT ![id] = r, ![old] = next] /\ id[1] = "token" /\ old[1] = "token"
    BY <2>1, <2>2, <2>3, <2>4
  <2> QED BY <1>2, <2>5, RowsTouched
<1>9. CASE Logout(q)
  <2>1. PICK t \in Existing("token") : rows' = [rows EXCEPT ![t].revoked = TRUE]
    BY <1>9 DEF Logout
  <2>2. PICK r : r = [rows[t] EXCEPT !.revoked = TRUE]
    OBVIOUS
  <2>3. rows' = [rows EXCEPT ![t] = r]
    BY <2>1, <2>2
  <2> QED BY <1>2, <1>4, <2>3, RowTouched
<1>10. CASE LogoutAll(q) \/ RevokeTokens(q)
  <2>1. PICK u : rows' = OfUser(u)
    BY <1>10 DEF LogoutAll, RevokeTokens
  <2>2. \A id \in DOMAIN rows : id[1] \in MemberTables => id \notin Existing("token")
    BY <1>2, <1>4
  <2> QED BY <2>1, <2>2, OfUserRows DEF Kept
<1>11. CASE CommitReset(q)
  <2>1. job[q].kind = "reset_password" /\ job[q].phase = "write"
    BY <1>11 DEF CommitReset, At
  <2>2. ChangeOK(q)
    BY <2>1 DEF AccountInv, UserJobOK, RecoveryKinds
  <2>3. PICK id : id = job[q].row
    OBVIOUS
  <2>4. id[1] = "user"
    BY <2>2, <2>3 DEF ChangeOK, Existing, Ids
  <2>5. PICK before : before = OfUser(id)
    OBVIOUS
  <2>6. \E r : rows' = [before EXCEPT ![id] = r]
    BY <1>11, <2>3, <2>5 DEF CommitReset
  <2>7. /\ before = [x \in DOMAIN rows |-> before[x]]
        /\ \A x \in DOMAIN rows : x[1] \in MemberTables => before[x] = rows[x]
    <3>1. \A x \in DOMAIN rows : x[1] \in MemberTables => x \notin Existing("token")
      BY <1>2, <1>4
    <3> QED BY <2>5, <3>1, OfUserRows
  <2> QED BY <1>2, <2>4, <2>6, <2>7 DEF Kept
<1>12. CASE SaveAccount(q)
  <2>1. CASE DiffRow(q, AccountKinds) \/ AuditedRow(q, AccountKinds)
    BY <2>1, NothingTouched DEF DiffRow, AuditedRow
  <2>2. ASSUME NEW table \in {"user", "token"}, NEW kinds, InsertRow(q, kinds, table)
        PROVE  Kept(MemberTables)
    <3>1. rows' = [rows EXCEPT ![FirstFree(table)] = job[q].next] /\ FirstFree(table)[1] = table
      BY <1>3, <2>2 DEF InsertRow
    <3>2. PICK id, next : id = FirstFree(table) /\ next = job[q].next
      OBVIOUS
    <3> QED BY <1>2, <3>1, <3>2, RowTouched
  <2>3. CASE WriteRow(q, AccountKinds \ {"reset_password"})
    <3>1. job[q].kind \in AccountKinds /\ job[q].phase = "write"
      BY <2>3 DEF WriteRow, At
    <3>2. ChangeOK(q)
      BY <3>1, ChangingKind
    <3>3. PICK id : id = job[q].row
      OBVIOUS
    <3>4. id[1] = "user"
      BY <3>2, <3>3 DEF ChangeOK, Existing, Ids
    <3>5. PICK r : r = Written(rows[id], job[q].next, job[q].dirty)
      OBVIOUS
    <3>6. rows' = [rows EXCEPT ![id] = r]
      BY <2>3, <3>3, <3>5 DEF WriteRow
    <3> QED BY <1>2, <3>4, <3>6, RowTouched
  <2> QED BY <1>12, <2>1, <2>2, <2>3 DEF SaveAccount
<1> QED BY <1>1, <1>5, <1>6, <1>7, <1>8, <1>9, <1>10, <1>11, <1>12

LEMMA MembersTouchSeats ==
  ASSUME MemberInv, MemberNext
  PROVE  Kept(UserTables)
<1>1. rows = [x \in DOMAIN rows |-> rows[x]] /\ MemberTables \cap UserTables = {}
  BY DEF MemberInv, SeatsInv, MemberTables, UserTables
<1>2. \A table : Free(table) # {} => FirstFree(table)[1] = table
  BY FreeSeat DEF MemberInv
<1>3. \A table : \A id \in Ids(table) : id[1] = table
  BY DEF Ids
<1>4. \A table : Existing(table) \subseteq Ids(table)
  BY DEF Existing
<1>5. ASSUME NEW id \in Ids("invitation"), FallDue(id)
      PROVE  Kept(UserTables)
  <2>1. PICK r : r = [rows[id] EXCEPT !.due = TRUE]
    OBVIOUS
  <2>2. rows' = [rows EXCEPT ![id] = r]
    BY <1>5, <2>1 DEF FallDue
  <2>3. id[1] = "invitation"
    BY <1>3
  <2>4. id[1] \notin UserTables
    BY <2>3 DEF UserTables
  <2> QED BY <1>1, <2>2, <2>4, RowTouched
<1>6. ASSUME NEW q \in Requests,
             ChangeRole(q) \/ SetStatus(q) \/ UpdateOrgMember(q) \/ RemoveOrgMember(q)
      PROVE  Kept(UserTables)
  <2>1. UNCHANGED rows
    BY <1>6, ZenonT(60) DEF ChangeRole, SetStatus, UpdateOrgMember, RemoveOrgMember, ManageMember
  <2> QED BY <2>1, NothingTouched
<1>7. ASSUME NEW q \in Requests,
             \/ ReadTarget(q) \/ CountOwners(q) \/ CreateInvitation(q) \/ LookForPending(q)
             \/ RevokeInvitation(q) \/ UpdateWorkspace(q) \/ ArchiveWorkspace(q)
             \/ RemoveWorkspace(q) \/ MemberFails(q)
      PROVE  Kept(UserTables)
  <2>1. UNCHANGED rows
    BY <1>7, ZenonT(60) DEF ReadTarget, CountOwners, CreateInvitation, LookForPending,
                            RevokeInvitation, UpdateWorkspace, ArchiveWorkspace, EditWorkspace,
                            RemoveWorkspace, MemberFails
  <2> QED BY <2>1, NothingTouched
<1>8. ASSUME NEW q \in Requests, AcceptInvitation(q)
      PROVE  Kept(UserTables)
  <2>1. PICK id \in Existing("invitation"), u \in Users :
          LET inv == rows[id]
              mine == {m \in Existing("member") : rows[m].home = inv.home /\ rows[m].user = u}
              seat == IF mine = {} THEN FirstFree("member") ELSE CHOOSE m \in mine : TRUE
              again == inv.status = "accepted" /\ mine # {}
              ok == inv.email = u /\ inv.status = "pending" /\ ~inv.due
              resigns == ok /\ mine # {} /\ inv.role # "owner" /\ OnlyOwner(seat)
          IN /\ ok /\ mine = {} => Free("member") # {}
             /\ Begins(q, [kind |-> "invitation_accept", at |-> NoProcess,
                           phase |-> IF inv.email = u /\ (ok \/ again) THEN "ok" ELSE "refused",
                           resigned |-> IF resigns THEN {inv.home} ELSE {}])
             /\ rows' = IF ok THEN [rows EXCEPT ![seat] = Member(inv.home, u, inv.role),
                                                ![id].status = "accepted"]
                        ELSE rows
    BY <1>8 DEF AcceptInvitation
  <2> DEFINE inv == rows[id]
             mine == {m \in Existing("member") : rows[m].home = inv.home /\ rows[m].user = u}
             seat == IF mine = {} THEN FirstFree("member") ELSE CHOOSE m \in mine : TRUE
             ok == inv.email = u /\ inv.status = "pending" /\ ~inv.due
  <2>2. CASE ~ok
    BY <2>1, <2>2, NothingTouched
  <2>3. CASE ok
    <3>1. /\ mine = {} => Free("member") # {}
          /\ rows' = [rows EXCEPT ![seat] = Member(inv.home, u, inv.role), ![id].status = "accepted"]
      BY <2>1, <2>3
    <3>2. seat[1] = "member"
      <4>1. CASE mine = {}
        <5>1. seat = FirstFree("member")
          BY <4>1
        <5> HIDE DEF seat
        <5> QED BY <1>2, <3>1, <4>1, <5>1
      <4>2. CASE mine # {}
        <5>1. seat \in mine
          BY <4>2
        <5> HIDE DEF seat
        <5> QED BY <1>3, <1>4, <5>1
      <4> QED BY <4>1, <4>2
    <3>3. id[1] = "invitation"
      BY <1>3, <1>4
    <3> HIDE DEF seat, mine, ok
    <3>4. rows' = [rows EXCEPT ![seat] = Member(inv.home, u, inv.role),
                               ![id] = [rows[id] EXCEPT !.status = "accepted"]]
      BY <1>1, <3>1, <3>2, <3>3
    <3>5. seat[1] \notin UserTables /\ id[1] \notin UserTables
      BY <3>2, <3>3 DEF UserTables
    <3>6. PICK there, a, b : /\ there = seat /\ a = Member(inv.home, u, inv.role)
                             /\ b = [rows[id] EXCEPT !.status = "accepted"]
      OBVIOUS
    <3> QED BY <1>1, <3>4, <3>5, <3>6, RowsTouched
  <2> QED BY <2>2, <2>3
<1>9. ASSUME NEW q \in Requests, CreateWorkspace(q)
      PROVE  Kept(UserTables)
  <2>1. PICK m \in Existing("orgmember") :
          /\ Free("workspace") # {} /\ Free("member") # {}
          /\ rows' = IF rows[m].status = "active"
                     THEN [rows EXCEPT ![FirstFree("workspace")] = Workspace("new"),
                                       ![FirstFree("member")] =
                                          Member(FirstFree("workspace"), rows[m].user, "owner")]
                     ELSE rows
    BY <1>9 DEF CreateWorkspace
  <2>2. PICK w, seat, a, b : /\ w = FirstFree("workspace") /\ seat = FirstFree("member")
                             /\ a = Workspace("new") /\ b = Member(w, rows[m].user, "owner")
    OBVIOUS
  <2>3. w[1] = "workspace" /\ seat[1] = "member"
    BY <1>2, <2>1, <2>2
  <2>4. w[1] \notin UserTables /\ seat[1] \notin UserTables
    BY <2>3 DEF UserTables
  <2>5. rows' = [rows EXCEPT ![w] = a, ![seat] = b] \/ UNCHANGED rows
    BY <2>1, <2>2
  <2> QED BY <1>1, <2>4, <2>5, RowsTouched, NothingTouched
<1>10. ASSUME NEW q \in Requests, WriteWorkspace(q)
       PROVE  Kept(UserTables)
  <2>1. job[q].kind \in WorkspaceKinds /\ job[q].phase = "write"
    BY <1>10 DEF WriteWorkspace, At
  <2>2. job[q].row \in Ids("workspace")
    BY <2>1 DEF MemberInv, MemberJobOK, OtherJobOK
  <2>3. PICK id : id = job[q].row
    OBVIOUS
  <2>4. id[1] = "workspace"
    BY <1>3, <2>2, <2>3
  <2>5. id[1] \notin UserTables
    BY <2>4 DEF UserTables
  <2>6. \E r : rows' = [rows EXCEPT ![id] = r]
    BY <1>10, <2>3 DEF WriteWorkspace
  <2> QED BY <1>1, <2>5, <2>6, RowTouched
<1>11. ASSUME NEW q \in Requests, SaveMember(q)
       PROVE  Kept(UserTables)
  <2>1. CASE DiffRow(q, MemberKinds)
    BY <2>1, NothingTouched DEF DiffRow
  <2>2. CASE InsertRow(q, InviteKinds, "invitation")
    <3>1. /\ rows' = [rows EXCEPT ![FirstFree("invitation")] = job[q].next]
          /\ FirstFree("invitation")[1] = "invitation"
      BY <1>2, <2>2 DEF InsertRow
    <3>2. PICK id, next : id = FirstFree("invitation") /\ next = job[q].next
      OBVIOUS
    <3>3. id[1] \notin UserTables
      BY <3>1, <3>2 DEF UserTables
    <3> QED BY <1>1, <3>1, <3>2, <3>3, RowTouched
  <2>3. CASE WriteRow(q, ManageKinds \cup InviteKinds)
    <3>1. job[q].kind \in ManageKinds \cup InviteKinds /\ job[q].phase = "write"
      BY <2>3 DEF WriteRow, At
    <3>2. MemberJobOK(q)
      BY DEF MemberInv
    <3>3. \E table \in MemberTables : job[q].row \in Existing(table)
      <4>1. CASE job[q].kind \in ManageKinds
        <5>1. job[q].row \in Existing(SeatTable(job[q].kind))
          BY <3>1, <3>2, <4>1 DEF MemberJobOK, ManageJobOK
        <5>2. SeatTable(job[q].kind) \in MemberTables
          BY DEF SeatTable, MemberTables
        <5> QED BY <5>1, <5>2
      <4>2. CASE job[q].kind \in InviteKinds
        <5>1. job[q].kind = "invitation_revoke"
          BY <3>1, <3>2, <4>2 DEF InviteKinds, MemberJobOK, OtherJobOK, Outcomes
        <5>2. job[q].row \in Existing("invitation")
          BY <3>1, <3>2, <5>1 DEF MemberJobOK, OtherJobOK
        <5> QED BY <5>2 DEF MemberTables
      <4> QED BY <3>1, <4>1, <4>2
    <3>4. PICK id : id = job[q].row
      OBVIOUS
    <3>5. id[1] \notin UserTables
      BY <1>1, <1>3, <1>4, <3>3, <3>4
    <3>6. PICK r : r = Written(rows[id], job[q].next, job[q].dirty)
      OBVIOUS
    <3>7. rows' = [rows EXCEPT ![id] = r]
      BY <2>3, <3>4, <3>6 DEF WriteRow
    <3> QED BY <1>1, <3>5, <3>7, RowTouched
  <2> QED BY <1>11, <2>1, <2>2, <2>3 DEF SaveMember
<1> QED BY <1>5, <1>6, <1>7, <1>8, <1>9, <1>10, <1>11 DEF MemberNext

\* Tables that are left alone keep their rows, and so their owners and their admins.
LEMMA KeptRows ==
  ASSUME NEW tables, Kept(tables), NEW table \in tables
  PROVE  /\ Existing(table)' = Existing(table)
         /\ \A id \in Existing(table) : rows'[id] = rows[id]
<1>1. Ids(table)' = Ids(table) /\ \A id \in Ids(table) : rows'[id] = rows[id]
  BY DEF Kept, Ids
<1> QED BY <1>1 DEF Existing, Has

LEMMA KeptOwners ==
  ASSUME OwnerRemains, Only(AccountKinds), Kept(MemberTables)
  PROVE  OwnerRemains'
<1>1. \A q \in Requests : job[q].kind \notin ManageKinds /\ job[q].kind # "invitation_accept"
  <2>1. ManageKinds \cup {"invitation_accept"} \subseteq MemberKinds
    BY DEF MemberKinds, InviteKinds
  <2> QED BY <2>1, KindsApart DEF Only
<1> SUFFICES ASSUME NEW table \in {"member", "orgmember"}, NEW id \in Existing(table)'
             PROVE  Owners(table, rows[id].home)' # {}
  BY DEF OwnerRemains
<1>2. /\ Existing(table)' = Existing(table)
      /\ \A x \in Existing(table) : rows'[x] = rows[x]
  BY KeptRows DEF MemberTables
<1>3. Owners(table, rows[id].home) # {}
  BY <1>1, <1>2 DEF OwnerRemains
<1> QED BY <1>2, <1>3 DEF Owners

LEMMA KeptAdmins ==
  ASSUME AdminRemains, Only(MemberKinds), Kept(UserTables)
  PROVE  AdminRemains'
<1>1. \A q \in Requests : job[q].kind \notin UserKinds \cup RecoveryKinds
  <2>1. UserKinds \cup RecoveryKinds \subseteq AccountKinds
    BY DEF AccountKinds
  <2> QED BY <2>1, KindsApart DEF Only
<1>2. \A u \in Existing("user") : ActiveAdmins(rows[u].org) # {}
  BY <1>1 DEF AdminRemains
<1>3. /\ Existing("user")' = Existing("user")
      /\ \A u \in Existing("user") : rows'[u] = rows[u]
  BY KeptRows DEF UserTables
<1>4. \A u \in Existing("user") : ActiveAdmins(rows[u].org)' = ActiveAdmins(rows[u].org)
  BY <1>3 DEF ActiveAdmins
<1> QED BY <1>2, <1>3, <1>4 DEF AdminRemains, ActiveAdmins

\* Members or accounts have sent requests, never both; the side that has sent none keeps its
\* rows.  While nobody has, both invariants hold.
ServerInv ==
  /\ RequestInv
  /\ Only(MemberKinds) \/ Only(AccountKinds)
  /\ Only(MemberKinds) => RealtimeInv
  /\ Only(AccountKinds) => AccountInv
  /\ Only({}) => Existing("invitation") = {}
  /\ OwnerRemains /\ AdminRemains

LEMMA NobodyMeans ==
  /\ Only({}) => Only(MemberKinds) /\ Only(AccountKinds) /\ ~Begun
  /\ Only(SocketKinds) => Only(MemberKinds)
  /\ Only(MemberKinds) /\ Only(AccountKinds) => Only({})
  /\ Begun => ~Only({})
BY KindsApart DEF Only, Begun

LEMMA ServerStays ==
  ASSUME ServerInv, UNCHANGED <<requestVars, rows>>, RealtimeInv => RealtimeInv'
  PROVE  ServerInv'
<1>1. UNCHANGED <<job, alone, rows>>
  BY DEF requestVars
<1>2. \A kinds : Only(kinds)' <=> Only(kinds)
  BY <1>1 DEF Only
<1>3. RequestInv' /\ Existing("invitation")' = Existing("invitation")
  BY <1>1 DEF ServerInv, RequestInv, Solitude, Busy, Existing, Ids, Has
<1>4. OwnerRemains' /\ AdminRemains'
  BY <1>1 DEF ServerInv, OwnerRemains, Owners, AdminRemains, ActiveAdmins, Existing, Ids, Has
<1>5. Only(AccountKinds)' => AccountInv'
  BY <1>2, AccountsStay DEF ServerInv
<1> QED BY <1>2, <1>3, <1>4, <1>5 DEF ServerInv

LEMMA MembersServed ==
  ASSUME ServerInv, Only(MemberKinds), MemberNext, UNCHANGED realtimeVars
  PROVE  ServerInv'
<1>1. RealtimeInv /\ MemberInv
  BY DEF ServerInv, RealtimeInv
<1>2. RealtimeInv' /\ MemberInv'
  BY <1>1, MemberNextStep DEF RealtimeInv
<1>3. RequestInv' /\ OwnerRemains'
  BY <1>2 DEF MemberInv
<1>4. AdminRemains'
  BY <1>1, MembersTouchSeats, KeptAdmins DEF ServerInv
<1>5. Only(MemberKinds)' /\ ~Only({})'
  <2>1. ASSUME NEW q \in Requests, StepOf(q, MemberKinds)
        PROVE  Only(MemberKinds)' /\ ~Only({})'
    <3>1. Only(MemberKinds)' /\ Begun'
      BY <2>1, KindsApart, KindsStay DEF ServerInv
    <3> QED BY <3>1 DEF Only, Begun
  <2>2. ASSUME NEW id \in Ids("invitation"), FallDue(id)
        PROVE  Only(MemberKinds)' /\ ~Only({})'
    <3>1. UNCHANGED job /\ id \in Existing("invitation")
      BY <2>2 DEF FallDue, requestVars, Existing
    <3>2. ~Only({})
      BY <3>1 DEF ServerInv
    <3> QED BY <3>1, <3>2 DEF Only
  <2> QED BY <2>1, <2>2, MemberSteps DEF MemberNext, ServerInv
<1>6. ~Only(AccountKinds)'
  BY <1>5, KindsApart DEF Only
<1> QED BY <1>2, <1>3, <1>4, <1>5, <1>6 DEF ServerInv

LEMMA SocketsServed ==
  ASSUME ServerInv, Only(MemberKinds), SocketNext
  PROVE  ServerInv'
<1>1. RealtimeInv'
  BY SocketNextStep DEF ServerInv
<1>2. UNCHANGED rows
  BY SocketSteps DEF ServerInv
<1>3. CASE UNCHANGED requestVars
  BY <1>1, <1>2, <1>3, ServerStays
<1>4. ASSUME NEW q \in Requests, StepOf(q, MemberKinds)
      PROVE  ServerInv'
  <2>1. Only(MemberKinds)' /\ Begun'
    BY <1>4, KindsApart, KindsStay DEF ServerInv
  <2>2. ~Only({})' /\ ~Only(AccountKinds)'
    BY <2>1, KindsApart DEF Only, Begun
  <2>3. RequestInv' /\ OwnerRemains'
    BY <1>1 DEF RealtimeInv, MemberInv
  <2>4. AdminRemains'
    BY <1>2, NothingTouched, KeptAdmins DEF ServerInv
  <2> QED BY <1>1, <2>1, <2>2, <2>3, <2>4 DEF ServerInv
<1> QED BY <1>3, <1>4, SocketSteps DEF ServerInv

LEMMA AccountsServed ==
  ASSUME ServerInv, Only(AccountKinds), AccountNext
  PROVE  ServerInv'
<1>1. AccountInv
  BY DEF ServerInv
<1>2. AccountInv'
  BY <1>1, AccountNextStep
<1>3. PICK q \in Requests : StepOf(q, AccountKinds)
  BY <1>1, AccountSteps DEF AccountInv
<1>4. Only(AccountKinds)' /\ Begun'
  BY <1>3, KindsApart, KindsStay DEF ServerInv
<1>5. ~Only({})' /\ ~Only(MemberKinds)'
  BY <1>4, KindsApart DEF Only, Begun
<1>6. OwnerRemains'
  BY <1>1, AccountsTouchUsers, KeptOwners DEF ServerInv
<1> QED BY <1>2, <1>4, <1>5, <1>6 DEF ServerInv, AccountInv

\* The rows that the server begins with.
LEMMA FirstRows ==
  ASSUME ServerInit
  PROVE  /\ rows = [id \in DOMAIN rows |-> rows[id]]
         /\ \A id \in DOMAIN rows : id[2] \in Nat \ {0}
         /\ W1 \in Ids("workspace") /\ Existing("invitation") = {}
         /\ Existing("member") = {<<"member", 1>>, <<"member", 2>>}
         /\ rows[<<"member", 1>>] = Member(W1, "u1", "owner")
         /\ rows[<<"member", 2>>] = Member(W1, "u2", "admin")
         /\ Existing("orgmember") = {<<"orgmember", 1>>, <<"orgmember", 2>>}
         /\ rows[<<"orgmember", 1>>] = Member("org", "u1", "owner")
         /\ rows[<<"orgmember", 2>>] = Member("org", "u2", "owner")
         /\ Existing("user") = {<<"user", 1>>, <<"user", 2>>}
         /\ rows[<<"user", 1>>] = User("org", "admin")
         /\ rows[<<"user", 2>>] = [User("org", "admin") EXCEPT !.reset = TRUE, !.verification = TRUE]
         /\ Existing("token") = {<<"token", 1>>}
         /\ rows[<<"token", 1>>] = Token(<<"user", 1>>, "f1")
<1> DEFINE U2 == [User("org", "admin") EXCEPT !.reset = TRUE, !.verification = TRUE]
           There == {W1, <<"member", 1>>, <<"member", 2>>, <<"orgmember", 1>>, <<"orgmember", 2>>,
                     <<"user", 1>>, <<"user", 2>>, <<"token", 1>>}
<1>1. rows = [id \in RowIds |-> FirstRow(id)] /\ DOMAIN rows = RowIds
  BY DEF ServerInit
<1>2. There \subseteq RowIds
  BY DEF RowIds, W1
<1>3. \A id \in RowIds : id[2] \in Nat \ {0}
  BY DEF RowIds
<1>4. /\ FirstRow(W1) = Workspace("new")
      /\ FirstRow(<<"member", 1>>) = Member(W1, "u1", "owner")
      /\ FirstRow(<<"member", 2>>) = Member(W1, "u2", "admin")
      /\ FirstRow(<<"orgmember", 1>>) = Member("org", "u1", "owner")
      /\ FirstRow(<<"orgmember", 2>>) = Member("org", "u2", "owner")
      /\ FirstRow(<<"user", 1>>) = User("org", "admin")
      /\ FirstRow(<<"user", 2>>) = U2
      /\ FirstRow(<<"token", 1>>) = Token(<<"user", 1>>, "f1")
      /\ \A id : id \notin There => FirstRow(id) = NoRow
  BY DEF FirstRow, W1
<1>5. /\ Workspace("new") # NoRow /\ U2 # NoRow
      /\ \A x, y, z : Member(x, y, z) # NoRow /\ User(x, y) # NoRow /\ Token(x, y) # NoRow
  BY DEF Workspace, Member, User, Token, NoRow
<1> HIDE DEF U2, There
<1>6. \A id \in There : rows[id] = FirstRow(id) /\ FirstRow(id) # NoRow
  <2>1. \A id \in There : FirstRow(id) # NoRow
    BY <1>4, <1>5 DEF There
  <2> QED BY <1>1, <1>2, <2>1
<1>7. \A id \in DOMAIN rows : Has(id) <=> id \in There
  BY <1>1, <1>4, <1>6 DEF Has
<1>8. \A table : Existing(table) = {id \in There : id[1] = table}
  BY <1>1, <1>2, <1>7 DEF Existing, Ids
<1>9. /\ Existing("invitation") = {}
      /\ Existing("member") = {<<"member", 1>>, <<"member", 2>>}
      /\ Existing("orgmember") = {<<"orgmember", 1>>, <<"orgmember", 2>>}
      /\ Existing("user") = {<<"user", 1>>, <<"user", 2>>}
      /\ Existing("token") = {<<"token", 1>>}
  BY <1>8 DEF There, W1
<1>10. W1 \in Ids("workspace")
  BY <1>1 DEF Ids, RowIds, W1
<1>11. rows = [id \in DOMAIN rows |-> rows[id]]
  BY <1>1
<1>12. /\ rows[<<"member", 1>>] = Member(W1, "u1", "owner")
       /\ rows[<<"member", 2>>] = Member(W1, "u2", "admin")
       /\ rows[<<"orgmember", 1>>] = Member("org", "u1", "owner")
       /\ rows[<<"orgmember", 2>>] = Member("org", "u2", "owner")
       /\ rows[<<"user", 1>>] = User("org", "admin")
       /\ rows[<<"user", 2>>] = U2
       /\ rows[<<"token", 1>>] = Token(<<"user", 1>>, "f1")
  BY <1>4, <1>6 DEF There
<1> QED BY <1>1, <1>3, <1>9, <1>10, <1>11, <1>12 DEF U2

LEMMA ServerBegins == ServerInit => ServerInv
<1> SUFFICES ASSUME ServerInit PROVE ServerInv
  OBVIOUS
<1>1. RequestInv /\ \A q \in Requests : job[q].kind = "none" /\ job[q].phase = "idle"
  BY RequestsBegin DEF ServerInit, RequestInit, NoJob
<1>2. \A kinds : Only(kinds)
  BY <1>1 DEF Only
<1>3. SeatsInv
  <2>1. \A table \in SeatTables : \A id \in Existing(table) : Seat(rows[id])
    BY FirstRows, MemberIsSeat DEF SeatTables
  <2>2. \A id \in Existing("member") : OfWorkspace(rows[id])
    <3>1. \A id \in Existing("member") : Seat(rows[id]) /\ rows[id].home = W1
      BY FirstRows, MemberIsSeat
    <3>2. W1 \in Ids("workspace")
      BY FirstRows
    <3>3. \A r : Seat(r) => "home" \in DOMAIN r
      BY DEF Seat, SeatColumns
    <3> QED BY <3>1, <3>2, <3>3 DEF OfWorkspace, Peopled
  <2> QED BY <2>1, <2>2, FirstRows DEF SeatsInv
<1>4. OwnerRemains
  <2>1. <<"member", 1>> \in Owners("member", W1) /\ <<"orgmember", 1>> \in Owners("orgmember", "org")
    BY FirstRows, MemberIsSeat DEF Owners
  <2>2. /\ \A id \in Existing("member") : rows[id].home = W1
        /\ \A id \in Existing("orgmember") : rows[id].home = "org"
    BY FirstRows, MemberIsSeat
  <2> QED BY <2>1, <2>2 DEF OwnerRemains
<1>5. MemberInv
  <2>1. \A q \in Requests : MemberJobOK(q)
    BY <1>1 DEF MemberJobOK, ManageJobOK, OtherJobOK, Busy, ManageKinds, WorkspaceKinds
  <2> QED BY <1>1, <1>3, <1>4, <2>1 DEF MemberInv
<1>6. RealtimeInv
  <2>1. RoomsInv
    BY DEF ServerInit, RealtimeInit, RoomsInv, SocketOK, Live, NoSocket
  <2> QED BY <1>5, <2>1 DEF RealtimeInv
<1>7. \A u \in Existing("user") : /\ UserRow(rows[u]) /\ rows[u].org = "org"
                                  /\ rows[u].role = "admin" /\ rows[u].active
  <2> DEFINE U2 == [User("org", "admin") EXCEPT !.reset = TRUE, !.verification = TRUE]
  <2>1. /\ UserRow(U2) /\ U2.org = "org" /\ U2.role = "admin" /\ U2.active
    BY DEF User, UserRow, UserColumns
  <2> HIDE DEF U2
  <2>2. rows[<<"user", 2>>] = U2
    BY FirstRows DEF U2
  <2>3. PICK u : u = User("org", "admin")
    OBVIOUS
  <2>4. UserRow(u) /\ u.org = "org" /\ u.role = "admin" /\ u.active
    BY <2>3, UserIsRow
  <2>5. rows[<<"user", 1>>] = u
    BY <2>3, FirstRows
  <2>6. Existing("user") = {<<"user", 1>>, <<"user", 2>>}
    BY FirstRows
  <2> QED BY <2>1, <2>2, <2>4, <2>5, <2>6
<1>8. AdminRemains
  <2>1. \A u \in Existing("user") : u \in ActiveAdmins(rows[u].org)
    BY <1>7 DEF ActiveAdmins
  <2> QED BY <2>1 DEF AdminRemains
<1>9. TokenRow(rows[<<"token", 1>>]) /\ rows[<<"token", 1>>].family = "f1"
  <2>1. PICK u, family : u = <<"user", 1>> /\ family = "f1"
    OBVIOUS
  <2>2. TokenRow(Token(u, family)) /\ Token(u, family).family = family
    BY DEF Token, TokenRow, TokenColumns
  <2>3. rows[<<"token", 1>>] = Token(u, family)
    BY <2>1, FirstRows
  <2> QED BY <2>1, <2>2, <2>3
<1>10. AccountInv
  <2>1. AccountTables
    BY <1>7, <1>9, FirstRows DEF AccountTables
  <2>2. \A q \in Requests : PhaseOK(q) /\ TokenJobOK(q) /\ UserJobOK(q)
    <3>1. \A q \in Requests : Unused(q)
      BY <1>9, FirstRows, LoginAssumption DEF Unused
    <3> QED BY <1>1, <3>1 DEF PhaseOK, TokenJobOK, BeginsFamily, At, UserJobOK, Busy, TokenKinds,
                              UserKinds, RecoveryKinds, AccountKinds
  <2>3. OneLiveTokenPerFamily
    BY FirstRows DEF OneLiveTokenPerFamily
  <2> QED BY <1>1, <1>8, <2>1, <2>2, <2>3 DEF AccountInv
<1> QED BY <1>1, <1>2, <1>4, <1>6, <1>8, <1>10, FirstRows DEF ServerInv

THEOREM ServerInvariance == ServerSpec => []ServerInv
<1>1. ServerInv /\ [ServerNext]_serverVars => ServerInv'
  <2> SUFFICES ASSUME ServerInv, [ServerNext]_serverVars PROVE ServerInv'
    OBVIOUS
  <2>1. CASE UNCHANGED <<requestVars, rows, realtimeVars>>
    BY <2>1, RealtimeStays, ServerStays
  <2>2. CASE RequestsNext
    <3>1. CASE Only(MemberKinds) /\ MemberNext /\ UNCHANGED realtimeVars
      BY <3>1, MembersServed
    <3>2. CASE Only(MemberKinds) /\ SocketNext
      BY <3>2, SocketsServed
    <3>3. CASE EventNext
      <4>1. UNCHANGED <<requestVars, rows>>
        BY <3>3 DEF EventNext, EmitEvent, BridgeEvent, CanvasEvent, HandleCursorUpdate, FiftyMs
      <4> QED BY <3>3, <4>1, EventStep, ServerStays
    <3>4. CASE Only(AccountKinds) /\ AccountNext
      BY <3>4, AccountsServed
    <3> QED BY <2>2, <3>1, <3>2, <3>3, <3>4, NobodyMeans DEF RequestsNext
  <2> QED BY <2>1, <2>2 DEF ServerNext, serverVars
<1> QED BY <1>1, ServerBegins, PTL DEF ServerSpec

\* Members, accounts and sockets served together: assertAnotherOwner() and
\* assertNotLastActiveAdmin() leave every workspace and every organization an active owner and
\* an active admin while the requests that manage them do not overlap; only the last owner's
\* own acceptance of an invitation to another role leaves a workspace without one.
THEOREM ManagersStay == ServerSpec => []ManagersRemain
<1>1. ServerInv => ManagersRemain
  BY DEF ServerInv, ManagersRemain
<1> QED BY <1>1, ServerInvariance, PTL

-------------------------------------------------------------------------------
(* The outbox: publishers, rows and the stream. *)

\* A publisher inside publishOne works on a row of its batch.
CurrentHeld == \A p \in Publishers : pc[p] \in {"acked", "caught"} => current[p] \in batch[p]

\* An acknowledgement is received only for a stored message.
AckedIsInStream == \A p \in Publishers : pc[p] = "acked" => current[p] \in stream

\* Claimed copies are taken while an attempt is left.
SeenBelow == \A p \in Publishers : \A e \in batch[p] : seen[p][e] < MaxAttempts

\* Only committed rows are claimed, and only claimed rows are published.
HeldExists == /\ \A p \in Publishers : \A e \in batch[p] : status[e] # "absent"
              /\ \A e \in stream : status[e] # "absent"

\* A row that never overran is leased to whoever holds it.
LeaseIntact ==
  \A p \in Publishers : \A e \in batch[p] :
    e \notin overran => ~due[e] /\ status[e] = "publishing"

OutboxInv == /\ TypeOK /\ CurrentHeld /\ AckedIsInStream /\ PublishedIsInStream
             /\ SeenBelow /\ NeverStranded /\ HeldExists
             /\ LeaseIntact /\ LeaseExcludes


USE OutboxAssumption DEF Events, Status, Phase, row, proc

\* The inductive invariant holds when nothing was created yet.
LEMMA InvInit == Init => OutboxInv
BY DEF Init, OutboxInv, TypeOK, CurrentHeld, AckedIsInStream, PublishedIsInStream,
       SeenBelow, NeverStranded, HeldExists, LeaseIntact, LeaseExcludes

\* What the claim query returns: due rows that have an attempt left.
LEMMA OldestClaimable ==
  ASSUME NEW e \in Oldest(Claimable)
  PROVE  e \in Events /\ due[e] /\ attemptCount[e] < MaxAttempts /\ status[e] # "absent"
BY DEF Oldest, Claimable

\* The arithmetic of the catch block: a failure is reported with the limit
\* reached, a retry with an attempt left.
LEMMA FailureReport ==
  ASSUME NEW n \in 0..MaxAttempts, n < MaxAttempts,
         NEW a, a = n + 1,
         NEW s, s = IF n + 1 >= MaxAttempts THEN "failed" ELSE "pending"
  PROVE  /\ s \in {"pending", "publishing"} => a < MaxAttempts
         /\ s = "failed" => a = MaxAttempts
OBVIOUS

\* A row enqueued with a business change satisfies the invariant (OutboxService.create).
LEMMA InvCreate ==
  ASSUME OutboxInv, NEW e \in Events, Create(e)
  PROVE  OutboxInv'
<1> USE DEF OutboxInv, Create
<1>1. TypeOK'
  BY DEF TypeOK, CurrentHeld, SeenBelow
<1>2. CurrentHeld'
  BY DEF CurrentHeld, TypeOK
<1>3. AckedIsInStream'
  BY DEF AckedIsInStream, TypeOK, CurrentHeld
<1>4. PublishedIsInStream'
  BY DEF PublishedIsInStream, TypeOK, AckedIsInStream
<1>5. SeenBelow'
  BY DEF SeenBelow, TypeOK
<1>6. NeverStranded'
  BY DEF NeverStranded, TypeOK, SeenBelow, CurrentHeld
<1>7. HeldExists'
  BY DEF HeldExists, TypeOK, CurrentHeld
<1>8. LeaseIntact'
  BY DEF LeaseIntact, TypeOK, LeaseExcludes, CurrentHeld
<1>9. LeaseExcludes'
  BY DEF LeaseExcludes, TypeOK, LeaseIntact
<1> QED
  BY <1>1, <1>2, <1>3, <1>4, <1>5, <1>6, <1>7, <1>8, <1>9

\* A lease that ends under its publisher keeps the invariant: only the
\* "due" bit changes.
LEMMA InvTimePasses ==
  ASSUME OutboxInv, NEW e \in Events, TimePasses(e)
  PROVE  OutboxInv'
<1> USE DEF OutboxInv, TimePasses, Held
<1>1. TypeOK'
  BY DEF TypeOK, CurrentHeld, SeenBelow
<1>2. CurrentHeld'
  BY DEF CurrentHeld, TypeOK
<1>3. AckedIsInStream'
  BY DEF AckedIsInStream, TypeOK, CurrentHeld
<1>4. PublishedIsInStream'
  BY DEF PublishedIsInStream, TypeOK, AckedIsInStream
<1>5. SeenBelow'
  BY DEF SeenBelow, TypeOK
<1>6. NeverStranded'
  BY DEF NeverStranded, TypeOK, SeenBelow, CurrentHeld
<1>7. HeldExists'
  BY DEF HeldExists, TypeOK, CurrentHeld
<1>8. LeaseIntact'
  BY DEF LeaseIntact, TypeOK, LeaseExcludes, CurrentHeld
<1>9. LeaseExcludes'
  BY DEF LeaseExcludes, TypeOK, LeaseIntact
<1> QED
  BY <1>1, <1>2, <1>3, <1>4, <1>5, <1>6, <1>7, <1>8, <1>9

\* Reviving failed rows gives them attempts back and loses no message.
LEMMA InvReprocessFailed ==
  ASSUME OutboxInv, NEW e \in Events, ReprocessFailed(e)
  PROVE  OutboxInv'
<1> USE DEF OutboxInv, ReprocessFailed
<1>1. TypeOK'
  BY DEF TypeOK, CurrentHeld, SeenBelow
<1>2. CurrentHeld'
  BY DEF CurrentHeld, TypeOK
<1>3. AckedIsInStream'
  BY DEF AckedIsInStream, TypeOK, CurrentHeld
<1>4. PublishedIsInStream'
  BY DEF PublishedIsInStream, TypeOK, AckedIsInStream
<1>5. SeenBelow'
  BY DEF SeenBelow, TypeOK
<1>6. NeverStranded'
  BY DEF NeverStranded, TypeOK, SeenBelow, CurrentHeld
<1>7. HeldExists'
  BY DEF HeldExists, TypeOK, CurrentHeld
<1>8. LeaseIntact'
  BY DEF LeaseIntact, TypeOK, LeaseExcludes, CurrentHeld
<1>9. LeaseExcludes'
  BY DEF LeaseExcludes, TypeOK, LeaseIntact
<1> QED
  BY <1>1, <1>2, <1>3, <1>4, <1>5, <1>6, <1>7, <1>8, <1>9

\* Claiming takes only due rows with an attempt left, so the new leases are exclusive.
LEMMA InvClaim ==
  ASSUME OutboxInv, NEW p \in Publishers, Claim(p)
  PROVE  OutboxInv'
<1> USE DEF OutboxInv, Claim
<1>1. TypeOK'
  <2>1. Oldest(Claimable) \subseteq Events
    BY OldestClaimable
  <2>2. [e \in Events |-> IF e \in Oldest(Claimable) THEN attemptCount[e] ELSE 0]
          \in [Events -> 0..MaxAttempts]
    BY DEF TypeOK
  <2>3. status' \in [Events -> Status] /\ due' \in [Events -> BOOLEAN]
    BY DEF TypeOK
  <2> QED
    BY <2>1, <2>2, <2>3 DEF TypeOK
<1>2. CurrentHeld'
  BY OldestClaimable DEF CurrentHeld, TypeOK
<1>3. AckedIsInStream'
  BY OldestClaimable DEF AckedIsInStream, TypeOK, CurrentHeld
<1>4. PublishedIsInStream'
  BY OldestClaimable DEF PublishedIsInStream, TypeOK, AckedIsInStream
<1>5. SeenBelow'
  BY OldestClaimable DEF SeenBelow, TypeOK
<1>6. NeverStranded'
  BY OldestClaimable DEF NeverStranded, TypeOK, SeenBelow, CurrentHeld
<1>7. HeldExists'
  BY OldestClaimable DEF HeldExists, TypeOK, CurrentHeld
<1>8. LeaseIntact'
  BY OldestClaimable DEF LeaseIntact, TypeOK, LeaseExcludes, CurrentHeld
<1>9. LeaseExcludes'
  BY OldestClaimable DEF LeaseExcludes, TypeOK, LeaseIntact
<1> QED
  BY <1>1, <1>2, <1>3, <1>4, <1>5, <1>6, <1>7, <1>8, <1>9

\* The acknowledgement of the stream comes after the message is stored.
LEMMA InvPublishAcked ==
  ASSUME OutboxInv, NEW p \in Publishers, PublishAcked(p)
  PROVE  OutboxInv'
<1> USE DEF OutboxInv, PublishAcked
<1>1. TypeOK'
  BY DEF TypeOK, CurrentHeld, SeenBelow
<1>2. CurrentHeld'
  BY DEF CurrentHeld, TypeOK
<1>3. AckedIsInStream'
  BY DEF AckedIsInStream, TypeOK, CurrentHeld
<1>4. PublishedIsInStream'
  BY DEF PublishedIsInStream, TypeOK, AckedIsInStream
<1>5. SeenBelow'
  BY DEF SeenBelow, TypeOK
<1>6. NeverStranded'
  BY DEF NeverStranded, TypeOK, SeenBelow, CurrentHeld
<1>7. HeldExists'
  BY DEF HeldExists, TypeOK, CurrentHeld
<1>8. LeaseIntact'
  BY DEF LeaseIntact, TypeOK, LeaseExcludes, CurrentHeld
<1>9. LeaseExcludes'
  BY DEF LeaseExcludes, TypeOK, LeaseIntact
<1> QED
  BY <1>1, <1>2, <1>3, <1>4, <1>5, <1>6, <1>7, <1>8, <1>9

\* A rejected publish leaves the row as it was claimed.
LEMMA InvPublishRejected ==
  ASSUME OutboxInv, NEW p \in Publishers, PublishRejected(p)
  PROVE  OutboxInv'
<1> USE DEF OutboxInv, PublishRejected
<1>1. TypeOK'
  BY DEF TypeOK, CurrentHeld, SeenBelow
<1>2. CurrentHeld'
  BY DEF CurrentHeld, TypeOK
<1>3. AckedIsInStream'
  BY DEF AckedIsInStream, TypeOK, CurrentHeld
<1>4. PublishedIsInStream'
  BY DEF PublishedIsInStream, TypeOK, AckedIsInStream
<1>5. SeenBelow'
  BY DEF SeenBelow, TypeOK
<1>6. NeverStranded'
  BY DEF NeverStranded, TypeOK, SeenBelow, CurrentHeld
<1>7. HeldExists'
  BY DEF HeldExists, TypeOK, CurrentHeld
<1>8. LeaseIntact'
  BY DEF LeaseIntact, TypeOK, LeaseExcludes, CurrentHeld
<1>9. LeaseExcludes'
  BY DEF LeaseExcludes, TypeOK, LeaseIntact
<1> QED
  BY <1>1, <1>2, <1>3, <1>4, <1>5, <1>6, <1>7, <1>8, <1>9

\* A row is marked published only after the acknowledgement.
LEMMA InvMarkPublished ==
  ASSUME OutboxInv, NEW p \in Publishers, MarkPublished(p)
  PROVE  OutboxInv'
<1> USE DEF OutboxInv, MarkPublished, EndPublishOne
<1>1. TypeOK'
  <2> DEFINE rest == batch[p] \ {current[p]}
  <2>1. [e \in Events |-> IF e \in rest THEN seen[p][e] ELSE 0] \in [Events -> 0..MaxAttempts]
    BY DEF TypeOK
  <2>2. seen' \in [Publishers -> [Events -> 0..MaxAttempts]]
    BY <2>1 DEF TypeOK
  <2>3. status' \in [Events -> Status] /\ batch' \in [Publishers -> SUBSET Events]
    BY DEF TypeOK
  <2> QED
    BY <2>2, <2>3 DEF TypeOK
<1>2. CurrentHeld'
  BY DEF CurrentHeld, TypeOK
<1>3. AckedIsInStream'
  BY DEF AckedIsInStream, TypeOK, CurrentHeld
<1>4. PublishedIsInStream'
  BY DEF PublishedIsInStream, TypeOK, AckedIsInStream
<1>5. SeenBelow'
  BY DEF SeenBelow, TypeOK
<1>6. NeverStranded'
  BY DEF NeverStranded, TypeOK, SeenBelow, CurrentHeld
<1>7. HeldExists'
  BY DEF HeldExists, TypeOK, CurrentHeld
<1>8. LeaseIntact'
  BY DEF LeaseIntact, TypeOK, LeaseExcludes, CurrentHeld
<1>9. LeaseExcludes'
  BY DEF LeaseExcludes, TypeOK, LeaseIntact
<1> QED
  BY <1>1, <1>2, <1>3, <1>4, <1>5, <1>6, <1>7, <1>8, <1>9

\* An update that throws changes nothing but the step of the publisher.
LEMMA InvMarkPublishedThrows ==
  ASSUME OutboxInv, NEW p \in Publishers, MarkPublishedThrows(p)
  PROVE  OutboxInv'
<1> USE DEF OutboxInv, MarkPublishedThrows
<1>1. TypeOK'
  BY DEF TypeOK, CurrentHeld, SeenBelow
<1>2. CurrentHeld'
  BY DEF CurrentHeld, TypeOK
<1>3. AckedIsInStream'
  BY DEF AckedIsInStream, TypeOK, CurrentHeld
<1>4. PublishedIsInStream'
  BY DEF PublishedIsInStream, TypeOK, AckedIsInStream
<1>5. SeenBelow'
  BY DEF SeenBelow, TypeOK
<1>6. NeverStranded'
  BY DEF NeverStranded, TypeOK, SeenBelow, CurrentHeld
<1>7. HeldExists'
  BY DEF HeldExists, TypeOK, CurrentHeld
<1>8. LeaseIntact'
  BY DEF LeaseIntact, TypeOK, LeaseExcludes, CurrentHeld
<1>9. LeaseExcludes'
  BY DEF LeaseExcludes, TypeOK, LeaseIntact
<1> QED
  BY <1>1, <1>2, <1>3, <1>4, <1>5, <1>6, <1>7, <1>8, <1>9

\* An attempt that is left can be counted.
LEMMA OneMoreAttempt ==
  \A n \in 0..MaxAttempts : n < MaxAttempts => n + 1 \in 0..MaxAttempts
OBVIOUS

\* The failure report writes attempts read at claim time and still keeps
\* every open row claimable.
LEMMA InvRecordFailure ==
  ASSUME OutboxInv, NEW p \in Publishers, RecordFailure(p)
  PROVE  OutboxInv'
<1> USE DEF OutboxInv, RecordFailure, EndPublishOne
<1>0. /\ current[p] \in Events
       /\ seen[p][current[p]] \in 0..MaxAttempts
       /\ seen[p][current[p]] < MaxAttempts
  BY DEF TypeOK, CurrentHeld, SeenBelow
<1>1. TypeOK'
  <2> DEFINE rest == batch[p] \ {current[p]}
  <2>1. [e \in Events |-> IF e \in rest THEN seen[p][e] ELSE 0] \in [Events -> 0..MaxAttempts]
    BY DEF TypeOK
  <2>2. seen' \in [Publishers -> [Events -> 0..MaxAttempts]]
    BY <2>1 DEF TypeOK
  <2>3. attemptCount' \in [Events -> 0..MaxAttempts]
    <3>1. attemptCount' = [attemptCount EXCEPT ![current[p]] = seen[p][current[p]] + 1]
      OBVIOUS
    <3>2. seen[p][current[p]] + 1 \in 0..MaxAttempts
      BY <1>0, OneMoreAttempt, ZenonT(30)
    <3> QED BY <1>0, <3>1, <3>2 DEF TypeOK
  <2>4. status' \in [Events -> Status] /\ batch' \in [Publishers -> SUBSET Events]
    BY DEF TypeOK
  <2> QED
    BY <2>2, <2>3, <2>4 DEF TypeOK
<1>2. CurrentHeld'
  BY DEF CurrentHeld, TypeOK
<1>3. AckedIsInStream'
  BY DEF AckedIsInStream, TypeOK, CurrentHeld
<1>4. PublishedIsInStream'
  BY DEF PublishedIsInStream, TypeOK, AckedIsInStream
<1>5. SeenBelow'
  BY DEF SeenBelow, TypeOK
<1>6. NeverStranded'
  <2>1. ASSUME NEW e \in Events, e # current[p]
        PROVE  status'[e] = status[e] /\ attemptCount'[e] = attemptCount[e]
    BY <2>1 DEF TypeOK
  <2>2. /\ attemptCount'[current[p]] = seen[p][current[p]] + 1
        /\ status'[current[p]] = IF seen[p][current[p]] + 1 >= MaxAttempts
                                 THEN "failed" ELSE "pending"
    BY <1>0 DEF TypeOK
  <2>3. /\ status'[current[p]] \in {"pending", "publishing"} => attemptCount'[current[p]] < MaxAttempts
        /\ status'[current[p]] = "failed" => attemptCount'[current[p]] = MaxAttempts
    BY <1>0, <2>2, FailureReport
  <2> QED
    BY <2>1, <2>3 DEF NeverStranded
<1>7. HeldExists'
  BY DEF HeldExists, TypeOK, CurrentHeld
<1>8. LeaseIntact'
  BY DEF LeaseIntact, TypeOK, LeaseExcludes, CurrentHeld
<1>9. LeaseExcludes'
  BY DEF LeaseExcludes, TypeOK, LeaseIntact
<1> QED
  BY <1>1, <1>2, <1>3, <1>4, <1>5, <1>6, <1>7, <1>8, <1>9

\* A publisher that dies leaves its rows leased, never lost.
LEMMA InvCrash ==
  ASSUME OutboxInv, NEW p \in Publishers, Crash(p)
  PROVE  OutboxInv'
<1> USE DEF OutboxInv, Crash
<1>1. TypeOK'
  <2>1. [e \in Events |-> 0] \in [Events -> 0..MaxAttempts]
    OBVIOUS
  <2>2. seen' \in [Publishers -> [Events -> 0..MaxAttempts]]
    BY <2>1 DEF TypeOK
  <2> QED
    BY <2>2 DEF TypeOK
<1>2. CurrentHeld'
  BY DEF CurrentHeld, TypeOK
<1>3. AckedIsInStream'
  BY DEF AckedIsInStream, TypeOK, CurrentHeld
<1>4. PublishedIsInStream'
  BY DEF PublishedIsInStream, TypeOK, AckedIsInStream
<1>5. SeenBelow'
  BY DEF SeenBelow, TypeOK
<1>6. NeverStranded'
  BY DEF NeverStranded, TypeOK, SeenBelow, CurrentHeld
<1>7. HeldExists'
  BY DEF HeldExists, TypeOK, CurrentHeld
<1>8. LeaseIntact'
  BY DEF LeaseIntact, TypeOK, LeaseExcludes, CurrentHeld
<1>9. LeaseExcludes'
  BY DEF LeaseExcludes, TypeOK, LeaseIntact
<1> QED
  BY <1>1, <1>2, <1>3, <1>4, <1>5, <1>6, <1>7, <1>8, <1>9

\* Every step keeps the inductive invariant.
LEMMA InvNext == OutboxInv /\ [Next]_vars => OutboxInv'
<1> SUFFICES ASSUME OutboxInv, [Next]_vars PROVE OutboxInv'
  OBVIOUS
<1>1. CASE UNCHANGED vars
  BY <1>1 DEF vars, OutboxInv, TypeOK, CurrentHeld, AckedIsInStream, PublishedIsInStream,
              SeenBelow, NeverStranded, HeldExists, LeaseIntact, LeaseExcludes
<1>2. ASSUME NEW e \in Events, Create(e) \/ TimePasses(e) \/ ReprocessFailed(e)
      PROVE  OutboxInv'
  BY <1>2, InvCreate, InvTimePasses, InvReprocessFailed
<1>3. ASSUME NEW p \in Publishers, Claim(p) \/ Publish(p) \/ Settle(p) \/ Crash(p)
      PROVE  OutboxInv'
  BY <1>3, InvClaim, InvPublishAcked, InvPublishRejected, InvMarkPublished,
     InvMarkPublishedThrows, InvRecordFailure, InvCrash DEF Publish, Settle
<1> QED
  BY <1>1, <1>2, <1>3 DEF Next
\* The inductive invariant holds in every reachable state.
THEOREM Invariance == Spec => []OutboxInv
BY InvInit, InvNext, PTL DEF Spec

\* Rows, batches and counters keep their types; attempt_count never passes the
\* limit although it is written from copies read at claim time.
THEOREM TypeCorrect == Spec => []TypeOK
<1>1. OutboxInv => TypeOK
  BY DEF OutboxInv
<1> QED
  BY <1>1, Invariance, PTL

\* "Published" is recorded only for messages that are in the stream.
THEOREM PublishedOnlyIfStored == Spec => []PublishedIsInStream
<1>1. OutboxInv => PublishedIsInStream
  BY DEF OutboxInv
<1> QED
  BY <1>1, Invariance, PTL

\* No open row is ever out of attempts, so none is invisible to the claim query.
THEOREM NoRowStranded == Spec => []NeverStranded
<1>1. OutboxInv => NeverStranded
  BY DEF OutboxInv
<1> QED
  BY <1>1, Invariance, PTL

\* Two publishers share a row only after its lease ran out under one of them.
THEOREM LeaseIsExclusive == Spec => []LeaseExcludes
<1>1. OutboxInv => LeaseExcludes
  BY DEF OutboxInv
<1> QED
  BY <1>1, Invariance, PTL

\* Within leases no publisher takes "published" back.
THEOREM PublishedFinal == Spec => PublishedIsFinalWithinLeases
<1> DEFINE A == \A e \in Events :
                  status[e] = "published" /\ status'[e] # "published" => e \in overran
<1>1. OutboxInv /\ [Next]_vars => [A]_vars
  <2> SUFFICES ASSUME OutboxInv, Next, NEW d \in Events,
                      status[d] = "published", status'[d] # "published"
               PROVE  d \in overran
    BY DEF PublishedIsFinalWithinLeases
  <2> USE DEF OutboxInv, TypeOK
  <2>1. ASSUME NEW e \in Events, Create(e) \/ TimePasses(e) \/ ReprocessFailed(e)
        PROVE  FALSE
    BY <2>1 DEF Create, TimePasses, ReprocessFailed
  <2>2. ASSUME NEW p \in Publishers, Claim(p)
        PROVE  FALSE
    <3>1. d \notin Oldest(Claimable)
      BY DEF Oldest, Claimable
    <3> QED
      BY <2>2, <3>1 DEF Claim
  <2>3. ASSUME NEW p \in Publishers, Publish(p) \/ Crash(p) \/ MarkPublished(p) \/ MarkPublishedThrows(p)
        PROVE  FALSE
    BY <2>3 DEF Publish, PublishAcked, PublishRejected, Crash, MarkPublished, MarkPublishedThrows
  <2>4. ASSUME NEW p \in Publishers, RecordFailure(p)
        PROVE  d \in overran
    <3>1. d = current[p]
      BY <2>4 DEF RecordFailure
    <3> QED
      BY <2>4, <3>1 DEF RecordFailure, CurrentHeld, LeaseIntact
  <2> QED
    BY <2>1, <2>2, <2>3, <2>4 DEF Next, Settle
<1> QED
  BY <1>1, Invariance, PTL DEF Spec, PublishedIsFinalWithinLeases

\* The outbox implements the abstract at-least-once delivery.
THEOREM OutboxRefinesDelivery == Spec => ImplementsDelivery
<1> USE DEF ReportOf, Delivery!vars
<1>1. Init => Delivery!Init
  BY DEF Init, Delivery!Init
<1>2. OutboxInv /\ [Next]_vars => [Delivery!Next]_(Delivery!vars)
  <2> SUFFICES ASSUME OutboxInv, [Next]_vars
               PROVE  [Delivery!Next]_(Delivery!vars)
    OBVIOUS
  <2> DEFINE rep == [e \in Events |-> ReportOf(status[e])]
  <2> USE DEF OutboxInv, TypeOK
  <2>1. CASE UNCHANGED vars
    BY <2>1 DEF vars
  <2>2. ASSUME NEW e \in Events, Create(e)
        PROVE  Delivery!Record(e)
    BY <2>2 DEF Create, Delivery!Record
  <2>3. ASSUME NEW e \in Events, TimePasses(e)
        PROVE  UNCHANGED Delivery!vars
    BY <2>3 DEF TimePasses
  <2>4. ASSUME NEW e \in Events, ReprocessFailed(e)
        PROVE  Delivery!ReportOutcome(e, "open")
    BY <2>4 DEF ReprocessFailed, Delivery!ReportOutcome
  <2>5. ASSUME NEW p \in Publishers, Claim(p)
        PROVE  UNCHANGED Delivery!vars
    <3>1. \A e \in Oldest(Claimable) : ReportOf(status[e]) = "open"
      BY DEF Oldest, Claimable, NeverStranded
    <3>2. \A e \in Events : ReportOf(status'[e]) = ReportOf(status[e])
      BY <2>5, <3>1 DEF Claim
    <3> QED
      BY <2>5, <3>2 DEF Claim
  <2>6. ASSUME NEW p \in Publishers, Publish(p)
        PROVE  [Delivery!Next]_(Delivery!vars)
    <3>1. UNCHANGED status /\ \E e \in batch[p] : stream' = stream \/ stream' = stream \cup {e}
      BY <2>6 DEF Publish, PublishAcked, PublishRejected
    <3>2. PICK e \in batch[p] : stream' = stream \/ stream' = stream \cup {e}
      BY <3>1
    <3>3. e \in Events /\ status[e] # "absent"
      BY DEF HeldExists
    <3>4. CASE stream' = stream \cup {e}
      BY <3>1, <3>3, <3>4 DEF Delivery!Next, Delivery!Deliver
    <3>5. CASE stream' = stream
      BY <3>1, <3>5
    <3> QED
      BY <3>2, <3>4, <3>5
  <2>7. ASSUME NEW p \in Publishers, MarkPublished(p)
        PROVE  Delivery!ReportOutcome(current[p], "confirmed") /\ current[p] \in Events
    BY <2>7 DEF MarkPublished, CurrentHeld, AckedIsInStream, HeldExists, Delivery!ReportOutcome
  <2>8. ASSUME NEW p \in Publishers, MarkPublishedThrows(p) \/ Crash(p)
        PROVE  UNCHANGED Delivery!vars
    BY <2>8 DEF MarkPublishedThrows, Crash
  <2>9. ASSUME NEW p \in Publishers, RecordFailure(p)
        PROVE  \E r \in {"abandoned", "open"} :
                 Delivery!ReportOutcome(current[p], r) /\ current[p] \in Events
    <3>1. current[p] \in Events /\ status[current[p]] # "absent"
      BY <2>9 DEF RecordFailure, CurrentHeld, HeldExists
    <3>2. PICK s \in {"failed", "pending"} : status' = [status EXCEPT ![current[p]] = s]
      BY <2>9 DEF RecordFailure
    <3>3. UNCHANGED stream
      BY <2>9 DEF RecordFailure
    <3> QED
      BY <3>1, <3>2, <3>3 DEF Delivery!ReportOutcome
  <2>10. ASSUME NEW e \in Events, Create(e) \/ TimePasses(e) \/ ReprocessFailed(e)
         PROVE  [Delivery!Next]_(Delivery!vars)
    BY <2>2, <2>3, <2>4, <2>10 DEF Delivery!Next, Delivery!Report
  <2>11. ASSUME NEW p \in Publishers, Claim(p) \/ Publish(p) \/ Settle(p) \/ Crash(p)
         PROVE  [Delivery!Next]_(Delivery!vars)
    BY <2>5, <2>6, <2>7, <2>8, <2>9, <2>11 DEF Settle, Delivery!Next, Delivery!Report
  <2> QED
    BY <2>1, <2>10, <2>11 DEF Next
<1> QED
  BY <1>1, <1>2, Invariance, PTL DEF Spec, ImplementsDelivery, Delivery!Spec
===============================================================================
