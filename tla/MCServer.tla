------------------------------- MODULE MCServer -------------------------------
(***************************************************************************)
(* Members and their sockets, accounts and their tokens, and the timers of *)
(* the previews.  The three parts share no table, so a behaviour sends its *)
(* requests to one of them.                                                *)
(***************************************************************************)
EXTENDS Realtime, Accounts, PreviewCoordinator, TLC

serverVars == <<requestVars, rows, realtimeVars, timerVars>>

Only(kinds) == \A q \in Requests : job[q].kind \in kinds \cup {"none"}

W1 == <<"workspace", 1>>
MCJwts == {[user |-> "u2", org |-> "org", role |-> "viewer"]}
MCRooms == {[type |-> "workspace", of |-> W1], [type |-> "canvas", of |-> "org"],
            [type |-> "session", of |-> "org"],
            [type |-> "admin-health", of |-> "org"]}

RowIds == ({"workspace", "invitation", "orgmember"} \X (1..2)) \cup
          ({"member", "user", "token"} \X (1..3))

\* Two owners of the organization, one of them of its workspace too; two admins, one of them
\* with a login f1.
FirstRow(id) ==
  CASE id = W1 -> Workspace("new")
    [] id = <<"member", 1>> -> Member(W1, "u1", "owner")
    [] id = <<"member", 2>> -> Member(W1, "u2", "admin")
    [] id = <<"orgmember", 1>> -> Member("org", "u1", "owner")
    [] id = <<"orgmember", 2>> -> Member("org", "u2", "owner")
    [] id = <<"user", 1>> -> User("org", "admin")
    [] id = <<"user", 2>> -> [User("org", "admin") EXCEPT !.reset = TRUE, !.verification = TRUE]
    [] id = <<"token", 1>> -> Token(<<"user", 1>>, "f1")
    [] OTHER -> NoRow

ASSUME LoginAssumption == "f1" \notin Requests

ServerInit ==
  /\ RequestInit /\ RealtimeInit /\ TimersInit
  /\ rows = [id \in RowIds |-> FirstRow(id)]

SocketKinds == {"member_role", "member_suspend", "member_restore", "member_remove"}
NoSockets == \A s \in Sockets : socket[s] = NoSocket
Spare == \E q \in Requests : job'[q] = NoJob   \* bound: one request fewer to members
\* bound: two of the requests to accounts are refreshes or changes of users.
OneOther == Cardinality({q \in Requests : job'[q].kind \notin
                           {"none", "refresh", "user_role", "revoke_user"}}) <= 1
\* bound: beside requests, sockets are in the rooms of users and workspaces alone.
FewRooms == \A s \in Sockets : \A room \in rooms[s] \cup joining[s] : room.type \in {"user", "workspace"}
NoEvents == heard = {} /\ missed = {} /\ \A p \in Processes : throttled[p] = {}

RequestsNext ==
  \/ /\ (Only(SocketKinds) /\ NoEvents /\ FewRooms) \/ (Only(MemberKinds) /\ NoSockets)
     /\ MemberNext /\ Spare /\ UNCHANGED realtimeVars
  \/ /\ Only({}) \/ (Only(SocketKinds) /\ NoEvents)
     /\ SocketNext /\ (Only({}) \/ FewRooms')
  \/ Only({}) /\ EventNext
  \/ /\ Only(AccountKinds) /\ NoSockets
     /\ AccountNext /\ OneOther /\ UNCHANGED realtimeVars

ServerNext ==
  \/ TimersInit /\ RequestsNext /\ UNCHANGED timerVars
  \/ /\ Only({}) /\ RealtimeInit
     /\ TimersNext /\ UNCHANGED <<requestVars, rows, realtimeVars>>

ServerSpec == ServerInit /\ [][ServerNext]_serverVars

Symmetry == Permutations(Requests) \cup Permutations(Processes)

\* A workspace or an organization keeps an active owner (assertAnotherOwner) and an active
\* admin (assertNotLastActiveAdmin) through managing requests that do not overlap one
\* another, refused and failed ones and all invitations included.  One request alone takes
\* the last owner away: the acceptance, by that owner, of an invitation to another role.
ManagersRemain == OwnerRemains /\ AdminRemains
===============================================================================
