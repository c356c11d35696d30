-------------------------------- MODULE Members --------------------------------
(***************************************************************************)
(* Workspaces, their members and invitations, and the members of an        *)
(* organization (src/modules/workspaces, src/modules/organizations).  Both *)
(* member tables are managed the same way: read the caller, read the       *)
(* target, count the other owners, save the copy.                          *)
(***************************************************************************)
EXTENDS Tables, Functions

CONSTANTS Users,           \* people; an invitation goes to one's address
          WorkspaceRoles,  \* roles that are given
          OrgRoles

ManageKinds == {"member_role", "member_suspend", "member_restore", "member_remove",
                "orgmember_role", "orgmember_remove"}
InviteKinds == {"invitation_create", "invitation_revoke", "invitation_accept"}
WorkspaceKinds == {"workspace_create", "workspace_update", "workspace_archive",
                   "workspace_restore", "workspace_remove"}
MemberKinds == ManageKinds \cup InviteKinds \cup WorkspaceKinds

\* A row of workspace_member (home: the workspace) or organization_member.
Member(home, user, role) == [home |-> home, user |-> user, role |-> role, status |-> "active"]
Workspace(title) == [title |-> title, archived |-> FALSE, version |-> 1, deleted |-> FALSE]
Invitation(home, email, role) ==
  [home |-> home, email |-> email, role |-> role, status |-> "pending", due |-> FALSE]

Managers == {"owner", "admin"}
MayManage(id) == rows[id].status = "active" /\ rows[id].role \in Managers

Request(kind, phase, id, next) ==
  [kind |-> kind, at |-> NoProcess, phase |-> phase, row |-> id, next |-> next, dirty |-> {},
   then |-> "ok"]

-------------------------------------------------------------------------------
(* Managing members. *)

\* requireRole(): the caller's membership, of the target's home.
ManageMember(q, table, kind, change) ==
  /\ \E caller, id \in Existing(table) :
       /\ rows[caller].home = rows[id].home
       /\ Begins(q, IF MayManage(caller)
                    THEN [Request(kind, "target", id, change) EXCEPT !.then = rows[caller].role]
                    ELSE Answered(kind, "refused"))
  /\ UNCHANGED rows

ChangeRole(q) == \E r \in WorkspaceRoles : ManageMember(q, "member", "member_role", [role |-> r])
SetStatus(q) ==
  \/ ManageMember(q, "member", "member_suspend", [status |-> "suspended"])
  \/ ManageMember(q, "member", "member_restore", [status |-> "active"])
  \/ ManageMember(q, "member", "member_remove", [status |-> "removed"])
UpdateOrgMember(q) ==
  \E r \in OrgRoles : ManageMember(q, "orgmember", "orgmember_role", [role |-> r])
RemoveOrgMember(q) ==
  ManageMember(q, "orgmember", "orgmember_remove", [status |-> "removed"])

\* A change after which the target is no active owner.
Dethrones(change) == \/ "role" \in DOMAIN change /\ change.role # "owner"
                     \/ "status" \in DOMAIN change /\ change.status # "active"
AfterSave(kind) == IF kind \in {"member_suspend", "member_remove"} THEN "disconnect" ELSE "ok"

\* The target is read, the caller's rank checked.  Only a workspace's admin may not make
\* owners; only an organization looks for active members alone.
ReadTarget(q) ==
  /\ At(q, ManageKinds, "target")
  /\ LET j == job[q]
         row == rows[j.row]
         refused == \/ j.then = "admin" /\ row.role = "owner"
                    \/ j.kind = "member_role" /\ j.next.role = "owner" /\ j.then # "owner"
                    \/ j.row[1] = "orgmember" /\ row.status # "active"
         next == [c \in DOMAIN row |-> IF c \in DOMAIN j.next THEN j.next[c] ELSE row[c]]
     IN IF refused THEN Ends(q, "refused")
        ELSE /\ job' = [job EXCEPT ![q].phase =
                          IF row.role = "owner" /\ Dethrones(j.next) THEN "owners" ELSE "diff",
                          ![q].next = next, ![q].then = AfterSave(j.kind)]
             /\ UNCHANGED <<alone, faults>>
  /\ UNCHANGED rows

Owners(table, home) ==
  {id \in Existing(table) : rows[id].home = home /\ rows[id].role = "owner" /\ rows[id].status = "active"}

\* assertAnotherOwner()
CountOwners(q) ==
  /\ At(q, ManageKinds, "owners")
  /\ IF Owners(job[q].row[1], rows[job[q].row].home) \ {job[q].row} = {}
     THEN Ends(q, "refused") ELSE Goes(q, "diff")
  /\ UNCHANGED rows

-------------------------------------------------------------------------------
(* Invitations. *)

CreateInvitation(q) ==
  /\ \E caller \in Existing("member"), u \in Users, r \in WorkspaceRoles :
       Begins(q, IF MayManage(caller) /\ (r = "owner" => rows[caller].role = "owner")
                 THEN Request("invitation_create", "pending", caller,
                              Invitation(rows[caller].home, u, r))
                 ELSE Answered("invitation_create", "refused"))
  /\ UNCHANGED rows

\* A pending invitation of the address, due or not, excludes another one.
LookForPending(q) ==
  /\ At(q, {"invitation_create"}, "pending")
  /\ IF \E id \in Existing("invitation") :
          /\ rows[id].home = job[q].next.home /\ rows[id].email = job[q].next.email
          /\ rows[id].status = "pending"
     THEN Ends(q, "refused") ELSE Goes(q, "insert")
  /\ UNCHANGED rows

RevokeInvitation(q) ==
  /\ \E id \in Existing("invitation") :
       Edits(q, "invitation_revoke", NoProcess, id, rows[id].status = "pending",
             [rows[id] EXCEPT !.status = "revoked"], "ok")
  /\ UNCHANGED rows

\* Seven days pass.
FallDue(id) ==
  /\ Has(id) /\ ~rows[id].due
  /\ rows' = [rows EXCEPT ![id].due = TRUE]
  /\ UNCHANGED requestVars

OnlyOwner(id) == Owners("member", rows[id].home) = {id}

\* accept(), one transaction with a lock on the invitation.  The status of an invitation
\* found due is saved and rolled back by the exception.  An accepted one is answered with
\* the membership, whatever has become of it.  Nothing asks for another owner: the request
\* remembers (history) the workspace whose only owner has taken another role by it.
AcceptInvitation(q) ==
  \E id \in Existing("invitation"), u \in Users :
    LET inv == rows[id]
        mine == {m \in Existing("member") : rows[m].home = inv.home /\ rows[m].user = u}
        seat == IF mine = {} THEN FirstFree("member") ELSE CHOOSE m \in mine : TRUE
        again == inv.status = "accepted" /\ mine # {}
        ok == inv.email = u /\ inv.status = "pending" /\ ~inv.due
        resigns == ok /\ mine # {} /\ inv.role # "owner" /\ OnlyOwner(seat)
    IN /\ ok /\ mine = {} => Free("member") # {}
       /\ Begins(q, [kind |-> "invitation_accept", at |-> NoProcess,
                     phase |-> IF inv.email = u /\ (ok \/ again) THEN "ok" ELSE "refused",
                     resigned |-> IF resigns THEN {inv.home} ELSE {}])
       /\ rows' = IF ok THEN [rows EXCEPT ![seat] = Member(inv.home, u, inv.role),
                                          ![id].status = "accepted"]
                  ELSE rows

-------------------------------------------------------------------------------
(* Workspaces. *)

\* create() and duplicate(): the workspace and its owner in one transaction.
CreateWorkspace(q) ==
  \E m \in Existing("orgmember") :
    /\ Free("workspace") # {} /\ Free("member") # {}
    /\ Begins(q, Answered("workspace_create",
                          IF rows[m].status = "active" THEN "ok" ELSE "refused"))
    /\ rows' = IF rows[m].status = "active"
               THEN [rows EXCEPT ![FirstFree("workspace")] = Workspace("new"),
                                 ![FirstFree("member")] =
                                    Member(FirstFree("workspace"), rows[m].user, "owner")]
               ELSE rows

\* requireRole() and find(); update() compares the version the client has seen.
EditWorkspace(q, kind, managers, current, next(_)) ==
  /\ \E caller \in Existing("member") :
       LET id == rows[caller].home
       IN Edits(q, kind, NoProcess, id,
                /\ rows[caller].status = "active" /\ rows[caller].role \in managers
                /\ ~rows[id].deleted /\ current,
                next(rows[id]), "ok")
  /\ UNCHANGED rows

UpdateWorkspace(q) ==
  \E current \in BOOLEAN : EditWorkspace(q, "workspace_update", Managers, current,
                                         LAMBDA w : [w EXCEPT !.title = "renamed"])
ArchiveWorkspace(q) ==
  \/ EditWorkspace(q, "workspace_archive", Managers, TRUE, LAMBDA w : [w EXCEPT !.archived = TRUE])
  \/ EditWorkspace(q, "workspace_restore", Managers, TRUE, LAMBDA w : [w EXCEPT !.archived = FALSE])

\* softRemove() writes nothing but the time of the deletion.
RemoveWorkspace(q) ==
  /\ \E caller \in Existing("member") :
       LET id == rows[caller].home
       IN Begins(q, IF /\ rows[caller].status = "active" /\ rows[caller].role = "owner"
                       /\ ~rows[id].deleted
                    THEN [Request("workspace_remove", "write", id, [rows[id] EXCEPT !.deleted = TRUE])
                            EXCEPT !.dirty = {"deleted"}]
                    ELSE Answered("workspace_remove", "refused"))
  /\ UNCHANGED rows

\* The version column goes up with every UPDATE, in the database; it is not compared there.
WriteWorkspace(q) ==
  /\ At(q, WorkspaceKinds, "write")
  /\ LET dirty == job[q].dirty \ {"version"}
         row == rows[job[q].row]
     IN rows' = [rows EXCEPT ![job[q].row] =
                   IF dirty = {} THEN row
                   ELSE [Written(row, job[q].next, dirty) EXCEPT !.version = row.version + 1]]
  /\ Goes(q, "ok")

-------------------------------------------------------------------------------
SaveMember(q) ==
  \/ InsertRow(q, InviteKinds, "invitation")
  \/ DiffRow(q, MemberKinds)
  \/ WriteRow(q, ManageKinds \cup InviteKinds)

MemberFails(q) == job[q].kind \in MemberKinds /\ Fails(q) /\ UNCHANGED rows

MemberNext ==
  \/ \E q \in Requests :
       \/ ChangeRole(q) \/ SetStatus(q) \/ UpdateOrgMember(q) \/ RemoveOrgMember(q)
       \/ ReadTarget(q) \/ CountOwners(q) \/ CreateInvitation(q) \/ LookForPending(q)
       \/ RevokeInvitation(q) \/ AcceptInvitation(q) \/ CreateWorkspace(q) \/ UpdateWorkspace(q)
       \/ ArchiveWorkspace(q) \/ RemoveWorkspace(q) \/ WriteWorkspace(q) \/ SaveMember(q)
       \/ MemberFails(q)
  \/ \E id \in Ids("invitation") : FallDue(id)

\* Organizations whose members are set up, each with an owner; no workspace yet.
MemberInit ==
  /\ RequestInit
  /\ \E m, n \in Nat :
       \E staff \in [1..n -> [home : STRING, user : Users, role : OrgRoles, status : {"active"}]] :
         /\ \A i \in 1..n : \E k \in 1..n : staff[k].home = staff[i].home /\ staff[k].role = "owner"
         /\ rows = [id \in ({"workspace", "member", "invitation"} \X (1..m)) \cup
                           ({"orgmember"} \X (1..n)) |->
                      IF id[1] = "orgmember" THEN staff[id[2]] ELSE NoRow]

-------------------------------------------------------------------------------
\* Every workspace and organization that somebody belongs to keeps an active owner, unless
\* management requests overlapped, or the only owner of the workspace accepted an invitation
\* to another role there, which no code prevents.
OwnerRemains ==
  \A table \in {"member", "orgmember"} : \A id \in Existing(table) :
    \/ Owners(table, rows[id].home) # {}
    \/ \E q \in Requests : job[q].kind \in ManageKinds /\ ~alone[q]
    \/ table = "member" /\ \E q \in Requests : /\ job[q].kind = "invitation_accept"
                                             /\ rows[id].home \in job[q].resigned
===============================================================================
