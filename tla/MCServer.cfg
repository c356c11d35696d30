\* Three requests to accounts or two to members, one failed call; a socket on one of two processes.
CONSTANTS
  Requests = {q1, q2, q3}
  Processes = {p1, p2}
  NoProcess = NoProcess
  MaxFaults = 1
  Kinds = {"member_role", "member_suspend", "member_restore", "member_remove",
           "orgmember_role", "orgmember_remove", "invitation_create", "invitation_revoke",
           "invitation_accept", "workspace_create", "workspace_update", "workspace_archive",
           "workspace_restore", "workspace_remove",
           "register", "login", "refresh", "logout", "logout_all", "invite_user", "user_role",
           "revoke_user", "forgot_password", "reset_password", "verify_email", "resend_email"}
  Users = {"u1", "u2", "u3"}
  WorkspaceRoles = {"owner", "editor"}
  OrgRoles = {"owner", "member"}
  UserRoles = {"admin", "viewer"}
  Sockets = {s1}
  JwtPayloads <- MCJwts
  Rooms <- MCRooms
  Canvases = {"c1"}
  DebounceMs = 2
  MaxDebounceMs = 3
  AutoPreviewEnabled = TRUE
  MaxTime = 8
  MaxEdits = 4
SPECIFICATION ServerSpec
CHECK_DEADLOCK FALSE
SYMMETRY Symmetry
INVARIANTS ManagersRemain RoomsAreOfMembers OneLiveTokenPerFamily EditsAreServed
