------------------------------- MODULE Realtime -------------------------------
(***************************************************************************)
(* Sockets of browsers and the rooms they join (src/modules/realtime).     *)
(* Every process of the server holds sockets of its own; the Redis adapter *)
(* carries an emit or a query about a room to all of them, while the       *)
(* adapter's map of rooms knows the sockets of its own process only.  A    *)
(* socket is used once: who reconnects comes with another one.             *)
(***************************************************************************)
EXTENDS Members

CONSTANTS Sockets,
          JwtPayloads,  \* contents of access tokens: [user, org, role]
          Rooms         \* [type, of]: of is the workspace or organization it belongs to

VARIABLES
  socket,    \* [Sockets -> [phase: new, live or gone; at: process; jwt]]
  rooms,     \* [Sockets -> the rooms the adapter of its process lists it in]
  joining,   \* [Sockets -> rooms that canJoin() has allowed and join() has not seen yet]
  ordered,   \* sockets another process was asked, through Redis, to close
  throttled, \* [Processes -> users whose last cursor is less than 50 ms ago]
  heard,     \* history: sockets that got an event
  missed,    \* history: sockets in a room whose event was not emitted to it
  unseen     \* history: sockets fetchSockets() missed, for they had left their user's room

realtimeVars == <<socket, rooms, joining, ordered, throttled, heard, missed, unseen>>

NoSocket == [phase |-> "new", at |-> NoProcess, jwt |-> {}]
Live(s) == socket[s].phase = "live"
Caller(s) == CHOOSE t \in socket[s].jwt : TRUE
UserRoom(u) == [type |-> "user", of |-> u]
ClientRooms == Rooms \cup {UserRoom(t.user) : t \in JwtPayloads}

RealtimeInit ==
  /\ socket = [s \in Sockets |-> NoSocket]
  /\ rooms = [s \in Sockets |-> {}] /\ joining = [s \in Sockets |-> {}]
  /\ throttled = [p \in Processes |-> {}]
  /\ ordered = {} /\ heard = {} /\ missed = {} /\ unseen = {}

-------------------------------------------------------------------------------
(* Connections. *)

\* The handshake checked the token; handleConnection() joins the user's own room.
HandleConnection(s) ==
  /\ socket[s] = NoSocket
  /\ \E p \in Processes, t \in JwtPayloads :
       /\ socket' = [socket EXCEPT ![s] = [phase |-> "live", at |-> p, jwt |-> {t}]]
       /\ rooms' = [rooms EXCEPT ![s] = {UserRoom(t.user)}]
  /\ UNCHANGED <<requestVars, rows, joining, ordered, throttled, heard, missed, unseen>>

\* The socket is closed: the adapter forgets it, handleDisconnect() the user's throttle.
Closed(s) ==
  /\ socket' = [socket EXCEPT ![s].phase = "gone"]
  /\ rooms' = [rooms EXCEPT ![s] = {}]
  /\ throttled' = [throttled EXCEPT ![socket[s].at] = @ \ {Caller(s).user}]

HandleDisconnect(s) ==
  /\ Live(s) /\ Closed(s)
  /\ UNCHANGED <<requestVars, rows, joining, ordered, heard, missed, unseen>>

\* validateWorkspaceMember()
IsMember(user, home) ==
  \E m \in Existing("member") : rows[m].home = home /\ rows[m].user = user /\ rows[m].status = "active"

\* The rooms of a workflow and what hangs on it.
OrgRooms == {"session", "workflow", "pipeline", "canvas"}
BelongsToOrg(t, room) == room.type \in OrgRooms /\ room.of = t.org

canJoin(t, room) ==
  \/ room = UserRoom(t.user)
  \/ room.type \in {"workspace", "ai-task"} /\ IsMember(t.user, room.of)
  \/ room.type = "organization" /\ \E m \in Existing("orgmember") :
        rows[m].home = room.of /\ rows[m].user = t.user /\ rows[m].status = "active"
  \/ BelongsToOrg(t, room)
  \/ room.type = "admin-health" /\ t.role = "admin"

\* handleJoinRoom() up to the answer of canJoin(); a room of another organization closes
\* the socket.
HandleJoinRoom(s, room) ==
  /\ Live(s) /\ room \notin rooms[s]
  /\ IF canJoin(Caller(s), room)
     THEN joining' = [joining EXCEPT ![s] = @ \cup {room}] /\ UNCHANGED <<socket, rooms, throttled>>
     ELSE /\ room.type \in OrgRooms \cup {"admin-health"} /\ Closed(s)
          /\ UNCHANGED joining
  /\ UNCHANGED <<requestVars, rows, ordered, heard, missed, unseen>>

\* client.join() once the answer is there, also of a socket that is closed by now.
Join(s, room) ==
  /\ room \in joining[s]
  /\ joining' = [joining EXCEPT ![s] = @ \ {room}]
  /\ rooms' = [rooms EXCEPT ![s] = @ \cup {room}]
  /\ UNCHANGED <<requestVars, rows, socket, ordered, throttled, heard, missed, unseen>>

\* Any room, also the one of the client's own user.
HandleLeaveRoom(s, room) ==
  /\ Live(s) /\ room \in rooms[s]
  /\ rooms' = [rooms EXCEPT ![s] = @ \ {room}]
  /\ UNCHANGED <<requestVars, rows, socket, joining, ordered, throttled, heard, missed, unseen>>

-------------------------------------------------------------------------------
(* disconnectWorkspaceMember() of a request that suspended or removed a member. *)

\* From here on it matters which process serves the request.
Fetched(q, p, found) ==
  /\ At(q, {"member_suspend", "member_remove"}, "disconnect")
  /\ job' = [job EXCEPT ![q].phase = "kick", ![q].at = p, ![q].next = found]
  /\ unseen' = unseen \cup {s \in Sockets : /\ Live(s) /\ Caller(s).user = job[q].next.user
                                            /\ UserRoom(Caller(s).user) \notin rooms[s]}
  /\ UNCHANGED <<alone, faults, rows, socket, rooms, joining, ordered, throttled, heard, missed>>

InUserRoom(u) == {s \in Sockets : Live(s) /\ UserRoom(u) \in rooms[s]}

\* fetchSockets() of the rooms of the process that serves the request.
FetchLocalSockets(q) ==
  \E p \in Processes : Fetched(q, p, {s \in InUserRoom(job[q].next.user) : socket[s].at = p})

\* fetchSockets() of the user's room, on all processes.
FetchSockets(q) == \E p \in Processes : Fetched(q, p, InUserRoom(job[q].next.user))

\* leave(), emit() and disconnect() of one of them: at once for a socket of this process; for
\* one of another process they are published.
Kick(q, s) ==
  /\ At(q, {"member_suspend", "member_remove"}, "kick")
  /\ s \in job[q].next
  /\ job' = [job EXCEPT ![q].next = @ \ {s}]
  /\ \/ ~Live(s) /\ UNCHANGED <<socket, rooms, ordered, throttled>>
     \/ Live(s) /\ socket[s].at = job[q].at /\ Closed(s) /\ UNCHANGED ordered
     \/ /\ Live(s) /\ socket[s].at # job[q].at
        /\ ordered' = ordered \cup {s} /\ UNCHANGED <<socket, rooms, throttled>>
  /\ UNCHANGED <<alone, faults, rows, joining, heard, missed, unseen>>

\* The adapter of the socket's process receives what was published, if it ever does.  The
\* order to leave the workspace's room comes first and is taken together with the closing.
ObeyOrder(s) ==
  /\ s \in ordered
  /\ ordered' = ordered \ {s}
  /\ IF Live(s) THEN Closed(s) ELSE UNCHANGED <<socket, rooms, throttled>>
  /\ UNCHANGED <<requestVars, rows, joining, heard, missed, unseen>>

KickedAll(q) ==
  /\ At(q, {"member_suspend", "member_remove"}, "kick")
  /\ job[q].next = {}
  /\ Ends(q, "ok")
  /\ UNCHANGED <<rows, realtimeVars>>

-------------------------------------------------------------------------------
(* Events. *)

InRoom(room) == {s \in Sockets : Live(s) /\ room \in rooms[s]}
\* What the map of process p says: closed sockets that joined late count.
hasListeners(p, room) == \E s \in Sockets : socket[s].at = p /\ room \in rooms[s]

\* server.to(room).emit()
Emitted(room) == heard' = heard \cup InRoom(room) /\ UNCHANGED missed
Dropped(room) == missed' = missed \cup InRoom(room) /\ UNCHANGED heard
EmittedIfListeners(p, room) == IF hasListeners(p, room) THEN Emitted(room) ELSE Dropped(room)

\* RealtimeEmitterService and the emitTo...() of other services: without asking.
EmitEvent(room) ==
  /\ room.type \in {"session", "workflow", "pipeline", "user", "workspace"}
  /\ InRoom(room) # {}
  /\ Emitted(room)
  /\ UNCHANGED <<requestVars, rows, socket, rooms, joining, ordered, throttled, unseen>>

\* NatsWsBridgeService: one process takes the message from the shared durable consumer.
BridgeEvent(p, room) ==
  /\ room.type \in {"session", "workflow", "pipeline", "admin-health"}
  /\ InRoom(room) # {}
  /\ EmittedIfListeners(p, room)
  /\ UNCHANGED <<requestVars, rows, socket, rooms, joining, ordered, throttled, unseen>>

\* CanvasRealtimeService: the process that handled the edit or the result of the AI.
CanvasEvent(p, room) ==
  /\ room.type = "canvas"
  /\ InRoom(room) # {}
  /\ EmittedIfListeners(p, room)
  /\ UNCHANGED <<requestVars, rows, socket, rooms, joining, ordered, throttled, unseen>>

\* handleCursorUpdate(), throttled by user and process.
HandleCursorUpdate(s, room) ==
  /\ Live(s) /\ room.type = "canvas"
  /\ Caller(s).user \notin throttled[socket[s].at]
  /\ throttled' = [throttled EXCEPT ![socket[s].at] = @ \cup {Caller(s).user}]
  /\ EmittedIfListeners(socket[s].at, room)
  /\ UNCHANGED <<requestVars, rows, socket, rooms, joining, ordered, unseen>>

FiftyMs(p) ==
  /\ throttled[p] # {}
  /\ throttled' = [throttled EXCEPT ![p] = {}]
  /\ UNCHANGED <<requestVars, rows, socket, rooms, joining, ordered, heard, missed, unseen>>

SocketNext ==
  \/ \E s \in Sockets :
       \/ HandleConnection(s) \/ HandleDisconnect(s) \/ ObeyOrder(s)
       \/ \E room \in ClientRooms : HandleJoinRoom(s, room) \/ Join(s, room) \/ HandleLeaveRoom(s, room)
       \/ \E q \in Requests : Kick(q, s)
  \/ \E q \in Requests : FetchSockets(q) \/ KickedAll(q)

EventNext ==
  \/ \E room \in ClientRooms :
       \/ EmitEvent(room)
       \/ \E p \in Processes : BridgeEvent(p, room) \/ CanvasEvent(p, room)
       \/ \E s \in Sockets : HandleCursorUpdate(s, room)
  \/ \E p \in Processes : FiftyMs(p)

RealtimeNext == (MemberNext /\ UNCHANGED realtimeVars) \/ SocketNext \/ EventNext

\* The workspaces of organizations and the sockets of their people.
RealtimeSpec ==
  MemberInit /\ RealtimeInit /\ [][RealtimeNext]_<<requestVars, rows, realtimeVars>>

-------------------------------------------------------------------------------
\* A request that is about to disconnect s, or did not get that far.
Disconnects(q, s) ==
  /\ job[q].kind \in {"member_suspend", "member_remove"}
  /\ \/ job[q].phase = "failed"
     \/ job[q].phase = "disconnect" /\ job[q].next.user = Caller(s).user
     \/ job[q].phase = "kick" /\ s \in job[q].next

\* Who is suspended or removed has every live socket in the rooms of the workspace, on any
\* process and also if a join was under way, closed when the request has ended, or the order
\* to close it is on its way to another process.  Only those stay whose
\* request failed or has not come to them, whose client had left the room of its own user
\* when fetchSockets() asked for it, or whose membership a role change that overlapped
\* wrote back.
RoomsAreOfMembers ==
  \A s \in Sockets : \A room \in rooms[s] :
    Live(s) /\ room.type \in {"workspace", "ai-task"} =>
      \/ IsMember(Caller(s).user, room.of)
      \/ s \in ordered \cup unseen
      \/ \E q \in Requests : Disconnects(q, s)
      \/ \E q \in Requests : job[q].kind = "member_role" /\ ~alone[q]

\* A room with a connected socket is never taken for empty: its events are emitted.
EventsReachListeners == missed = {}
===============================================================================
