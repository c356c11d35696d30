-------------------------------- MODULE Usage --------------------------------
(***************************************************************************)
(* Usage of one workspace (src/modules/usage/usage.service.ts) and the     *)
(* transactions that change it: creating a task, creating a preview that   *)
(* supersedes an older one, and ending a task.  Row locks are taken one by *)
(* one and held to the commit; a transaction's writes appear with its      *)
(* commit.  A task and its reservation have one name, and a reservation is *)
(* for an amount of 1.  No caller passes a limit or cleans up what has     *)
(* expired.                                                                *)
(***************************************************************************)
EXTENDS Integers, FiniteSets, Sequences

CONSTANTS Reservations,     \* reservations and their tasks
          Running,          \* those that exist at first; nothing was completed yet
          Transactions,     \* 1..n in the order in which they begin
          Actuals,          \* amounts that workers report
          MaxLostCalls      \* bound: transactions that a failed call rolls back

ASSUME UsageAssumption ==
  /\ Transactions \subseteq Nat /\ IsFiniteSet(Transactions)
  /\ IsFiniteSet(Reservations) /\ Running \subseteq Reservations
  /\ Actuals \subseteq Nat /\ MaxLostCalls \in Nat

VARIABLES
  reservation,  \* [Reservations -> [status, actual]]
  totals,       \* the row of workspace_usage: {} or one total
  tx,           \* [Transactions -> what it is, holds and knows]
  lost          \* how much of MaxLostCalls is used

usageVars == <<reservation, totals, tx, lost>>

NoTx == [kind |-> "none", phase |-> "idle", new |-> {}, settles |-> {}, actual |-> 0,
         todo |-> <<>>, holds |-> {}, found |-> {}]
Open(t) == tx[t].phase = "open"

UsageInit ==
  /\ reservation = [r \in Reservations |->
       [status |-> IF r \in Running THEN "reserved" ELSE "none", actual |-> 0]]
  /\ totals = {}
  /\ tx = [t \in Transactions |-> NoTx]
  /\ lost = 0

-------------------------------------------------------------------------------
TaskRow(r) == <<"task", r>>
ReservationRow(r) == <<"reservation", r>>
UsageRow == <<"usage", "workspace">>

Opens(t, kind, new, actual, todo) ==
  /\ tx[t] = NoTx /\ \A u \in Transactions : u < t => tx[u] # NoTx
  /\ tx' = [tx EXCEPT ![t] = [NoTx EXCEPT !.kind = kind, !.phase = "open", !.new = new,
                                          !.actual = actual, !.todo = todo]]
  /\ UNCHANGED <<reservation, totals, lost>>

Unused(r) == reservation[r].status = "none" /\ \A t \in Transactions : r \notin tx[t].new
Stored(r) == reservation[r].status # "none"

\* AiTasksService.create() and reserveUsage()
CreateTask(t) == \E r \in Reservations :
  Unused(r) /\ Opens(t, "create", {r}, 0, <<UsageRow>>)

\* CanvasAiPreviewService.create(): reserve, then supersede an older task and release it.
CreatePreview(t) == \E r, older \in Reservations :
  /\ Unused(r) /\ Stored(older)
  /\ Opens(t, "preview", {r}, 0, <<UsageRow, TaskRow(older), ReservationRow(older)>>)

\* finish() of the handler: save the task, then commitUsage().
Complete(t) == \E r \in Reservations, n \in Actuals :
  Stored(r) /\ Opens(t, "complete", {}, n, <<TaskRow(r), ReservationRow(r), UsageRow>>)

\* The task fails or is cancelled: save the task, then releaseUsage().
Release(t) == \E r \in Reservations :
  Stored(r) /\ Opens(t, "release", {}, 0, <<TaskRow(r), ReservationRow(r)>>)

-------------------------------------------------------------------------------
HeldByOther(t, row) == \E u \in Transactions \ {t} : row \in tx[u].holds

\* finish() that does not look at the status of the reservation.
ReadsAnyway(t, row) ==
  [tx[t] EXCEPT !.todo = Tail(@),
                !.settles = IF row[1] = "reservation" THEN {row[2]} ELSE @,
                !.found = IF row = UsageRow THEN totals ELSE @]

\* What the read of a row tells: a reservation that is not reserved any more ends finish().
Reads(t, row) ==
  LET settled == row[1] = "reservation" /\ reservation[row[2]].status # "reserved"
  IN [tx[t] EXCEPT !.todo = IF settled THEN <<>> ELSE Tail(@),
                   !.settles = IF row[1] = "reservation" /\ ~settled THEN {row[2]} ELSE @,
                   !.found = IF row = UsageRow THEN totals ELSE @]

\* findOne() with pessimistic_write, or the UPDATE of the task: waits for the row, reads
\* it and holds it.  A usage row that does not exist is neither found nor locked.
LockRow(t) ==
  /\ Open(t) /\ tx[t].todo # <<>>
  /\ LET row == Head(tx[t].todo)
     IN /\ ~HeldByOther(t, row)
        /\ tx' = [tx EXCEPT ![t] = [Reads(t, row) EXCEPT
             !.holds = tx[t].holds \cup (IF row = UsageRow /\ totals = {} THEN {} ELSE {row})]]
  /\ UNCHANGED <<reservation, totals, lost>>

Closes(t, phase) ==
  tx' = [tx EXCEPT ![t].phase = phase, ![t].holds = {}, ![t].todo = <<>>]

Done(t) == Open(t) /\ tx[t].todo = <<>>
Counts(t) == tx[t].kind = "complete" /\ tx[t].settles # {}

\* The last statements and the commit.
Commit(t) ==
  /\ Done(t)
  /\ Counts(t) /\ tx[t].found = {} => totals = {}
  /\ reservation' = [r \in Reservations |->
       IF r \in tx[t].new THEN [status |-> "reserved", actual |-> 0]
       ELSE IF r \notin tx[t].settles THEN reservation[r]
       ELSE IF Counts(t) THEN [status |-> "committed", actual |-> tx[t].actual]
       ELSE [status |-> "released", actual |-> 0]]
  /\ totals' = IF ~Counts(t) THEN totals
               ELSE IF tx[t].found = {} THEN {tx[t].actual}
               ELSE {n + tx[t].actual : n \in tx[t].found}
  /\ Closes(t, "committed")
  /\ UNCHANGED lost

\* The INSERT of the workspace's first usage row: somebody else's is there by now.
Duplicate(t) ==
  /\ Done(t) /\ Counts(t) /\ tx[t].found = {} /\ totals # {}
  /\ Closes(t, "duplicate")
  /\ UNCHANGED <<reservation, totals, lost>>

\* PostgreSQL ends a transaction that is in a cycle of transactions that wait for one
\* another; a row has one holder, so each waits for one.
WaitsFor(t, u) ==
  t # u /\ Open(t) /\ tx[t].todo # <<>> /\ Head(tx[t].todo) \in tx[u].holds

Deadlock(t) ==
  /\ \E cycle \in SUBSET Transactions :
       /\ t \in cycle
       /\ \A u \in cycle : (\E v \in cycle : WaitsFor(u, v)) /\ (\E v \in cycle : WaitsFor(v, u))
  /\ Closes(t, "deadlock")
  /\ UNCHANGED <<reservation, totals, lost>>

CallFails(t) ==
  /\ Open(t) /\ lost < MaxLostCalls /\ lost' = lost + 1
  /\ Closes(t, "failed")
  /\ UNCHANGED <<reservation, totals>>

UsageNext == \E t \in Transactions :
  \/ CreateTask(t) \/ CreatePreview(t) \/ Complete(t) \/ Release(t)
  \/ LockRow(t) \/ Commit(t) \/ Duplicate(t) \/ Deadlock(t) \/ CallFails(t)

\* The transactions on their own.
UsageSpec == UsageInit /\ [][UsageNext]_usageVars

-------------------------------------------------------------------------------
Ended(phase) == {t \in Transactions : tx[t].phase = phase}
OfKind(kind) == {t \in Transactions : tx[t].kind = kind}

\* What the tasks reported, counted one by one.
Reported == Cardinality(UNION {{r} \X (1..reservation[r].actual) : r \in Reservations})

\* The total of a workspace is the sum of what its tasks reported, each once, although
\* every completion adds to a number it has read.  Without a failed call a transaction is
\* rolled back in two cases only: two completions both found no usage row, or a
\* preview, which locks usage before tasks, met one that locks them the other way round.
UsageIsAccounted ==
  /\ totals = {Reported} \/ (totals = {} /\ Reported = 0)
  /\ Ended("duplicate") \subseteq OfKind("complete")
  /\ Ended("duplicate") # {} => \E t \in Ended("committed") : Counts(t) /\ tx[t].found = {}
  /\ Ended("deadlock") # {} => OfKind("preview") # {} /\ OfKind("complete") # {}
===============================================================================
