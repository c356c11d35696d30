-------------------------------- MODULE Tables --------------------------------
(***************************************************************************)
(* Requests that load a row, edit their copy and save() it: comments,      *)
(* documents, assets, concepts, suggestions, members and users.  The row   *)
(* ids of a table are <<table, 1>>, <<table, 2>>... in the order of        *)
(* insertion.                                                              *)
(***************************************************************************)
EXTENDS HttpRequests

VARIABLE rows   \* [row ids -> row or NoRow]

NoRow == [status |-> "none"]
Has(id) == rows[id] # NoRow
Ids(table) == {id \in DOMAIN rows : id[1] = table}
Existing(table) == {id \in Ids(table) : Has(id)}
Free(table) == Ids(table) \ Existing(table)
FirstFree(table) == CHOOSE id \in Free(table) : \A x \in Free(table) : id[2] <= x[2]

\* q remembers its edited copy next of row id; after save() it goes on to phase then.
Copy(kind, p, id, next, then) ==
  [kind |-> kind, at |-> p, phase |-> "diff", row |-> id, next |-> next, dirty |-> {},
   then |-> then]

\* The first statement of most operations: find the row, refuse or edit.
Edits(q, kind, p, id, allowed, next, then) ==
  Begins(q, IF allowed THEN Copy(kind, p, id, next, then) ELSE Answered(kind, "refused"))

\* save() of a copy.
DiffRow(q, kinds) ==
  /\ At(q, kinds, "diff")
  /\ job' = [job EXCEPT ![q].phase = "write",
                        ![q].dirty = Differing(job[q].next, rows[job[q].row])]
  /\ UNCHANGED <<alone, faults, rows>>

WriteRow(q, kinds) ==
  /\ At(q, kinds, "write")
  /\ rows' = [rows EXCEPT ![job[q].row] = Written(@, job[q].next, job[q].dirty)]
  /\ Goes(q, job[q].then)

\* save() of a new row; table is the name of the table.
InsertRow(q, kinds, table) ==
  /\ At(q, kinds, "insert")
  /\ Free(table) # {}
  /\ rows' = [rows EXCEPT ![FirstFree(table)] = job[q].next]
  /\ job' = [job EXCEPT ![q].phase = job[q].then, ![q].row = FirstFree(table)]
  /\ UNCHANGED <<alone, faults>>

\* The audit log comes last; q keeps its copy for the properties.
AuditedRow(q, kinds) == At(q, kinds, "audit") /\ Goes(q, "ok") /\ UNCHANGED rows

\* Whether q has written its copy.
HasWritten(q, kinds) == job[q].kind \in kinds /\ job[q].phase \in {"audit", "publish", "ok"}

\* A decision q wrote while nobody overlapped it is still there, column by column.
Sticks(q, kinds, columns) ==
  HasWritten(q, kinds) /\ alone[q] => \A c \in columns : rows[job[q].row][c] = job[q].next[c]
===============================================================================
