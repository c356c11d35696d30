-------------------------- MODULE CollaborationProofs --------------------------
(***************************************************************************)
(* Proofs about the components of MCCollaboration: what requests to        *)
(* concepts, assets and suggestions, to projects, workflows and share      *)
(* links, to comments and approvals, and to documents do to their tables,  *)
(* for any number of requests, rows and failed calls; the health answers,  *)
(* for any number of services; the usage of a workspace, for any number of *)
(* tasks and transactions.  At the end, the composition of the components. *)
(***************************************************************************)
EXTENDS MCCollaboration, FiniteSetTheorems, RequestProofs

\* A new row gets the first free id of its table.
LEMMA FirstFreeIsFree ==
  ASSUME NEW table, \A id \in DOMAIN rows : id[2] \in Nat, Free(table) # {}
  PROVE  /\ FirstFree(table) \in Ids(table) /\ FirstFree(table) \in DOMAIN rows
         /\ FirstFree(table)[1] = table /\ rows[FirstFree(table)] = NoRow
<1>1. \A id \in Free(table) : id[2] \in Nat
  BY DEF Free, Ids
<1>2. FirstFree(table) \in Free(table)
  BY <1>1, FirstOfIds DEF FirstFree
<1> QED BY <1>2 DEF Free, Ids, Existing, Has

-------------------------------------------------------------------------------
(* Concepts, assets and suggestions. *)

TableOf(kind) ==
  IF kind \in ConceptKinds THEN "concept" ELSE IF kind \in AssetKinds THEN "asset" ELSE "suggestion"

ConceptRow(r) == r = [c \in {"status", "title"} |-> r[c]]
AssetRow(r) ==
  /\ r = [c \in {"status", "file", "parent", "version"} |-> r[c]]
  /\ r.version \in Nat
  /\ r.parent = {} \/ \E root : r.parent = {root}
SuggestionRow(r) == r = [c \in {"status", "task", "decided"} |-> r[c]]

\* Rows of other components are left alone.
RowOf(table, r) ==
  \/ table = "concept" /\ ConceptRow(r)
  \/ table = "asset" /\ AssetRow(r)
  \/ table = "suggestion" /\ SuggestionRow(r)
  \/ table \notin {"concept", "asset", "suggestion"}

\* Versions have a bound: there are finitely many rows.
CreationTables ==
  /\ rows = [id \in DOMAIN rows |-> rows[id]]
  /\ \A id \in DOMAIN rows : id[2] \in Nat /\ (Has(id) => RowOf(id[1], rows[id]))
  /\ \E b \in Nat : \A id \in Existing("asset") : rows[id].version <= b

\* A status that no later request changes.
EndStatus(table, status) ==
  \/ table = "concept" /\ status = "archived"
  \/ table = "asset" /\ status \in {"approved", "rejected"}

ClosingKinds == {"concept_archive", "asset_approve", "asset_reject"}

SuggestionsRaced == \E q \in Requests : job[q].kind \in SuggestionKinds /\ ~alone[q]
ResultsRepeated ==
  \E q1, q2 \in Requests : q1 # q2 /\ job[q1].kind = "suggestion_result"
                                   /\ job[q2].kind = "suggestion_result"
Reopened == SuggestionsRaced \/ ResultsRepeated
OneDecision(r) == r.decided = {} \/ \E d : r.decided = {d}

CreationFields == JobFields \cup {"row", "next", "dirty", "then"}

\* A copy keeps what only the insertion decides, and a status that is closed.
CopyOK(kind, id, next) ==
  /\ id \in Existing(TableOf(kind)) /\ RowOf(TableOf(kind), next)
  /\ kind \in AssetKinds => next.parent = rows[id].parent /\ next.version = rows[id].version
  /\ kind \in ClosingKinds => EndStatus(TableOf(kind), next.status)
  /\ kind \in SuggestionKinds => Reopened \/ (next.status # "ready" /\ OneDecision(next))

NewRowOK(kind, next) ==
  /\ RowOf(TableOf(kind), next) /\ kind \notin ClosingKinds
  /\ kind \in AssetKinds /\ kind # "asset_variation" => next.version = 1
  /\ kind \in SuggestionKinds => kind = "suggestion_result" /\ next.decided = {}

\* The newest version was read by a request nobody overlapped.
IsNewest(next) ==
  \A v \in Existing("asset") : rows[v].parent = next.parent => rows[v].version < next.version

\* Everything a request at work holds.
WorkOK(q) ==
  Busy(q) =>
    /\ job[q].kind \in CreationKinds /\ job[q].then = "ok"
    /\ CreationFields \subseteq DOMAIN job[q]
    /\ job[q].phase \in {"version", "insert", "diff", "write"}
    /\ job[q].phase = "version" => /\ job[q].kind = "asset_variation" /\ AssetRow(job[q].next)
                                   /\ \E root : job[q].next.parent = {root}
    /\ job[q].phase = "insert" => NewRowOK(job[q].kind, job[q].next)
    /\ job[q].phase = "insert" /\ job[q].kind = "asset_variation" /\ alone[q] => IsNewest(job[q].next)
    /\ job[q].phase \in {"diff", "write"} => CopyOK(job[q].kind, job[q].row, job[q].next)
    /\ job[q].phase = "write" /\ alone[q] =>
         job[q].dirty = Differing(job[q].next, rows[job[q].row])

\* The copies of others agree with a status that was closed by q alone.
Agrees(x, q) ==
  job[x].phase \in {"diff", "write"} /\ job[x].row = job[q].row => job[x].next.status = job[q].next.status

ClosedOK(q) ==
  job[q].kind \in ClosingKinds /\ job[q].phase = "ok" /\ alone[q] =>
    /\ job[q].row \in Existing(TableOf(job[q].kind))
    /\ EndStatus(TableOf(job[q].kind), job[q].next.status)
    /\ rows[job[q].row].status = job[q].next.status
    /\ \A x \in Requests \ {q} : Agrees(x, q)

VersionsRaced == \E q \in Requests : job[q].kind = "asset_variation" /\ ~alone[q]

VersionsDiffer ==
  \/ VersionsRaced
  \/ \A x, y \in Existing("asset") :
       x # y /\ rows[x].parent # {} /\ rows[x].parent = rows[y].parent /\ rows[x].version # 1
         => rows[x].version # rows[y].version

DecidedOnce ==
  /\ Existing("suggestion") # {} => \E q \in Requests : job[q].kind = "suggestion_result"
  /\ \/ Reopened
     \/ \A id \in Existing("suggestion") :
          OneDecision(rows[id]) /\ (rows[id].status = "ready" => rows[id].decided = {})

CreationInv ==
  /\ RequestInv /\ CreationTables
  /\ \A q \in Requests : job[q].kind \in CreationKinds \cup {"none"} /\ WorkOK(q) /\ ClosedOK(q)
  /\ VersionsDiffer /\ DecidedOnce

LEMMA TablesOfKinds == \A kind : TableOf(kind) \in {"concept", "asset", "suggestion"}
BY DEF TableOf

LEMMA CreationRowsAreRows ==
  ASSUME NEW table \in {"concept", "asset", "suggestion"}, NEW r, RowOf(table, r)
  PROVE  r # NoRow /\ (table = "asset" => AssetRow(r)) /\ (table = "suggestion" => SuggestionRow(r))
<1>1. DOMAIN NoRow = {"status"}
  BY DEF NoRow
<1>2. "title" \in DOMAIN r \/ "file" \in DOMAIN r \/ "task" \in DOMAIN r
  BY DEF RowOf, ConceptRow, AssetRow, SuggestionRow
<1> QED BY <1>1, <1>2 DEF RowOf

\* What an UPDATE makes of a row: each column is the row's or the copy's.
LEMMA UpdatedRow ==
  ASSUME NEW table \in {"concept", "asset", "suggestion"}, NEW r, NEW next,
         RowOf(table, r), RowOf(table, next), NEW dirty
  PROVE  LET w == Written(r, next, dirty)
         IN /\ RowOf(table, w)
            /\ r.status = next.status => w.status = r.status
            /\ table = "asset" /\ next.parent = r.parent /\ next.version = r.version
                 => w.parent = r.parent /\ w.version = r.version
            /\ dirty = Differing(next, r) => w = next
<1> DEFINE w == Written(r, next, dirty)
<1>1. CASE table = "concept"
  <2>1. ConceptRow(r) /\ ConceptRow(next)
    BY <1>1 DEF RowOf
  <2>2. /\ w = [c \in {"status", "title"} |-> IF c \in dirty THEN next[c] ELSE r[c]]
        /\ DOMAIN r = {"status", "title"}
    BY <2>1 DEF ConceptRow, Written
  <2>3. ConceptRow(w) /\ (r.status = next.status => w.status = r.status)
    BY <2>2 DEF ConceptRow
  <2>4. dirty = Differing(next, r) => w = next
    <3> SUFFICES ASSUME dirty = Differing(next, r) PROVE w = next
      OBVIOUS
    <3>1. \A c \in {"status", "title"} : w[c] = next[c]
      BY <2>2 DEF Differing
    <3> QED BY <2>1, <2>2, <3>1 DEF ConceptRow
  <2> QED BY <1>1, <2>3, <2>4 DEF RowOf
<1>2. CASE table = "suggestion"
  <2>1. SuggestionRow(r) /\ SuggestionRow(next)
    BY <1>2 DEF RowOf
  <2>2. /\ w = [c \in {"status", "task", "decided"} |-> IF c \in dirty THEN next[c] ELSE r[c]]
        /\ DOMAIN r = {"status", "task", "decided"}
    BY <2>1 DEF SuggestionRow, Written
  <2>3. SuggestionRow(w) /\ (r.status = next.status => w.status = r.status)
    BY <2>2 DEF SuggestionRow
  <2>4. dirty = Differing(next, r) => w = next
    <3> SUFFICES ASSUME dirty = Differing(next, r) PROVE w = next
      OBVIOUS
    <3>1. \A c \in {"status", "task", "decided"} : w[c] = next[c]
      BY <2>2 DEF Differing
    <3> QED BY <2>1, <2>2, <3>1 DEF SuggestionRow
  <2> QED BY <1>2, <2>3, <2>4 DEF RowOf
<1>3. CASE table = "asset"
  <2>1. AssetRow(r) /\ AssetRow(next)
    BY <1>3 DEF RowOf
  <2> DEFINE Columns == {"status", "file", "parent", "version"}
  <2>2. w = [c \in Columns |-> IF c \in dirty THEN next[c] ELSE r[c]] /\ DOMAIN r = Columns
    BY <2>1 DEF AssetRow, Written
  <2>3. /\ w = [c \in Columns |-> w[c]] /\ (r.status = next.status => w.status = r.status)
        /\ w.parent \in {next.parent, r.parent} /\ w.version \in {next.version, r.version}
    BY <2>2
  <2>4. AssetRow(w)
    BY <2>1, <2>3 DEF AssetRow
  <2>5. dirty = Differing(next, r) => w = next
    <3> SUFFICES ASSUME dirty = Differing(next, r) PROVE w = next
      OBVIOUS
    <3>1. \A c \in Columns : w[c] = next[c]
      BY <2>2 DEF Differing
    <3> QED BY <2>1, <2>2, <3>1 DEF AssetRow
  <2> QED BY <1>3, <2>3, <2>4, <2>5 DEF RowOf
<1> QED BY <1>1, <1>2, <1>3 DEF RowOf

-------------------------------------------------------------------------------
(* One step. *)

Inserts(q) ==
  /\ At(q, CreationKinds, "insert")
  /\ \E u \in DOMAIN rows : /\ u[1] = TableOf(job[q].kind) /\ rows[u] = NoRow
                           /\ rows' = [rows EXCEPT ![u] = job[q].next]

Writes(q) ==
  /\ At(q, CreationKinds, "write")
  /\ rows' = [rows EXCEPT ![job[q].row] = Written(@, job[q].next, job[q].dirty)]

RowStep(q) == UNCHANGED rows \/ Inserts(q) \/ Writes(q)

\* A copy that q goes on with or has made of a row with its status.
KeepsStatus(q) ==
  job'[q].phase \in {"diff", "write"} =>
    \/ /\ job[q].phase \in {"diff", "write"}
       /\ job'[q].row = job[q].row /\ job'[q].next = job[q].next
    \/ /\ UNCHANGED rows
       /\ EndStatus(TableOf(job'[q].kind), rows[job'[q].row].status)
            => job'[q].next.status = rows[job'[q].row].status

LEMMA RacesStay ==
  ASSUME NEW q \in Requests, Steps(q)
  PROVE  /\ VersionsRaced => VersionsRaced'
         /\ Reopened => Reopened'
         /\ \A x \in Requests : job[x].kind # "none" => job'[x].kind = job[x].kind
<1>1. \A x \in Requests : job[x].kind # "none" => job'[x].kind = job[x].kind
  BY DEF Steps, OthersStay
<1>2. \A x \in Requests : job[x].kind # "none" /\ ~alone[x] => ~alone'[x]
  BY DEF Steps
<1>3. VersionsRaced => VersionsRaced'
  BY <1>1, <1>2 DEF VersionsRaced
<1>4. SuggestionsRaced => SuggestionsRaced'
  BY <1>1, <1>2 DEF SuggestionsRaced, SuggestionKinds
<1>5. ResultsRepeated => ResultsRepeated'
  BY <1>1 DEF ResultsRepeated
<1> QED BY <1>1, <1>3, <1>4, <1>5 DEF Reopened

LEMMA TableOfKind ==
  ASSUME NEW kind \in CreationKinds
  PROVE  /\ TableOf(kind) = "asset" <=> kind \in AssetKinds
         /\ TableOf(kind) = "suggestion" <=> kind \in SuggestionKinds
         /\ TableOf(kind) = "concept" <=> kind \in ConceptKinds
         /\ kind # "none"
BY DEF TableOf, CreationKinds, ConceptKinds, AssetKinds, SuggestionKinds

\* What a step leaves of the rows: they keep what their insertion decided.
Keeps(q, id) ==
  /\ rows'[id] # NoRow
  /\ id[1] = "asset" => rows'[id].parent = rows[id].parent /\ rows'[id].version = rows[id].version
  /\ (At(q, CreationKinds, "write") /\ job[q].row = id => job[q].next.status = rows[id].status)
       => rows'[id].status = rows[id].status

LEMMA RowsKept ==
  ASSUME CreationInv, NEW q \in Requests, RowStep(q)
  PROVE  /\ DOMAIN rows' = DOMAIN rows /\ rows' = [id \in DOMAIN rows |-> rows'[id]]
         /\ \A id \in DOMAIN rows : Has(id) => Keeps(q, id)
         /\ \A id \in DOMAIN rows : rows'[id] # NoRow => RowOf(id[1], rows'[id])
<1>1. rows = [id \in DOMAIN rows |-> rows[id]]
      /\ \A id \in DOMAIN rows : Has(id) => RowOf(id[1], rows[id])
  BY DEF CreationInv, CreationTables
<1>2. CASE UNCHANGED rows
  BY <1>1, <1>2 DEF Keeps, Has
<1>3. CASE Inserts(q)
  <2>1. PICK u \in DOMAIN rows : /\ u[1] = TableOf(job[q].kind) /\ rows[u] = NoRow
                                 /\ rows' = [rows EXCEPT ![u] = job[q].next]
    BY <1>3 DEF Inserts
  <2>2. Busy(q) /\ job[q].phase = "insert"
    BY <1>3 DEF Inserts, At, Busy, Outcomes
  <2>3. RowOf(u[1], job[q].next)
    BY <2>1, <2>2 DEF CreationInv, WorkOK, NewRowOK
  <2>4. rows'[u] = job[q].next /\ \A id \in DOMAIN rows \ {u} : rows'[id] = rows[id]
    BY <1>1, <2>1
  <2>5. DOMAIN rows' = DOMAIN rows /\ rows' = [id \in DOMAIN rows |-> rows'[id]]
    BY <1>1, <2>1
  <2>6. \A id \in DOMAIN rows : rows'[id] # NoRow => RowOf(id[1], rows'[id])
    BY <1>1, <2>3, <2>4 DEF Has
  <2>7. \A id \in DOMAIN rows : Has(id) => Keeps(q, id)
    BY <2>1, <2>4 DEF Keeps, Has
  <2> QED BY <2>5, <2>6, <2>7
<1>4. CASE Writes(q)
  <2> DEFINE u == job[q].row
             w == Written(rows[u], job[q].next, job[q].dirty)
  <2>1. Busy(q) /\ job[q].phase = "write" /\ job[q].kind \in CreationKinds
        /\ rows' = [rows EXCEPT ![u] = w]
    BY <1>4 DEF Writes, At, Busy, Outcomes
  <2>2. CopyOK(job[q].kind, u, job[q].next)
    BY <2>1 DEF CreationInv, WorkOK
  <2>3. u \in DOMAIN rows /\ u[1] = TableOf(job[q].kind) /\ Has(u)
        /\ RowOf(u[1], job[q].next)
    BY <2>2 DEF CopyOK, Existing, Ids
  <2>4. RowOf(u[1], rows[u])
    BY <1>1, <2>3
  <2>5. u[1] = "asset" => job[q].next.parent = rows[u].parent /\ job[q].next.version = rows[u].version
    BY <2>1, <2>2, <2>3, TableOfKind DEF CopyOK
  <2>6. /\ RowOf(u[1], w)
        /\ rows[u].status = job[q].next.status => w.status = rows[u].status
        /\ u[1] = "asset" => w.parent = rows[u].parent /\ w.version = rows[u].version
    <3>1. u[1] \in {"concept", "asset", "suggestion"}
      BY <2>3, TablesOfKinds
    <3> HIDE DEF w, u
    <3> QED BY <2>3, <2>4, <2>5, <3>1, UpdatedRow DEF w
  <2>7. rows'[u] = w /\ \A id \in DOMAIN rows \ {u} : rows'[id] = rows[id]
    BY <1>1, <2>1, <2>3
  <2>8. DOMAIN rows' = DOMAIN rows /\ rows' = [id \in DOMAIN rows |-> rows'[id]]
    BY <1>1, <2>1
  <2>9. w # NoRow
    BY <2>3, <2>6, TablesOfKinds, CreationRowsAreRows
  <2> HIDE DEF w
  <2>10. \A id \in DOMAIN rows : rows'[id] # NoRow => RowOf(id[1], rows'[id])
    BY <1>1, <2>6, <2>7 DEF Has
  <2>11. At(q, CreationKinds, "write")
    BY <2>1 DEF At
  <2>12. Keeps(q, u)
    BY <2>6, <2>7, <2>9, <2>11 DEF Keeps
  <2>13. \A id \in DOMAIN rows \ {u} : Has(id) => Keeps(q, id)
    BY <2>7 DEF Keeps, Has
  <2> QED BY <2>8, <2>10, <2>12, <2>13
<1> QED BY <1>2, <1>3, <1>4 DEF RowStep

\* A row that is new is the one q inserts.
LEMMA NewRowIsOfCopy ==
  ASSUME CreationInv, NEW q \in Requests, RowStep(q), NEW id \in DOMAIN rows, ~Has(id), Has(id)'
  PROVE  /\ Inserts(q) /\ id[1] = TableOf(job[q].kind) /\ rows'[id] = job[q].next
         /\ \A x \in DOMAIN rows \ {id} : rows'[x] = rows[x]
<1>1. rows = [x \in DOMAIN rows |-> rows[x]]
  BY DEF CreationInv, CreationTables
<1>2. rows[id] = NoRow /\ rows'[id] # NoRow
  BY DEF Has
<1>3. ~Writes(q)
  <2> SUFFICES ASSUME Writes(q) PROVE FALSE
    OBVIOUS
  <2>1. Busy(q) /\ job[q].phase = "write"
        /\ rows' = [rows EXCEPT ![job[q].row] = Written(rows[job[q].row], job[q].next, job[q].dirty)]
    BY DEF Writes, At, Busy, Outcomes
  <2>2. Has(job[q].row)
    BY <2>1 DEF CreationInv, WorkOK, CopyOK, Existing
  <2>3. job[q].row # id
    BY <1>2, <2>2 DEF Has
  <2> QED BY <1>1, <1>2, <2>1, <2>3
<1>4. Inserts(q)
  BY <1>2, <1>3 DEF RowStep
<1>5. PICK u \in DOMAIN rows : /\ u[1] = TableOf(job[q].kind) /\ rows[u] = NoRow
                               /\ rows' = [rows EXCEPT ![u] = job[q].next]
  BY <1>4 DEF Inserts
<1>6. id = u
  BY <1>1, <1>2, <1>5
<1> QED BY <1>1, <1>4, <1>5, <1>6

LEMMA WrittenAlone ==
  ASSUME CreationInv, NEW q \in Requests, Writes(q)
  PROVE  /\ job[q].row \in Existing(TableOf(job[q].kind))
         /\ CopyOK(job[q].kind, job[q].row, job[q].next)
         /\ alone[q] => rows'[job[q].row] = job[q].next
         /\ \A x \in DOMAIN rows \ {job[q].row} : rows'[x] = rows[x]
<1>1. rows = [x \in DOMAIN rows |-> rows[x]]
      /\ \A id \in DOMAIN rows : Has(id) => RowOf(id[1], rows[id])
  BY DEF CreationInv, CreationTables
<1>2. /\ Busy(q) /\ job[q].phase = "write"
      /\ rows' = [rows EXCEPT ![job[q].row] = Written(rows[job[q].row], job[q].next, job[q].dirty)]
  BY DEF Writes, At, Busy, Outcomes
<1>3. /\ CopyOK(job[q].kind, job[q].row, job[q].next)
      /\ alone[q] => job[q].dirty = Differing(job[q].next, rows[job[q].row])
  BY <1>2 DEF CreationInv, WorkOK
<1>4. /\ job[q].row \in Existing(TableOf(job[q].kind)) /\ job[q].row \in DOMAIN rows
      /\ RowOf(TableOf(job[q].kind), rows[job[q].row]) /\ RowOf(TableOf(job[q].kind), job[q].next)
  BY <1>1, <1>3 DEF CopyOK, Existing, Ids
<1>5. alone[q] => Written(rows[job[q].row], job[q].next, job[q].dirty) = job[q].next
  BY <1>3, <1>4, TablesOfKinds, UpdatedRow
<1> QED BY <1>1, <1>2, <1>3, <1>4, <1>5

LEMMA TablesStay ==
  ASSUME CreationInv, NEW q \in Requests, RowStep(q)
  PROVE  CreationTables'
<1>1. /\ DOMAIN rows' = DOMAIN rows /\ rows' = [id \in DOMAIN rows |-> rows'[id]]
      /\ \A id \in DOMAIN rows : Has(id) => Keeps(q, id)
      /\ \A id \in DOMAIN rows : rows'[id] # NoRow => RowOf(id[1], rows'[id])
  BY RowsKept
<1>2. PICK b \in Nat : \A id \in Existing("asset") : rows[id].version <= b
  BY DEF CreationInv, CreationTables
<1>3. \A id \in DOMAIN rows : id[2] \in Nat /\ (Has(id) => RowOf(id[1], rows[id]))
  BY DEF CreationInv, CreationTables
<1>4. \E c \in Nat : \A id \in Existing("asset")' : rows'[id].version <= c
  <2>1. CASE \A id \in Existing("asset")' : Has(id)
    <3>1. \A id \in Existing("asset")' : id \in Existing("asset") /\ rows'[id].version = rows[id].version
      BY <1>1, <2>1 DEF Existing, Ids, Keeps
    <3> QED BY <1>2, <3>1
  <2>2. ASSUME NEW u \in Existing("asset")', ~Has(u)
        PROVE  \E c \in Nat : \A id \in Existing("asset")' : rows'[id].version <= c
    <3>1. u \in DOMAIN rows /\ u[1] = "asset" /\ Has(u)'
      BY <1>1 DEF Existing, Ids
    <3>2. \A x \in DOMAIN rows \ {u} : rows'[x] = rows[x]
      BY <2>2, <3>1, NewRowIsOfCopy
    <3>3. rows'[u].version \in Nat
      BY <1>1, <3>1 DEF Has, RowOf, AssetRow
    <3>4. b + rows'[u].version \in Nat
      BY <3>3
    <3>5. \A id \in Existing("asset")' \ {u} : id \in Existing("asset") /\ rows'[id] = rows[id]
      BY <1>1, <3>2 DEF Existing, Ids, Has
    <3>6. \A id \in Existing("asset") : rows[id].version \in Nat
      BY <1>3 DEF Existing, Ids, RowOf, AssetRow
    <3>7. \A id \in Existing("asset")' \ {u} : rows'[id].version <= b + rows'[u].version
      BY <1>2, <3>3, <3>5, <3>6
    <3>8. rows'[u].version <= b + rows'[u].version
      BY <3>3
    <3> QED BY <3>4, <3>7, <3>8
  <2> QED BY <2>1, <2>2
<1> QED BY <1>1, <1>3, <1>4 DEF CreationTables, Has

LEMMA VersionsStep ==
  ASSUME CreationInv, NEW q \in Requests, Steps(q), RowStep(q)
  PROVE  VersionsDiffer'
<1>1. /\ DOMAIN rows' = DOMAIN rows
      /\ \A id \in DOMAIN rows : Has(id) => Keeps(q, id)
      /\ \A id \in DOMAIN rows : rows'[id] # NoRow => RowOf(id[1], rows'[id])
  BY RowsKept
<1>2. CASE VersionsRaced
  BY <1>2, RacesStay DEF VersionsDiffer
<1>3. CASE ~VersionsRaced
  <2>1. \A x, y \in Existing("asset") :
          x # y /\ rows[x].parent # {} /\ rows[x].parent = rows[y].parent /\ rows[x].version # 1
            => rows[x].version # rows[y].version
    BY <1>3 DEF CreationInv, VersionsDiffer
  <2>2. ASSUME NEW u \in Existing("asset")', ~Has(u), NEW x \in Existing("asset")', x # u,
               rows'[x].parent # {}, rows'[x].parent = rows'[u].parent, rows'[u].version # 1
        PROVE  rows'[x].version # rows'[u].version
    <3>1. u \in DOMAIN rows /\ u[1] = "asset" /\ Has(u)'
      BY <1>1, <2>2 DEF Existing, Ids
    <3>2. /\ Inserts(q) /\ TableOf(job[q].kind) = "asset" /\ rows'[u] = job[q].next
          /\ \A z \in DOMAIN rows \ {u} : rows'[z] = rows[z]
      BY <2>2, <3>1, NewRowIsOfCopy
    <3>3. Busy(q) /\ job[q].phase = "insert" /\ job[q].kind \in CreationKinds
      BY <3>2 DEF Inserts, At, Busy, Outcomes
    <3>4. job[q].kind \in AssetKinds
      BY <3>2, <3>3, TableOfKind
    <3>5. job[q].kind = "asset_variation"
      BY <2>2, <3>2, <3>3, <3>4 DEF CreationInv, WorkOK, NewRowOK
    <3>6. IsNewest(job[q].next)
      BY <1>3, <3>3, <3>5 DEF CreationInv, WorkOK, VersionsRaced
    <3>7. x \in Existing("asset") /\ rows'[x] = rows[x]
      BY <1>1, <2>2, <3>2 DEF Existing, Ids, Has
    <3>8. rows[x].version < job[q].next.version
      BY <2>2, <3>2, <3>6, <3>7 DEF IsNewest
    <3>9. rows[x].version \in Nat /\ job[q].next.version \in Nat
      BY <1>1, <3>1, <3>2, <3>7 DEF Existing, Ids, Has, RowOf, AssetRow
    <3> QED BY <3>2, <3>7, <3>8, <3>9
  <2>3. ASSUME NEW x \in Existing("asset")', NEW y \in Existing("asset")', x # y,
               rows'[x].parent # {}, rows'[x].parent = rows'[y].parent, rows'[x].version # 1
        PROVE  rows'[x].version # rows'[y].version
    <3>1. CASE ~Has(x)
      BY <2>2, <2>3, <3>1
    <3>2. CASE ~Has(y)
      BY <2>2, <2>3, <3>2
    <3>3. CASE Has(x) /\ Has(y)
      <4>1. x \in Existing("asset") /\ y \in Existing("asset")
        BY <1>1, <3>3 DEF Existing, Ids
      <4>2. Keeps(q, x) /\ Keeps(q, y) /\ x[1] = "asset" /\ y[1] = "asset"
        BY <1>1, <3>3, <4>1 DEF Existing, Ids
      <4> QED BY <2>1, <2>3, <4>1, <4>2 DEF Keeps
    <3> QED BY <3>1, <3>2, <3>3
  <2> QED BY <2>3 DEF VersionsDiffer
<1> QED BY <1>2, <1>3

LEMMA DecisionsStep ==
  ASSUME CreationInv, NEW q \in Requests, Steps(q), RowStep(q)
  PROVE  DecidedOnce'
<1>1. /\ DOMAIN rows' = DOMAIN rows
      /\ \A x \in Requests : job[x].kind # "none" => job'[x].kind = job[x].kind
  BY RowsKept, RacesStay
<1>2. ASSUME NEW u \in Existing("suggestion")', ~Has(u)
      PROVE  /\ job[q].kind = "suggestion_result" /\ rows'[u].decided = {}
             /\ \A z \in DOMAIN rows \ {u} : rows'[z] = rows[z]
  <2>1. u \in DOMAIN rows /\ u[1] = "suggestion" /\ Has(u)'
    BY <1>1, <1>2 DEF Existing, Ids
  <2>2. /\ Inserts(q) /\ TableOf(job[q].kind) = "suggestion" /\ rows'[u] = job[q].next
        /\ \A z \in DOMAIN rows \ {u} : rows'[z] = rows[z]
    BY <1>2, <2>1, NewRowIsOfCopy
  <2>3. Busy(q) /\ job[q].phase = "insert" /\ job[q].kind \in CreationKinds
    BY <2>2 DEF Inserts, At, Busy, Outcomes
  <2>4. job[q].kind \in SuggestionKinds
    BY <2>2, <2>3, TableOfKind
  <2> QED BY <2>2, <2>3, <2>4 DEF CreationInv, WorkOK, NewRowOK
<1>3. Existing("suggestion")' # {} => \E x \in Requests : job'[x].kind = "suggestion_result"
  <2>1. CASE \E u \in Existing("suggestion")' : ~Has(u)
    BY <1>1, <1>2, <2>1
  <2>2. CASE \A u \in Existing("suggestion")' : Has(u)
    <3>1. Existing("suggestion")' \subseteq Existing("suggestion")
      BY <1>1, <2>2 DEF Existing, Ids
    <3> QED BY <1>1, <3>1 DEF CreationInv, DecidedOnce
  <2> QED BY <2>1, <2>2
<1>4. CASE Reopened
  BY <1>3, <1>4, RacesStay DEF DecidedOnce
<1>5. CASE ~Reopened
  <2>1. \A id \in Existing("suggestion") :
          OneDecision(rows[id]) /\ (rows[id].status = "ready" => rows[id].decided = {})
    BY <1>5 DEF CreationInv, DecidedOnce
  <2>2. ASSUME NEW id \in Existing("suggestion")'
        PROVE  OneDecision(rows'[id]) /\ (rows'[id].status = "ready" => rows'[id].decided = {})
    <3>1. CASE ~Has(id)
      BY <1>2, <3>1 DEF OneDecision
    <3>2. CASE Has(id) /\ rows'[id] = rows[id]
      <4>1. id \in Existing("suggestion")
        BY <1>1, <3>2 DEF Existing, Ids
      <4> QED BY <2>1, <3>2, <4>1
    <3>3. CASE Has(id) /\ rows'[id] # rows[id]
      <4>1. id \in DOMAIN rows /\ id[1] = "suggestion"
        BY <1>1 DEF Existing, Ids
      <4>2. ~Inserts(q)
        <5> SUFFICES ASSUME Inserts(q) PROVE FALSE
          OBVIOUS
        <5>1. PICK u \in DOMAIN rows : rows[u] = NoRow /\ rows' = [rows EXCEPT ![u] = job[q].next]
          BY DEF Inserts
        <5>2. rows = [z \in DOMAIN rows |-> rows[z]]
          BY DEF CreationInv, CreationTables
        <5>3. id # u
          BY <3>3, <5>1 DEF Has
        <5> QED BY <3>3, <4>1, <5>1, <5>2, <5>3
      <4>3. Writes(q)
        BY <3>3, <4>2 DEF RowStep
      <4>4. /\ id = job[q].row /\ CopyOK(job[q].kind, id, job[q].next)
            /\ id \in Existing(TableOf(job[q].kind))
            /\ alone[q] => rows'[id] = job[q].next
        BY <3>3, <4>1, <4>3, WrittenAlone
      <4>5. job[q].kind \in SuggestionKinds
        BY <4>1, <4>3, <4>4, TableOfKind DEF Writes, At, Existing, Ids
      <4>6. alone[q]
        BY <1>5, <4>5 DEF Reopened, SuggestionsRaced
      <4> QED BY <1>5, <4>4, <4>5, <4>6 DEF CopyOK
    <3> QED BY <3>1, <3>2, <3>3
  <2> QED BY <1>3, <2>2 DEF DecidedOnce, OneDecision
<1> QED BY <1>4, <1>5

LEMMA OtherCreations ==
  ASSUME CreationInv, NEW q \in Requests, RequestInv', Steps(q), RowStep(q),
         KeepsStatus(q), WorkOK(q)', NEW x \in Requests \ {q}
  PROVE  WorkOK(x)' /\ ClosedOK(x)'
<1>1. /\ DOMAIN rows' = DOMAIN rows
      /\ \A id \in DOMAIN rows : Has(id) => Keeps(q, id)
      /\ Reopened => Reopened'
  BY RowsKept, RacesStay
<1>2. job'[x] = job[x] /\ (Busy(x) => ~alone'[x])
  BY DEF Steps, OthersStay
<1>3. WorkOK(x) /\ ClosedOK(x) /\ job[x].kind \in CreationKinds \cup {"none"}
  BY DEF CreationInv
<1>4. \A table : Existing(table) \subseteq Existing(table)'
  BY <1>1 DEF Existing, Ids, Has, Keeps
<1>5. WorkOK(x)'
  <2> SUFFICES ASSUME Busy(x) PROVE WorkOK(x)'
    BY <1>2 DEF WorkOK, Busy
  <2>1. ASSUME job[x].phase \in {"diff", "write"} PROVE CopyOK(job[x].kind, job[x].row, job[x].next)'
    <3>1. CopyOK(job[x].kind, job[x].row, job[x].next) /\ job[x].kind \in CreationKinds
      BY <1>3, <2>1 DEF WorkOK
    <3>2. job[x].row \in DOMAIN rows /\ job[x].row[1] = TableOf(job[x].kind) /\ Has(job[x].row)
      BY <3>1 DEF CopyOK, Existing, Ids
    <3>3. job[x].kind \in AssetKinds => job[x].row[1] = "asset"
      BY <3>1, <3>2, TableOfKind
    <3>4. Keeps(q, job[x].row)
      BY <1>1, <3>2
    <3>5. job[x].kind \in AssetKinds => /\ rows'[job[x].row].parent = rows[job[x].row].parent
                                        /\ rows'[job[x].row].version = rows[job[x].row].version
      BY <3>3, <3>4 DEF Keeps
    <3> QED BY <1>1, <1>2, <1>4, <3>1, <3>5 DEF CopyOK
  <2>2. job[x].phase = "insert" => NewRowOK(job[x].kind, job[x].next)
    BY <1>3 DEF WorkOK
  <2> QED BY <1>2, <1>3, <2>1, <2>2 DEF WorkOK, Busy
<1>6. ClosedOK(x)'
  <2> SUFFICES ASSUME job[x].kind \in ClosingKinds, job[x].phase = "ok", alone'[x]
               PROVE  /\ job[x].row \in Existing(TableOf(job[x].kind))'
                      /\ EndStatus(TableOf(job[x].kind), job[x].next.status)
                      /\ rows'[job[x].row].status = job[x].next.status
                      /\ \A y \in Requests \ {x} : Agrees(y, x)'
    BY <1>2 DEF ClosedOK
  <2>1. alone[x]
    BY DEF Steps, ClosingKinds
  <2>2. /\ job[x].row \in Existing(TableOf(job[x].kind))
        /\ EndStatus(TableOf(job[x].kind), job[x].next.status)
        /\ rows[job[x].row].status = job[x].next.status
        /\ \A y \in Requests \ {x} : Agrees(y, x)
    BY <1>3, <2>1 DEF ClosedOK
  <2>3. job[x].row \in DOMAIN rows /\ Has(job[x].row) /\ job[x].row[1] = TableOf(job[x].kind)
    BY <2>2 DEF Existing, Ids
  <2>4. rows'[job[x].row].status = rows[job[x].row].status
    <3>1. At(q, CreationKinds, "write") /\ job[q].row = job[x].row
            => job[q].next.status = rows[job[x].row].status
      BY <2>2 DEF Agrees, At
    <3> QED BY <1>1, <2>3, <3>1 DEF Keeps
  <2>5. Agrees(q, x)'
    <3> SUFFICES ASSUME job'[q].phase \in {"diff", "write"}, job'[q].row = job[x].row
                 PROVE  job'[q].next.status = job[x].next.status
      BY <1>2 DEF Agrees
    <3>1. CASE /\ job[q].phase \in {"diff", "write"}
               /\ job'[q].row = job[q].row /\ job'[q].next = job[q].next
      BY <2>2, <3>1 DEF Agrees
    <3>2. CASE /\ UNCHANGED rows
               /\ EndStatus(TableOf(job'[q].kind), rows[job'[q].row].status)
                    => job'[q].next.status = rows[job'[q].row].status
      <4>1. Busy(q)'
        BY DEF Busy, Outcomes
      <4>2. (job[q].row \in Existing(TableOf(job[q].kind)))'
        BY <4>1 DEF WorkOK, CopyOK
      <4>3. job'[q].row[1] = TableOf(job'[q].kind)
        BY <4>2 DEF Existing, Ids
      <4>4. TableOf(job'[q].kind) = TableOf(job[x].kind)
        BY <2>3, <4>3
      <4> QED BY <2>2, <3>2, <4>4
    <3> QED BY <3>1, <3>2 DEF KeepsStatus
  <2>6. \A y \in Requests \ {x, q} : Agrees(y, x)'
    BY <1>2, <2>2 DEF Agrees, Steps, OthersStay
  <2> QED BY <1>2, <1>4, <2>2, <2>4, <2>5, <2>6
<1> QED BY <1>5, <1>6

CreationEffect(q) ==
  /\ RequestInv' /\ Steps(q) /\ RowStep(q) /\ KeepsStatus(q)
  /\ job'[q].kind \in CreationKinds /\ WorkOK(q)' /\ ClosedOK(q)'

LEMMA CreationStep ==
  ASSUME CreationInv, NEW q \in Requests, CreationEffect(q)
  PROVE  CreationInv'
<1>1. \A x \in Requests \ {q} : WorkOK(x)' /\ ClosedOK(x)' /\ job'[x].kind \in CreationKinds \cup {"none"}
  BY OtherCreations DEF CreationEffect, CreationInv, Steps, OthersStay
<1>2. CreationTables' /\ VersionsDiffer' /\ DecidedOnce'
  BY TablesStay, VersionsStep, DecisionsStep DEF CreationEffect
<1> QED BY <1>1, <1>2 DEF CreationInv, CreationEffect

-------------------------------------------------------------------------------
\* The first statement of a request about a row that exists.
LEMMA EditStep ==
  ASSUME CreationInv, NEW q \in Requests, NEW kind \in CreationKinds, NEW id, NEW allowed, NEW next,
         Edit(q, kind, id, allowed, next), UNCHANGED rows,
         allowed => /\ id \in Existing(TableOf(kind)) /\ RowOf(TableOf(kind), next)
                    /\ kind \in AssetKinds => /\ next.parent = rows[id].parent
                                              /\ next.version = rows[id].version
                    /\ kind \in ClosingKinds => EndStatus(TableOf(kind), next.status)
                    /\ EndStatus(TableOf(kind), rows[id].status) => next.status = rows[id].status
                    /\ kind \in SuggestionKinds => Reopened' \/ (next.status # "ready" /\ OneDecision(next))
  PROVE  CreationEffect(q)
<1> DEFINE c == Copy(kind, NoProcess, id, next, "ok")
           a == Answered(kind, "refused")
<1>1. \/ allowed /\ Begins(q, c)
      \/ Begins(q, a)
  BY DEF Edit, Edits
<1>2. CreationFields \subseteq DOMAIN c /\ c.kind = kind /\ c.phase = "diff" /\ c.row = id
      /\ c.next = next /\ c.then = "ok"
  BY DEF Copy, CreationFields, JobFields
<1>3. a.kind = kind /\ a.phase = "refused" /\ JobFields \subseteq DOMAIN a
  BY AnsweredFields DEF Answered, NoJob
<1>4. CASE allowed /\ Begins(q, c)
  <2> HIDE DEF c
  <2>1. RequestInv' /\ Steps(q) /\ job'[q] = c
    BY <1>2, <1>4, BeginsMeans DEF CreationInv, CreationFields
  <2>2. KeepsStatus(q)
    BY <1>2, <1>4, <2>1 DEF KeepsStatus
  <2>3. CopyOK(kind, id, next)'
    BY <1>4 DEF CopyOK, Existing, Ids, Has
  <2>4. WorkOK(q)'
    BY <1>2, <2>1, <2>3 DEF WorkOK, Busy
  <2>5. ClosedOK(q)'
    BY <1>2, <2>1 DEF ClosedOK
  <2> QED BY <1>2, <2>1, <2>2, <2>4, <2>5 DEF CreationEffect, RowStep
<1>5. CASE Begins(q, a)
  <2> HIDE DEF a
  <2>1. RequestInv' /\ Steps(q) /\ job'[q] = a
    BY <1>3, <1>5, BeginsMeans DEF CreationInv
  <2> QED BY <1>3, <2>1 DEF CreationEffect, RowStep, KeepsStatus, WorkOK, Busy, Outcomes, ClosedOK
<1> QED BY <1>1, <1>4, <1>5

LEMMA NewRowStep ==
  ASSUME CreationInv, NEW q \in Requests, NEW kind \in CreationKinds, NEW table, NEW next,
         NewRow(q, kind, table, next), UNCHANGED rows, NewRowOK(kind, next), kind # "asset_variation"
  PROVE  CreationEffect(q)
<1> DEFINE j == [kind |-> kind, at |-> NoProcess, phase |-> "insert", row |-> <<table, 1>>,
                 next |-> next, dirty |-> {}, then |-> "ok"]
<1>1. Begins(q, j)
  BY DEF NewRow
<1>2. CreationFields \subseteq DOMAIN j /\ j.kind = kind /\ j.phase = "insert" /\ j.next = next
      /\ j.then = "ok"
  BY DEF CreationFields, JobFields
<1> HIDE DEF j
<1>3. RequestInv' /\ Steps(q) /\ job'[q] = j
  BY <1>1, <1>2, BeginsMeans DEF CreationInv, CreationFields
<1>4. WorkOK(q)'
  BY <1>2, <1>3 DEF WorkOK, Busy, NewRowOK
<1> QED BY <1>2, <1>3, <1>4 DEF CreationEffect, RowStep, KeepsStatus, ClosedOK

LEMMA LargestElement ==
  ASSUME NEW S \in SUBSET Nat, S # {}, NEW b \in Nat, \A x \in S : x <= b
  PROVE  Max(S) \in S /\ \A x \in S : x <= Max(S)
<1> DEFINE T == {b - x : x \in S}
<1>1. T \in SUBSET Nat /\ T # {}
  <2>1. \A x \in S : x \in Nat /\ x <= b
    OBVIOUS
  <2>2. \A x \in S : b - x \in Nat
    BY <2>1
  <2> QED BY <2>2
<1>2. Min(T) \in T /\ \A y \in T : Min(T) <= y
  <2> HIDE DEF T
  <2> QED BY <1>1, SmallestElement
<1>3. PICK m \in S : Min(T) = b - m
  BY <1>2
<1>4. \A x \in S : m >= x
  <2> SUFFICES ASSUME NEW x \in S PROVE m >= x
    OBVIOUS
  <2>1. b - m <= b - x
    BY <1>2, <1>3
  <2> QED BY <2>1
<1>5. Max(S) \in S /\ \A x \in S : Max(S) >= x
  BY <1>4 DEF Max
<1> QED BY <1>5

LEMMA RequestVariationStep ==
  ASSUME CreationInv, NEW q \in Requests, RequestVariation(q), UNCHANGED rows
  PROVE  CreationEffect(q)
<1>1. PICK id \in Existing("asset") :
        Begins(q, [kind |-> "asset_variation", at |-> NoProcess, phase |-> "version", row |-> id,
                   next |-> NewAsset("generating", {}, {Root(id)}, rows[id].version),
                   dirty |-> {}, then |-> "ok"])
  BY DEF RequestVariation
<1> DEFINE next == NewAsset("generating", {}, {Root(id)}, rows[id].version)
           j == [kind |-> "asset_variation", at |-> NoProcess, phase |-> "version", row |-> id,
                 next |-> next, dirty |-> {}, then |-> "ok"]
<1>2. rows[id].version \in Nat
  BY DEF CreationInv, CreationTables, Existing, Ids, RowOf, AssetRow
<1>3. AssetRow(next) /\ next.parent = {Root(id)}
  BY <1>2 DEF NewAsset, AssetRow
<1> HIDE DEF next
<1>4. CreationFields \subseteq DOMAIN j /\ j.kind = "asset_variation" /\ j.phase = "version"
      /\ j.next = next /\ j.then = "ok"
  BY DEF CreationFields, JobFields
<1>5. Begins(q, j)
  BY <1>1 DEF next
<1> HIDE DEF j
<1>6. RequestInv' /\ Steps(q) /\ job'[q] = j
  BY <1>4, <1>5, BeginsMeans DEF CreationInv, CreationFields
<1>7. WorkOK(q)'
  BY <1>3, <1>4, <1>6 DEF WorkOK, Busy, CreationKinds, AssetKinds
<1> QED BY <1>4, <1>6, <1>7 DEF CreationEffect, RowStep, KeepsStatus, ClosedOK, ClosingKinds,
                                CreationKinds, AssetKinds

LEMMA ReadNewestVersionStep ==
  ASSUME CreationInv, NEW q \in Requests, ReadNewestVersion(q)
  PROVE  CreationEffect(q)
<1>1. /\ job[q].kind = "asset_variation" /\ job[q].phase = "version" /\ Busy(q)
      /\ UNCHANGED <<alone, rows>>
  BY DEF ReadNewestVersion, At, Busy, Outcomes
<1>2. /\ CreationFields \subseteq DOMAIN job[q] /\ job[q].then = "ok"
      /\ AssetRow(job[q].next)
  BY <1>1 DEF CreationInv, WorkOK
<1>3. PICK root : job[q].next.parent = {root}
  BY <1>1 DEF CreationInv, WorkOK
<1>4. (CHOOSE r \in job[q].next.parent : TRUE) = root
  BY <1>3
<1> DEFINE own == job[q].next.version
           S == {1} \cup {rows[v].version : v \in Variations(root)}
           newest == Max(S)
           version == 1 + Max({own, newest})
           next == [job[q].next EXCEPT !.version = version]
           j == [job[q] EXCEPT !.phase = "insert", !.next = next]
<1>5. job' = [job EXCEPT ![q].phase = "insert", ![q].next.version = version]
  BY <1>4 DEF ReadNewestVersion
<1>6. \A v \in Existing("asset") : rows[v].version \in Nat
  BY DEF CreationInv, CreationTables, Existing, Ids, RowOf, AssetRow
<1>7. PICK b \in Nat : \A v \in Existing("asset") : rows[v].version <= b
  BY DEF CreationInv, CreationTables
<1>8. newest \in Nat /\ \A v \in Variations(root) : rows[v].version <= newest
  <2>1. \A v \in Variations(root) : v \in Existing("asset")
    BY DEF Variations
  <2>2. S \in SUBSET Nat /\ S # {} /\ b + 1 \in Nat
    BY <1>6, <2>1
  <2>3. \A y \in S : y <= b + 1
    BY <1>6, <1>7, <2>1
  <2>4. \A v \in Variations(root) : rows[v].version \in S
    OBVIOUS
  <2> HIDE DEF S
  <2>5. Max(S) \in S /\ \A y \in S : y <= Max(S)
    BY <2>2, <2>3, LargestElement
  <2> QED BY <2>2, <2>4, <2>5
<1>9. own \in Nat
  BY <1>2 DEF AssetRow
<1> HIDE DEF newest, own
<1>10. Max({own, newest}) \in {own, newest} /\ newest <= Max({own, newest})
  <2>1. {own, newest} \in SUBSET Nat /\ {own, newest} # {} /\ own + newest \in Nat
        /\ \A y \in {own, newest} : y <= own + newest
    BY <1>8, <1>9
  <2> QED BY <2>1, LargestElement
<1>11. version \in Nat /\ \A v \in Variations(root) : rows[v].version < version
  <2>1. Max({own, newest}) \in Nat
    BY <1>8, <1>9, <1>10
  <2>2. ASSUME NEW v \in Variations(root) PROVE rows[v].version < version
    <3>1. rows[v].version \in Nat
      BY <1>6 DEF Variations
    <3> QED BY <1>8, <1>10, <2>1, <3>1
  <2> QED BY <2>1, <2>2
<1> HIDE DEF version
<1>12. /\ AssetRow(next) /\ next.parent = job[q].next.parent /\ next.version = version
  BY <1>2, <1>11 DEF AssetRow
<1>13. job' = [job EXCEPT ![q] = j]
  BY <1>2, <1>5 DEF CreationInv, RequestInv, CreationFields, JobFields
<1> HIDE DEF next
<1>14. /\ CreationFields \subseteq DOMAIN j /\ j.kind = "asset_variation" /\ j.phase = "insert"
       /\ j.next = next /\ j.then = "ok"
  BY <1>1, <1>2 DEF CreationFields, JobFields
<1> HIDE DEF j
<1>15. RequestInv' /\ Steps(q) /\ job'[q] = j
  BY <1>1, <1>13, <1>14, JobBecomes DEF CreationInv, CreationFields
<1>16. IsNewest(next)
  BY <1>3, <1>11, <1>12 DEF IsNewest, Variations
<1>17. NewRowOK("asset_variation", next)
  BY <1>12 DEF NewRowOK, TableOf, RowOf, ConceptKinds, AssetKinds, SuggestionKinds, ClosingKinds
<1>18. WorkOK(q)'
  BY <1>1, <1>14, <1>15, <1>16, <1>17 DEF WorkOK, Busy, CreationKinds, AssetKinds, IsNewest, Existing, Ids, Has
<1> QED BY <1>1, <1>14, <1>15, <1>18 DEF CreationEffect, RowStep, KeepsStatus, ClosedOK, ClosingKinds,
                                CreationKinds, AssetKinds

-------------------------------------------------------------------------------
(* save() of a creation. *)

LEMMA InsertCreation ==
  ASSUME CreationInv, NEW q \in Requests, NEW kinds, NEW table,
         \A kind \in kinds : kind \in CreationKinds /\ TableOf(kind) = table,
         InsertRow(q, kinds, table)
  PROVE  CreationEffect(q)
<1> DEFINE u == FirstFree(table)
           j == [job[q] EXCEPT !.phase = job[q].then, !.row = u]
<1>1. /\ job[q].kind \in kinds /\ job[q].phase = "insert" /\ Busy(q)
      /\ Free(table) # {} /\ UNCHANGED alone
      /\ rows' = [rows EXCEPT ![u] = job[q].next]
      /\ job' = [job EXCEPT ![q].phase = job[q].then, ![q].row = u]
  BY DEF InsertRow, At, Busy, Outcomes
<1>2. job[q].kind \in CreationKinds /\ table = TableOf(job[q].kind)
  BY <1>1
<1>3. u[1] = table /\ u \in DOMAIN rows /\ rows[u] = NoRow
  <2>1. \A id \in DOMAIN rows : id[2] \in Nat
    BY DEF CreationInv, CreationTables
  <2> QED BY <1>1, <2>1, FirstFreeIsFree
<1>4. /\ CreationFields \subseteq DOMAIN job[q] /\ job[q].then = "ok"
      /\ job[q].kind \notin ClosingKinds
  BY <1>1 DEF CreationInv, WorkOK, NewRowOK
<1> HIDE DEF u
<1>5. job' = [job EXCEPT ![q] = j]
  BY <1>1, <1>4 DEF CreationInv, RequestInv, CreationFields, JobFields
<1>6. CreationFields \subseteq DOMAIN j /\ j.kind = job[q].kind /\ j.phase = "ok"
  BY <1>4 DEF CreationFields, JobFields
<1> HIDE DEF j
<1>7. RequestInv' /\ Steps(q) /\ job'[q] = j
  BY <1>1, <1>5, <1>6, JobBecomes DEF CreationInv, CreationFields
<1>8. Inserts(q)
  BY <1>1, <1>2, <1>3 DEF Inserts, At
<1> QED BY <1>2, <1>4, <1>6, <1>7, <1>8
    DEF CreationEffect, RowStep, KeepsStatus, WorkOK, Busy, Outcomes, ClosedOK

LEMMA DiffCreation ==
  ASSUME CreationInv, NEW q \in Requests, DiffRow(q, CreationKinds)
  PROVE  CreationEffect(q)
<1> DEFINE dirty == Differing(job[q].next, rows[job[q].row])
           j == [job[q] EXCEPT !.phase = "write", !.dirty = dirty]
<1>1. /\ job[q].kind \in CreationKinds /\ job[q].phase = "diff" /\ Busy(q)
      /\ UNCHANGED <<alone, rows>>
      /\ job' = [job EXCEPT ![q].phase = "write", ![q].dirty = dirty]
  BY DEF DiffRow, At, Busy, Outcomes
<1> HIDE DEF dirty
<1>2. /\ CreationFields \subseteq DOMAIN job[q] /\ job[q].then = "ok"
      /\ CopyOK(job[q].kind, job[q].row, job[q].next)
  BY <1>1 DEF CreationInv, WorkOK
<1>3. job' = [job EXCEPT ![q] = j]
  BY <1>1, <1>2 DEF CreationInv, RequestInv, CreationFields, JobFields
<1>4. CreationFields \subseteq DOMAIN j /\ j.kind = job[q].kind /\ j.phase = "write"
      /\ j.dirty = dirty /\ j.row = job[q].row /\ j.next = job[q].next /\ j.then = "ok"
  BY <1>2 DEF CreationFields, JobFields
<1> HIDE DEF j
<1>5. RequestInv' /\ Steps(q) /\ job'[q] = j
  BY <1>1, <1>3, <1>4, JobBecomes DEF CreationInv, CreationFields
<1>6. CopyOK(job[q].kind, job[q].row, job[q].next)'
  <2>1. Reopened => Reopened'
    BY <1>5, RacesStay
  <2> QED BY <1>1, <1>2, <1>4, <1>5, <2>1 DEF CopyOK, Existing, Ids, Has
<1>7. WorkOK(q)'
  BY <1>1, <1>4, <1>5, <1>6 DEF WorkOK, Busy, dirty
<1> QED BY <1>1, <1>4, <1>5, <1>7 DEF CreationEffect, RowStep, KeepsStatus, ClosedOK

LEMMA WriteCreation ==
  ASSUME CreationInv, NEW q \in Requests, WriteRow(q, CreationKinds)
  PROVE  CreationEffect(q)
<1>1. /\ job[q].kind \in CreationKinds /\ job[q].phase = "write" /\ Busy(q) /\ Writes(q)
      /\ Goes(q, job[q].then)
  BY DEF WriteRow, Writes, At, Busy, Outcomes
<1>2. /\ CreationFields \subseteq DOMAIN job[q] /\ job[q].then = "ok"
  BY <1>1 DEF CreationInv, WorkOK
<1>3. Proceeds(q) /\ job'[q] = [job[q] EXCEPT !.phase = "ok"]
  BY <1>1, <1>2, GoesMeans DEF CreationInv
<1>4. /\ job'[q].kind = job[q].kind /\ job'[q].phase = "ok" /\ job'[q].row = job[q].row
      /\ job'[q].next = job[q].next
  BY <1>2, <1>3 DEF CreationFields, JobFields
<1>5. RequestInv' /\ Steps(q)
  BY <1>3, <1>4, ProceedsMeans DEF CreationInv
<1>6. ClosedOK(q)'
  <2> SUFFICES ASSUME job[q].kind \in ClosingKinds, alone[q] PROVE ClosedOK(q)'
    BY <1>3, <1>4 DEF ClosedOK, Proceeds
  <2>1. /\ job[q].row \in Existing(TableOf(job[q].kind))
        /\ CopyOK(job[q].kind, job[q].row, job[q].next) /\ rows'[job[q].row] = job[q].next
    BY <1>1, WrittenAlone
  <2>2. \A x \in Requests \ {q} : ~Busy(x)
    BY <1>1 DEF CreationInv, RequestInv, Solitude
  <2>3. \A x \in Requests \ {q} : job'[x].phase \notin {"diff", "write"}
    BY <2>2, <1>3 DEF Busy, Outcomes, Proceeds, OthersStay
  <2>4. RowOf(TableOf(job[q].kind), job[q].next) /\ EndStatus(TableOf(job[q].kind), job[q].next.status)
    BY <2>1 DEF CopyOK
  <2>5. job[q].next # NoRow
    BY <2>4, TablesOfKinds, CreationRowsAreRows
  <2>6. DOMAIN rows' = DOMAIN rows
    BY <1>1, RowsKept DEF RowStep
  <2>7. (job[q].row \in Existing(TableOf(job[q].kind)))'
    BY <1>4, <2>1, <2>5, <2>6 DEF Existing, Ids, Has
  <2> QED BY <1>4, <2>1, <2>3, <2>4, <2>7 DEF ClosedOK, Agrees
<1> QED BY <1>1, <1>4, <1>5, <1>6 DEF CreationEffect, RowStep, KeepsStatus, WorkOK, Busy, Outcomes

LEMMA FailedCreation ==
  ASSUME CreationInv, NEW q \in Requests, CreationFails(q)
  PROVE  CreationEffect(q)
<1>1. Busy(q) /\ Fails(q) /\ UNCHANGED rows /\ job[q].kind \in CreationKinds
  BY DEF CreationFails, Fails
<1>2. Proceeds(q) /\ job'[q].kind = job[q].kind /\ job'[q].phase = "failed"
  <2>1. Proceeds(q) /\ job'[q].kind = job[q].kind
    BY <1>1, EndsMeans DEF CreationInv
  <2>2. job'[q].phase = "failed"
    BY <1>1 DEF Fails, CreationInv, RequestInv, Answered, NoJob
  <2> QED BY <2>1, <2>2
<1>3. RequestInv' /\ Steps(q)
  BY <1>2, ProceedsMeans DEF CreationInv
<1> QED BY <1>1, <1>2, <1>3 DEF CreationEffect, RowStep, KeepsStatus, WorkOK, Busy, Outcomes, ClosedOK

-------------------------------------------------------------------------------
(* The first statements. *)

LEMMA KindsOfCreations ==
  /\ \A kind \in ConceptKinds : kind \in CreationKinds /\ TableOf(kind) = "concept"
                                /\ kind \notin AssetKinds /\ kind \notin SuggestionKinds
  /\ \A kind \in AssetKinds : kind \in CreationKinds /\ TableOf(kind) = "asset"
                              /\ kind \notin SuggestionKinds
  /\ \A kind \in SuggestionKinds : kind \in CreationKinds /\ TableOf(kind) = "suggestion"
                                   /\ kind \notin AssetKinds /\ kind \notin ClosingKinds
BY DEF ConceptKinds, AssetKinds, SuggestionKinds, CreationKinds, TableOf, ClosingKinds

LEMMA ConceptSteps ==
  ASSUME CreationInv, NEW q \in Requests, UNCHANGED rows,
         CreateConcept(q) \/ UpdateConcept(q) \/ EvaluateConcept(q) \/ DecideConcept(q) \/ ArchiveConcept(q)
  PROVE  CreationEffect(q)
<1>1. ASSUME NEW kind \in ConceptKinds \ {"concept_create", "concept_generate"},
             NEW id \in Existing("concept"), NEW allowed, NEW next,
             Edit(q, kind, id, allowed, next),
             allowed => /\ ConceptRow(next)
                        /\ kind = "concept_archive" => next.status = "archived"
                        /\ rows[id].status = "archived" => next.status = "archived"
      PROVE  CreationEffect(q)
  <2>1. kind \in CreationKinds /\ TableOf(kind) = "concept" /\ kind \notin AssetKinds
        /\ kind \notin SuggestionKinds
    BY KindsOfCreations
  <2>2. kind \in ClosingKinds => kind = "concept_archive"
    BY DEF ClosingKinds, ConceptKinds
  <2>3. allowed => /\ id \in Existing(TableOf(kind)) /\ RowOf(TableOf(kind), next)
                   /\ kind \in AssetKinds => /\ next.parent = rows[id].parent
                                             /\ next.version = rows[id].version
                   /\ kind \in ClosingKinds => EndStatus(TableOf(kind), next.status)
                   /\ EndStatus(TableOf(kind), rows[id].status) => next.status = rows[id].status
                   /\ kind \in SuggestionKinds => Reopened' \/ (next.status # "ready" /\ OneDecision(next))
    BY <1>1, <2>1, <2>2 DEF RowOf, EndStatus
  <2> QED BY <1>1, <2>1, <2>3, EditStep
<1>2. \A id \in Existing("concept") : ConceptRow(rows[id])
  BY DEF CreationInv, CreationTables, Existing, Ids, RowOf
<1>3. CASE CreateConcept(q)
  <2>1. PICK t \in Titles, k \in {"concept_create", "concept_generate"} :
          NewRow(q, k, "concept", NewConcept(IF k = "concept_create" THEN "draft" ELSE "generating", t))
    BY <1>3 DEF CreateConcept
  <2>2. k \in CreationKinds /\ k \notin ClosingKinds /\ k \notin AssetKinds /\ k \notin SuggestionKinds
        /\ TableOf(k) = "concept" /\ k # "asset_variation"
    BY DEF CreationKinds, ConceptKinds, AssetKinds, SuggestionKinds, ClosingKinds, TableOf
  <2>3. \A s : ConceptRow(NewConcept(s, t))
    BY DEF ConceptRow, NewConcept
  <2>4. NewRowOK(k, NewConcept(IF k = "concept_create" THEN "draft" ELSE "generating", t))
    BY <2>2, <2>3 DEF NewRowOK, RowOf
  <2> QED BY <2>1, <2>2, <2>4, NewRowStep
<1>4. CASE UpdateConcept(q)
  <2>1. PICK id \in Existing("concept"), t \in Titles :
          Edit(q, "concept_update", id, TRUE, [rows[id] EXCEPT !.title = t])
    BY <1>4 DEF UpdateConcept
  <2>2. ConceptRow([rows[id] EXCEPT !.title = t]) /\ [rows[id] EXCEPT !.title = t].status = rows[id].status
    BY <1>2 DEF ConceptRow
  <2>3. "concept_update" \in ConceptKinds \ {"concept_create", "concept_generate"}
    BY DEF ConceptKinds
  <2> QED BY <1>1, <2>1, <2>2, <2>3
<1>5. ASSUME NEW id \in Existing("concept"), NEW s
      PROVE  ConceptRow([rows[id] EXCEPT !.status = s]) /\ [rows[id] EXCEPT !.status = s].status = s
  BY <1>2 DEF ConceptRow
<1>6. CASE EvaluateConcept(q)
  <2>1. PICK id \in Existing("concept") :
          Edit(q, "concept_evaluate", id, rows[id].status = "generated",
               [rows[id] EXCEPT !.status = "evaluated"])
    BY <1>6 DEF EvaluateConcept
  <2>2. "concept_evaluate" \in ConceptKinds \ {"concept_create", "concept_generate"}
    BY DEF ConceptKinds
  <2> QED BY <1>1, <1>5, <2>1, <2>2
<1>7. CASE DecideConcept(q)
  <2>1. PICK id \in Existing("concept"), d \in {"concept_approve", "concept_reject"} :
          Edit(q, d, id, rows[id].status \in {"generated", "evaluated"},
               [rows[id] EXCEPT !.status = IF d = "concept_approve" THEN "approved" ELSE "rejected"])
    BY <1>7 DEF DecideConcept
  <2>2. d \in ConceptKinds \ {"concept_create", "concept_generate"} /\ d # "concept_archive"
    BY DEF ConceptKinds
  <2> DEFINE next == [rows[id] EXCEPT !.status = IF d = "concept_approve" THEN "approved" ELSE "rejected"]
  <2>3. ConceptRow(next)
    BY <1>5
  <2> HIDE DEF next
  <2>4. rows[id].status \in {"generated", "evaluated"} => rows[id].status # "archived"
    OBVIOUS
  <2>5. Edit(q, d, id, rows[id].status \in {"generated", "evaluated"}, next)
    BY <2>1 DEF next
  <2> QED BY <1>1, <2>2, <2>3, <2>4, <2>5
<1>8. CASE ArchiveConcept(q)
  <2>1. PICK id \in Existing("concept") :
          Edit(q, "concept_archive", id, TRUE, [rows[id] EXCEPT !.status = "archived"])
    BY <1>8 DEF ArchiveConcept
  <2>2. "concept_archive" \in ConceptKinds \ {"concept_create", "concept_generate"}
    BY DEF ConceptKinds
  <2> QED BY <1>1, <1>5, <2>1, <2>2
<1> QED BY <1>3, <1>4, <1>6, <1>7, <1>8

LEMMA AssetSteps ==
  ASSUME CreationInv, NEW q \in Requests, UNCHANGED rows,
         CreateAsset(q) \/ GenerateAsset(q) \/ UpdateAsset(q) \/ DecideAsset(q)
  PROVE  CreationEffect(q)
<1>1. \A id \in Existing("asset") : AssetRow(rows[id])
  BY DEF CreationInv, CreationTables, Existing, Ids, RowOf
<1>2. ASSUME NEW kind \in {"asset_update", "asset_approve", "asset_reject"},
             NEW id \in Existing("asset"), NEW allowed, NEW next,
             Edit(q, kind, id, allowed, next),
             AssetRow(next), next.parent = rows[id].parent, next.version = rows[id].version,
             kind # "asset_update" => next.status \in {"approved", "rejected"},
             allowed /\ rows[id].status \in {"approved", "rejected"} => next.status = rows[id].status
      PROVE  CreationEffect(q)
  <2>1. kind \in AssetKinds
    BY DEF AssetKinds
  <2>2. kind \in CreationKinds /\ TableOf(kind) = "asset" /\ kind \notin SuggestionKinds
    BY <2>1, KindsOfCreations
  <2>3. kind \in ClosingKinds => kind # "asset_update"
    BY DEF ClosingKinds
  <2>4. allowed => /\ id \in Existing(TableOf(kind)) /\ RowOf(TableOf(kind), next)
                   /\ kind \in AssetKinds => /\ next.parent = rows[id].parent
                                             /\ next.version = rows[id].version
                   /\ kind \in ClosingKinds => EndStatus(TableOf(kind), next.status)
                   /\ EndStatus(TableOf(kind), rows[id].status) => next.status = rows[id].status
                   /\ kind \in SuggestionKinds => Reopened' \/ (next.status # "ready" /\ OneDecision(next))
    BY <1>2, <2>2, <2>3 DEF RowOf, EndStatus
  <2> QED BY <1>2, <2>2, <2>4, EditStep
<1>3. ASSUME NEW kind \in {"asset_create", "asset_generate"}, NEW s, NEW f,
             NEW parent \in {{}} \cup {{id} : id \in Existing("asset")},
             NewRow(q, kind, "asset", NewAsset(s, f, parent, 1))
      PROVE  CreationEffect(q)
  <2>1. AssetRow(NewAsset(s, f, parent, 1)) /\ NewAsset(s, f, parent, 1).version = 1
    BY DEF AssetRow, NewAsset
  <2>2. kind \in CreationKinds /\ kind \notin ClosingKinds /\ kind \notin SuggestionKinds
        /\ TableOf(kind) = "asset" /\ kind # "asset_variation"
    BY DEF CreationKinds, ConceptKinds, AssetKinds, SuggestionKinds, ClosingKinds, TableOf
  <2>3. NewRowOK(kind, NewAsset(s, f, parent, 1))
    BY <2>1, <2>2 DEF NewRowOK, RowOf
  <2> QED BY <1>3, <2>2, <2>3, NewRowStep
<1>4. CASE CreateAsset(q)
  BY <1>3, <1>4 DEF CreateAsset
<1>5. CASE GenerateAsset(q)
  BY <1>3, <1>5 DEF GenerateAsset
<1>6. CASE UpdateAsset(q)
  <2>1. PICK id \in Existing("asset"), t \in Titles :
          Edit(q, "asset_update", id, TRUE,
               [rows[id] EXCEPT !.file = {t},
                                !.status = IF @ \in {"draft", "failed"} THEN "generated" ELSE @])
    BY <1>6 DEF UpdateAsset
  <2> DEFINE next == [rows[id] EXCEPT !.file = {t},
                                !.status = IF @ \in {"draft", "failed"} THEN "generated" ELSE @]
  <2>2. /\ AssetRow(next) /\ next.parent = rows[id].parent /\ next.version = rows[id].version
        /\ rows[id].status \in {"approved", "rejected"} => next.status = rows[id].status
    BY <1>1 DEF AssetRow
  <2> HIDE DEF next
  <2>3. Edit(q, "asset_update", id, TRUE, next)
    BY <2>1 DEF next
  <2> QED BY <1>2, <2>2, <2>3
<1>7. CASE DecideAsset(q)
  <2>1. PICK id \in Existing("asset"), d \in {"asset_approve", "asset_reject"} :
          Edit(q, d, id, rows[id].status = "generated",
               [rows[id] EXCEPT !.status = IF d = "asset_approve" THEN "approved" ELSE "rejected"])
    BY <1>7 DEF DecideAsset
  <2> DEFINE next == [rows[id] EXCEPT !.status = IF d = "asset_approve" THEN "approved" ELSE "rejected"]
  <2>2. AssetRow(next) /\ next.parent = rows[id].parent /\ next.version = rows[id].version
        /\ next.status \in {"approved", "rejected"}
    BY <1>1 DEF AssetRow
  <2> HIDE DEF next
  <2>3. Edit(q, d, id, rows[id].status = "generated", next)
    BY <2>1 DEF next
  <2>4. d \in {"asset_update", "asset_approve", "asset_reject"}
    OBVIOUS
  <2> QED BY <1>2, <2>2, <2>3, <2>4
<1> QED BY <1>4, <1>5, <1>6, <1>7

LEMMA SuggestionSteps ==
  ASSUME CreationInv, NEW q \in Requests, UNCHANGED rows,
         SuggestionResult(q) \/ DecideSuggestion(q)
  PROVE  CreationEffect(q)
<1>1. \A id \in Existing("suggestion") : SuggestionRow(rows[id])
  BY DEF CreationInv, CreationTables, Existing, Ids, RowOf
<1>2. ASSUME NEW kind \in SuggestionKinds, NEW id \in Existing("suggestion"), NEW allowed, NEW next,
             Edit(q, kind, id, allowed, next), SuggestionRow(next),
             allowed => Reopened' \/ (next.status # "ready" /\ OneDecision(next))
      PROVE  CreationEffect(q)
  <2>1. kind \in CreationKinds /\ TableOf(kind) = "suggestion" /\ kind \notin AssetKinds
        /\ kind \notin ClosingKinds
    BY KindsOfCreations
  <2>2. allowed => /\ id \in Existing(TableOf(kind)) /\ RowOf(TableOf(kind), next)
                   /\ kind \in AssetKinds => /\ next.parent = rows[id].parent
                                             /\ next.version = rows[id].version
                   /\ kind \in ClosingKinds => EndStatus(TableOf(kind), next.status)
                   /\ EndStatus(TableOf(kind), rows[id].status) => next.status = rows[id].status
                   /\ kind \in SuggestionKinds => Reopened' \/ (next.status # "ready" /\ OneDecision(next))
    BY <1>2, <2>1 DEF RowOf, EndStatus
  <2> QED BY <1>2, <2>1, <2>2, EditStep
<1>3. CASE SuggestionResult(q)
  <2>1. PICK task \in Titles :
          IF Of(task) = {} THEN NewRow(q, "suggestion_result", "suggestion", NewSuggestion(task))
          ELSE \E id \in Of(task) :
                 Edit(q, "suggestion_result", id, TRUE, [rows[id] EXCEPT !.status = "ready"])
    BY <1>3 DEF SuggestionResult
  <2>2. CASE NewRow(q, "suggestion_result", "suggestion", NewSuggestion(task))
    <3>1. SuggestionRow(NewSuggestion(task)) /\ NewSuggestion(task).decided = {}
      BY DEF SuggestionRow, NewSuggestion
    <3>2. NewRowOK("suggestion_result", NewSuggestion(task))
      BY <3>1 DEF NewRowOK, RowOf, TableOf, ConceptKinds, AssetKinds, SuggestionKinds, ClosingKinds
    <3>3. "suggestion_result" \in CreationKinds
      BY DEF CreationKinds, SuggestionKinds
    <3> QED BY <2>2, <3>2, <3>3, NewRowStep
  <2>3. ASSUME NEW id \in Of(task),
               Edit(q, "suggestion_result", id, TRUE, [rows[id] EXCEPT !.status = "ready"])
        PROVE  CreationEffect(q)
    <3>1. id \in Existing("suggestion")
      BY DEF Of
    <3>2. PICK x \in Requests : job[x].kind = "suggestion_result"
      BY <3>1 DEF CreationInv, DecidedOnce
    <3>3. Begins(q, Copy("suggestion_result", NoProcess, id, [rows[id] EXCEPT !.status = "ready"], "ok"))
      BY <2>3 DEF Edit, Edits
    <3>4. job[q] = NoJob
      BY <3>3 DEF Begins
    <3>5. x # q
      BY <3>2, <3>4 DEF NoJob
    <3> DEFINE next == [rows[id] EXCEPT !.status = "ready"]
               c == Copy("suggestion_result", NoProcess, id, next, "ok")
    <3>6. c.kind = "suggestion_result" /\ JobFields \subseteq DOMAIN c
      BY DEF Copy, JobFields
    <3>7. SuggestionRow(next)
      BY <1>1, <3>1 DEF SuggestionRow
    <3> HIDE DEF c
    <3>8. job'[q] = c /\ job'[x] = job[x]
      BY <3>3, <3>5, <3>6, BeginsMeans DEF c, CreationInv, OthersStay
    <3>9. Reopened'
      BY <3>2, <3>5, <3>6, <3>8 DEF Reopened, ResultsRepeated
    <3> HIDE DEF next
    <3>10. Edit(q, "suggestion_result", id, TRUE, next)
      BY <2>3 DEF next
    <3>11. "suggestion_result" \in SuggestionKinds
      BY DEF SuggestionKinds
    <3> QED BY <1>2, <3>1, <3>7, <3>9, <3>10, <3>11
  <2> QED BY <2>1, <2>2, <2>3
<1>4. CASE DecideSuggestion(q)
  <2>1. PICK id \in Existing("suggestion"), d \in {"suggestion_accept", "suggestion_reject"} :
          Edit(q, d, id, rows[id].status = "ready",
               [rows[id] EXCEPT !.status = Decision(d), !.decided = @ \cup {Decision(d)}])
    BY <1>4 DEF DecideSuggestion
  <2> DEFINE next == [rows[id] EXCEPT !.status = Decision(d), !.decided = @ \cup {Decision(d)}]
  <2>2. /\ SuggestionRow(next) /\ next.status = Decision(d)
        /\ next.decided = rows[id].decided \cup {Decision(d)}
    BY <1>1 DEF SuggestionRow
  <2>3. Decision(d) # "ready" /\ d \in SuggestionKinds
    BY DEF Decision, SuggestionKinds
  <2> HIDE DEF next
  <2>4. Edit(q, d, id, rows[id].status = "ready", next)
    BY <2>1 DEF next
  <2>5. rows[id].status = "ready" => Reopened \/ (next.status # "ready" /\ OneDecision(next))
    <3> SUFFICES ASSUME rows[id].status = "ready", ~Reopened
                 PROVE  next.status # "ready" /\ OneDecision(next)
      OBVIOUS
    <3>1. rows[id].decided = {}
      BY DEF CreationInv, DecidedOnce
    <3>2. next.decided = {Decision(d)}
      BY <2>2, <3>1
    <3> QED BY <2>2, <2>3, <3>2 DEF OneDecision
  <2>6. Steps(q)
    <3>1. \/ Begins(q, Copy(d, NoProcess, id, next, "ok"))
          \/ Begins(q, Answered(d, "refused"))
      BY <2>4 DEF Edit, Edits
    <3>2. JobFields \subseteq DOMAIN Copy(d, NoProcess, id, next, "ok")
      BY DEF Copy, JobFields
    <3> QED BY <3>1, <3>2, BeginsMeans, AnsweredFields DEF CreationInv
  <2>7. Reopened => Reopened'
    BY <2>6, RacesStay
  <2> QED BY <1>2, <2>2, <2>3, <2>4, <2>5, <2>7
<1> QED BY <1>3, <1>4

-------------------------------------------------------------------------------
\* Every step is one of a request, with the effect above.
LEMMA CreationMoves ==
  ASSUME CreationInv, CreationNext
  PROVE  \E q \in Requests : CreationEffect(q)
<1>1. PICK q \in Requests :
        \/ /\ \/ CreateConcept(q) \/ UpdateConcept(q) \/ EvaluateConcept(q) \/ DecideConcept(q)
              \/ ArchiveConcept(q) \/ CreateAsset(q) \/ GenerateAsset(q) \/ UpdateAsset(q)
              \/ DecideAsset(q) \/ RequestVariation(q) \/ SuggestionResult(q) \/ DecideSuggestion(q)
           /\ UNCHANGED rows
        \/ ReadNewestVersion(q) \/ SaveCreation(q) \/ CreationFails(q)
  BY DEF CreationNext
<1>2. CASE /\ UNCHANGED rows
           /\ CreateConcept(q) \/ UpdateConcept(q) \/ EvaluateConcept(q) \/ DecideConcept(q)
              \/ ArchiveConcept(q)
  BY <1>2, ConceptSteps
<1>3. CASE UNCHANGED rows /\ (CreateAsset(q) \/ GenerateAsset(q) \/ UpdateAsset(q) \/ DecideAsset(q))
  BY <1>3, AssetSteps
<1>4. CASE UNCHANGED rows /\ RequestVariation(q)
  BY <1>4, RequestVariationStep
<1>5. CASE UNCHANGED rows /\ (SuggestionResult(q) \/ DecideSuggestion(q))
  BY <1>5, SuggestionSteps
<1>6. CASE ReadNewestVersion(q)
  BY <1>6, ReadNewestVersionStep
<1>7. CASE SaveCreation(q)
  <2>1. CASE InsertRow(q, ConceptKinds, "concept")
    BY <2>1, InsertCreation, KindsOfCreations
  <2>2. CASE InsertRow(q, AssetKinds, "asset")
    BY <2>2, InsertCreation, KindsOfCreations
  <2>3. CASE InsertRow(q, SuggestionKinds, "suggestion")
    BY <2>3, InsertCreation, KindsOfCreations
  <2> QED BY <1>7, <2>1, <2>2, <2>3, DiffCreation, WriteCreation DEF SaveCreation
<1>8. CASE CreationFails(q)
  BY <1>8, FailedCreation
<1> QED BY <1>1, <1>2, <1>3, <1>4, <1>5, <1>6, <1>7, <1>8

LEMMA CreationSteps ==
  ASSUME CreationInv, CreationNext
  PROVE  CreationInv'
BY CreationMoves, CreationStep

\* Nothing happens to the creations.
LEMMA CreationsRest ==
  ASSUME CreationInv, UNCHANGED <<job, alone, rows>>
  PROVE  CreationInv'
<1>1. /\ \A table : Existing(table)' = Existing(table)
      /\ Reopened' <=> Reopened
  BY DEF Existing, Ids, Has, Reopened, SuggestionsRaced, ResultsRepeated
<1>2. RequestInv' /\ CreationTables'
  BY <1>1 DEF CreationInv, RequestInv, Solitude, Busy, CreationTables, Has
<1>3. ASSUME NEW q \in Requests PROVE WorkOK(q)' /\ ClosedOK(q)'
  <2>1. WorkOK(q) /\ ClosedOK(q)
    BY DEF CreationInv
  <2>2. ClosedOK(q)'
    BY <1>1, <2>1 DEF ClosedOK, Agrees
  <2>3. WorkOK(q)'
    BY <1>1, <2>1 DEF WorkOK, Busy, CopyOK, IsNewest
  <2> QED BY <2>2, <2>3
<1>4. VersionsDiffer' /\ DecidedOnce'
  BY <1>1 DEF CreationInv, VersionsDiffer, VersionsRaced, DecidedOnce
<1> QED BY <1>2, <1>3, <1>4 DEF CreationInv

\* Creations, edits, decisions, variations and late results of any number of requests, with
\* any number of failed calls, keep the invariant: a copy has the parent and the version of
\* its row, and a row that was archived, approved or rejected is copied with that status.
THEOREM CreationInvariance == CreationSpec => []CreationInv
<1>1. CreationInit => CreationInv
  <2> SUFFICES ASSUME CreationInit PROVE CreationInv
    OBVIOUS
  <2>1. RequestInv
    BY RequestsBegin DEF CreationInit
  <2>2. PICK n \in Nat : rows = [id \in {"concept", "asset", "suggestion"} \X (1..n) |-> NoRow]
    BY DEF CreationInit
  <2>3. Existing("asset") = {} /\ Existing("suggestion") = {}
    BY <2>2 DEF Existing, Ids, Has
  <2>4. CreationTables
    <3>1. \A id \in DOMAIN rows : id[2] \in Nat /\ ~Has(id)
      BY <2>2 DEF Has
    <3>2. 0 \in Nat /\ \A id \in Existing("asset") : rows[id].version <= 0
      BY <2>3
    <3>3. rows = [id \in DOMAIN rows |-> rows[id]]
      BY <2>2
    <3> QED BY <3>1, <3>2, <3>3 DEF CreationTables
  <2>5. \A q \in Requests : job[q].kind = "none" /\ job[q].phase = "idle"
    BY DEF CreationInit, RequestInit, NoJob
  <2>6. \A q \in Requests : job[q].kind \in CreationKinds \cup {"none"} /\ WorkOK(q) /\ ClosedOK(q)
    BY <2>5 DEF WorkOK, Busy, ClosedOK
  <2>7. VersionsDiffer /\ DecidedOnce
    BY <2>3 DEF VersionsDiffer, DecidedOnce
  <2> QED BY <2>1, <2>4, <2>6, <2>7 DEF CreationInv
<1>2. CreationInv /\ [CreationNext]_<<requestVars, rows>> => CreationInv'
  BY CreationSteps, CreationsRest DEF requestVars
<1> QED BY <1>1, <1>2, PTL DEF CreationSpec

\* requestVariation() gives each variation of an asset a version no other asset below the same
\* root has, those that create() made there with version 1 included, and accept() and
\* reject() decide a suggestion once, unless the requests overlapped or a second result
\* made the suggestion ready again: nothing in the database prevents either.
THEOREM CreationsStaySound == CreationSpec => []CreationsSound
<1>1. CreationInv => CreationsSound
  <2> SUFFICES ASSUME CreationInv PROVE CreationsSound
    OBVIOUS
  <2>1. ASSUME NEW x \in Existing("asset"), NEW y \in Existing("asset"),
               x # y, rows[x].parent # {}, rows[x].parent = rows[y].parent,
               rows[x].version = rows[y].version
        PROVE  \/ rows[x].version = 1
               \/ \E q \in Requests : job[q].kind = "asset_variation" /\ ~alone[q]
    BY <2>1 DEF CreationInv, VersionsDiffer, VersionsRaced
  <2>2. ASSUME NEW id \in Existing("suggestion")
        PROVE  \/ Cardinality(rows[id].decided) <= 1
               \/ \E q \in Requests : job[q].kind \in SuggestionKinds /\ ~alone[q]
               \/ Cardinality({q \in Requests : job[q].kind = "suggestion_result"}) > 1
    <3>1. CASE OneDecision(rows[id])
      <4>1. CASE rows[id].decided = {}
        BY <4>1, FS_EmptySet
      <4>2. CASE \E d : rows[id].decided = {d}
        <5>1. PICK d : rows[id].decided = {d}
          BY <4>2
        <5>2. Cardinality({d}) = 1
          BY FS_Singleton
        <5> QED BY <5>1, <5>2
      <4> QED BY <3>1, <4>1, <4>2 DEF OneDecision
    <3>2. CASE SuggestionsRaced
      BY <3>2 DEF SuggestionsRaced
    <3>3. CASE ResultsRepeated
      <4> DEFINE R == {q \in Requests : job[q].kind = "suggestion_result"}
      <4>1. PICK q1, q2 \in R : q1 # q2
        BY <3>3 DEF ResultsRepeated
      <4>2. IsFiniteSet(R)
        BY RequestsAssumption, FS_Subset
      <4>3. {q1, q2} \subseteq R /\ IsFiniteSet({q1, q2}) /\ Cardinality({q1, q2}) = 2
        <5>1. IsFiniteSet({q1}) /\ Cardinality({q1}) = 1
          BY FS_Singleton
        <5>2. q2 \notin {q1} /\ {q1, q2} = {q1} \cup {q2}
          BY <4>1
        <5> DEFINE S == {q1}
        <5>3. IsFiniteSet(S) /\ Cardinality(S) = 1 /\ q2 \notin S
          BY <5>1, <5>2
        <5> HIDE DEF S
        <5>4. IsFiniteSet(S \cup {q2}) /\ Cardinality(S \cup {q2}) = 1 + 1
          BY <5>3, FS_AddElement
        <5>5. {q1, q2} = S \cup {q2}
          BY <5>2 DEF S
        <5> QED BY <4>1, <5>4, <5>5
      <4>4. Cardinality({q1, q2}) <= Cardinality(R) /\ Cardinality(R) \in Nat
        BY <4>2, <4>3, FS_Subset, FS_CardinalityType
      <4> QED BY <4>3, <4>4
    <3> QED BY <3>1, <3>2, <3>3 DEF CreationInv, DecidedOnce, Reopened
  <2> QED BY <2>1, <2>2 DEF CreationsSound
<1> QED BY <1>1, CreationInvariance, PTL

LEMMA ClosedKept == CreationInv => CreationsStick
<1> SUFFICES ASSUME CreationInv, NEW q \in Requests,
                    HasWritten(q, ClosingKinds), alone[q]
             PROVE  rows[job[q].row]["status"] = job[q].next["status"]
  BY DEF CreationsStick, Sticks, ClosingKinds
<1>1. job[q].phase = "ok"
  BY DEF HasWritten, CreationInv, WorkOK, Busy, Outcomes
<1> QED BY <1>1 DEF HasWritten, CreationInv, ClosedOK

\* A concept that was archived and an asset that was approved or rejected while no other
\* request was at work stay so: no later save() writes back another status.
THEOREM ClosedCreationsStay == CreationSpec => []CreationsStick
BY ClosedKept, CreationInvariance, PTL

-------------------------------------------------------------------------------
(* Projects, workflows and share links. *)

WorkflowColumns == {"status", "project", "versions", "current", "audited", "token", "expires", "max", "views"}
WorkflowRow(r) ==
  /\ r = [c \in WorkflowColumns |-> r[c]]
  /\ r.versions \in {0, 1} /\ r.current \in {0, 1}
  /\ r.views \in Nat /\ \A n \in r.max : n \in Nat
ProjectRow(r) == r = [c \in {"status", "name"} |-> r[c]]

Disturbed(kinds) == \E q \in Requests : job[q].kind \in kinds /\ ~alone[q]
LinkKinds == {"share", "view"}

WithinLimit(r) == \A n \in r.max : n = 0 \/ r.views <= n
BelowLimit(r) == \A n \in r.max : n = 0 \/ r.views < n

ProjectTables ==
  /\ rows = [id \in DOMAIN rows |-> rows[id]]
  /\ \A id \in DOMAIN rows :
       /\ id[2] \in Nat
       /\ Has(id) => \/ rows[id] = Deleted
                     \/ id[1] = "project" /\ ProjectRow(rows[id])
                     \/ id[1] = "workflow" /\ WorkflowRow(rows[id])
                     \/ id[1] \notin {"project", "workflow"}

NamesDiffer ==
  \A id1, id2 \in Alive("project") : rows[id1].name = rows[id2].name => id1 = id2

LimitsKept == Disturbed(LinkKinds) \/ \A w \in Alive("workflow") : WithinLimit(rows[w])

VersionsThere ==
  Disturbed({"project_delete"}) \/ \A w \in Alive("workflow") : rows[w].current <= rows[w].versions

\* A link is named for the request that shared it, and the workflow alone has it.
TokensDiffer ==
  \A w \in Alive("workflow") : rows[w].token \in Requests =>
    /\ job[rows[w].token].kind = "share"
    /\ \A v \in Alive("workflow") : rows[v].token = rows[w].token => v = w

ProjectRows == ProjectTables /\ NamesDiffer /\ LimitsKept /\ VersionsThere /\ TokensDiffer

CopyFields == JobFields \cup {"row", "next", "then"}

\* What a request at work knows.  A workflow whose first version was inserted has it, unless
\* somebody deletes; a link that was looked at by a request alone can be opened once more.
LinkOK(q) ==
  Busy(q) =>
    /\ CopyFields \subseteq DOMAIN job[q]
    /\ job[q].kind = "project_create" =>
         /\ job[q].phase \in {"insert", "audit"} /\ job[q].then = "audit"
         /\ job[q].phase = "insert" => ProjectRow(job[q].next)
    /\ job[q].kind = "project_delete" =>
         job[q].phase \in {"erase", "audit"} /\ job[q].row \in Existing("project")
    /\ job[q].kind = "workflow_create" =>
         /\ job[q].phase \in {"insert", "version", "save", "audit"} /\ job[q].then = "version"
         /\ WorkflowRow(job[q].next) /\ job[q].next.max = {} /\ job[q].next.current <= job[q].next.versions
         /\ job[q].next.token = "none"
         /\ job[q].phase # "insert" => job[q].row \in Existing("workflow")
         /\ job[q].phase = "save" =>
              \/ Disturbed({"project_delete"})
              \/ job[q].row \in Alive("workflow") /\ rows[job[q].row].versions = 1
    /\ job[q].kind = "view" =>
         /\ job[q].phase = "count" /\ job[q].row \in Existing("workflow")
         /\ alone[q] /\ job[q].row \in Alive("workflow") => BelowLimit(rows[job[q].row])

ProjectInv ==
  /\ RequestInv /\ ProjectRows
  /\ \A q \in Requests : job[q].kind \in ProjectKinds \cup {"none"} /\ LinkOK(q)

LEMMA ProjectRowsAreRows ==
  ASSUME NEW r
  PROVE  /\ ProjectRow(r) => r # NoRow /\ r # Deleted
         /\ WorkflowRow(r) => r # NoRow /\ r # Deleted
         /\ NoRow # Deleted
<1>1. DOMAIN NoRow = {"status"} /\ DOMAIN Deleted = {"status"} /\ NoRow.status # Deleted.status
  BY DEF NoRow, Deleted
<1>2. (ProjectRow(r) => "name" \in DOMAIN r) /\ (WorkflowRow(r) => "project" \in DOMAIN r)
  BY DEF ProjectRow, WorkflowRow, WorkflowColumns
<1> QED BY <1>1, <1>2

LEMMA DisturbanceStays ==
  ASSUME NEW q \in Requests, Steps(q)
  PROVE  /\ Disturbed(LinkKinds) => Disturbed(LinkKinds)'
         /\ Disturbed({"project_delete"}) => Disturbed({"project_delete"})'
         /\ \A x \in Requests : job[x].kind = "share" => job'[x].kind = "share"
<1>1. \A x \in Requests : job[x].kind # "none" => job'[x].kind = job[x].kind
  BY DEF Steps, OthersStay
<1>2. \A x \in Requests : job[x].kind # "none" /\ ~alone[x] => ~alone'[x]
  BY DEF Steps
<1> QED BY <1>1, <1>2 DEF Disturbed, LinkKinds

\* What the requests other than the one that steps need of the rows.
RowsStay ==
  /\ \A table : Existing(table) \subseteq Existing(table)'
  /\ \/ Disturbed({"project_delete"})'
     \/ \A w \in Alive("workflow") :
          w \in Alive("workflow")' /\ (rows[w].versions = 1 => rows'[w].versions = 1)

LEMMA ProjectStep ==
  ASSUME ProjectInv, NEW q \in Requests, RequestInv', Steps(q), ProjectRows', RowsStay,
         job'[q].kind \in ProjectKinds, LinkOK(q)'
  PROVE  ProjectInv'
<1>1. ASSUME NEW x \in Requests \ {q} PROVE LinkOK(x)' /\ job'[x].kind \in ProjectKinds \cup {"none"}
  <2>1. job'[x] = job[x] /\ (Busy(x) => ~alone'[x]) /\ LinkOK(x)
        /\ job[x].kind \in ProjectKinds \cup {"none"}
    BY DEF Steps, OthersStay, ProjectInv
  <2>2. Disturbed({"project_delete"}) => Disturbed({"project_delete"})'
    BY DisturbanceStays
  <2>3. \A table : Existing(table) \subseteq Existing(table)'
    BY DEF RowsStay
  <2>4. \/ Disturbed({"project_delete"})'
        \/ \A w \in Alive("workflow") :
             w \in Alive("workflow")' /\ (rows[w].versions = 1 => rows'[w].versions = 1)
    BY DEF RowsStay
  <2>5. Busy(x)' <=> Busy(x)
    BY <2>1 DEF Busy
  <2> SUFFICES ASSUME Busy(x) PROVE LinkOK(x)'
    BY <2>1, <2>5 DEF LinkOK
  <2> QED BY <2>1, <2>2, <2>3, <2>4, <2>5 DEF LinkOK
<1> QED BY <1>1 DEF ProjectInv

LEMMA NoRowMoves ==
  ASSUME ProjectInv, NEW q \in Requests, Steps(q), UNCHANGED rows
  PROVE  ProjectRows' /\ RowsStay
<1>1. \A table : Existing(table)' = Existing(table) /\ Alive(table)' = Alive(table)
  BY DEF Existing, Ids, Has, Alive
<1>2. ProjectTables' /\ NamesDiffer'
  BY <1>1 DEF ProjectInv, ProjectRows, ProjectTables, NamesDiffer, Has
<1>3. LimitsKept' /\ VersionsThere'
  BY <1>1, DisturbanceStays DEF ProjectInv, ProjectRows, LimitsKept, VersionsThere
<1>4. TokensDiffer'
  BY <1>1, DisturbanceStays DEF ProjectInv, ProjectRows, TokensDiffer
<1> QED BY <1>1, <1>2, <1>3, <1>4 DEF ProjectRows, RowsStay

\* One row of a workflow is inserted or changed.
LEMMA OneWorkflowMoves ==
  ASSUME ProjectInv, NEW w \in Ids("workflow"), NEW r, WorkflowRow(r), rows' = [rows EXCEPT ![w] = r],
         Disturbed(LinkKinds) => Disturbed(LinkKinds)',
         Disturbed({"project_delete"}) => Disturbed({"project_delete"})',
         Disturbed(LinkKinds)' \/ WithinLimit(r),
         Disturbed({"project_delete"})' \/ r.current <= r.versions,
         w \in Alive("workflow") /\ rows[w].versions = 1 => r.versions = 1,
         \A x \in Requests : job[x].kind = "share" => job'[x].kind = "share",
         \/ r.token \notin Requests
         \/ w \in Alive("workflow") /\ r.token = rows[w].token
         \/ job'[r.token].kind = "share" /\ \A v \in Alive("workflow") : rows[v].token # r.token
  PROVE  ProjectRows' /\ RowsStay /\ w \in Alive("workflow")' /\ rows'[w] = r
<1>1. /\ rows = [id \in DOMAIN rows |-> rows[id]] /\ w \in DOMAIN rows /\ w[1] = "workflow"
      /\ r # NoRow /\ r # Deleted
  BY ProjectRowsAreRows DEF ProjectInv, ProjectRows, ProjectTables, Ids
<1>2. /\ DOMAIN rows' = DOMAIN rows /\ rows' = [id \in DOMAIN rows |-> rows'[id]]
      /\ rows'[w] = r /\ \A id \in DOMAIN rows \ {w} : rows'[id] = rows[id]
  BY <1>1
<1>3. /\ \A table : Existing(table) \subseteq Existing(table)'
      /\ w \in Alive("workflow")'
      /\ \A id \in Alive("workflow") : id \in Alive("workflow")'
      /\ \A id \in Alive("workflow")' \ {w} : id \in Alive("workflow") /\ rows'[id] = rows[id]
      /\ Alive("project")' = Alive("project")
      /\ \A id \in Alive("project") : rows'[id] = rows[id]
  BY <1>1, <1>2 DEF Existing, Ids, Has, Alive
<1>4. ProjectTables'
  BY <1>1, <1>2 DEF ProjectInv, ProjectRows, ProjectTables, Has
<1>5. NamesDiffer'
  BY <1>3 DEF ProjectInv, ProjectRows, NamesDiffer
<1>6. LimitsKept' /\ VersionsThere'
  BY <1>2, <1>3 DEF ProjectInv, ProjectRows, LimitsKept, VersionsThere
<1>7. \A id \in Alive("workflow") : rows[id].versions = 1 => rows'[id].versions = 1
  <2>1. \A id \in Alive("workflow") : id \in DOMAIN rows
    BY DEF Alive, Existing, Ids
  <2> QED BY <1>2, <2>1
<1>8. TokensDiffer'
  <2> SUFFICES ASSUME NEW v \in Alive("workflow")', rows'[v].token \in Requests
               PROVE  /\ job'[rows'[v].token].kind = "share"
                      /\ \A z \in Alive("workflow")' : rows'[z].token = rows'[v].token => z = v
    BY DEF TokensDiffer
  <2>1. CASE v = w
    BY <1>2, <1>3, <2>1 DEF ProjectInv, ProjectRows, TokensDiffer
  <2>2. CASE v # w
    BY <1>2, <1>3, <2>2 DEF ProjectInv, ProjectRows, TokensDiffer
  <2> QED BY <2>1, <2>2
<1> QED BY <1>2, <1>3, <1>4, <1>5, <1>6, <1>7, <1>8 DEF ProjectRows, RowsStay

-------------------------------------------------------------------------------
(* Requests that begin, go on and end. *)

\* q is refused, or ends.
LEMMA ProjectAnswers ==
  ASSUME ProjectInv, NEW q \in Requests, NEW kind \in ProjectKinds, NEW outcome \in Outcomes,
         Begins(q, Answered(kind, outcome))
  PROVE  RequestInv' /\ Steps(q) /\ job'[q].kind \in ProjectKinds /\ LinkOK(q)'
<1>1. RequestInv' /\ Steps(q) /\ job'[q] = Answered(kind, outcome)
  BY BeginsMeans, AnsweredFields DEF ProjectInv
<1>2. job'[q].phase = outcome /\ job'[q].kind = kind
  BY <1>1 DEF Answered, NoJob
<1> QED BY <1>1, <1>2 DEF LinkOK, Busy

LEMMA ProjectRefused ==
  ASSUME ProjectInv, NEW q \in Requests, NEW kind \in ProjectKinds,
         Begins(q, Answered(kind, "refused")), UNCHANGED rows
  PROVE  ProjectInv'
<1>1. RequestInv' /\ Steps(q) /\ job'[q].kind \in ProjectKinds /\ LinkOK(q)'
  BY ProjectAnswers DEF Outcomes
<1> QED BY <1>1, NoRowMoves, ProjectStep

LEMMA ProjectEnds ==
  ASSUME ProjectInv, NEW q \in Requests, job[q].kind \in ProjectKinds, UNCHANGED rows,
         \/ Busy(q) /\ Ends(q, "failed")
         \/ Fails(q)
  PROVE  ProjectInv'
<1>1. Busy(q)
  BY DEF Fails
<1>2. Proceeds(q) /\ job'[q].kind = job[q].kind /\ job'[q].phase \in Outcomes
  BY <1>1, EndsMeans DEF ProjectInv, Outcomes
<1>3. RequestInv' /\ Steps(q)
  BY <1>2, ProceedsMeans DEF ProjectInv
<1>4. LinkOK(q)'
  BY <1>2 DEF LinkOK, Busy
<1> QED BY <1>2, <1>3, <1>4, NoRowMoves, ProjectStep

\* q goes on with its copy.
LEMMA ProjectGoes ==
  ASSUME ProjectInv, NEW q \in Requests, Busy(q), job[q].kind \in ProjectKinds, NEW phase, Goes(q, phase)
  PROVE  /\ RequestInv' /\ Steps(q) /\ UNCHANGED alone
         /\ job'[q].kind = job[q].kind /\ job'[q].phase = phase /\ job'[q].row = job[q].row
         /\ job'[q].next = job[q].next /\ job'[q].then = job[q].then
         /\ CopyFields \subseteq DOMAIN job'[q]
<1>1. /\ Proceeds(q) /\ job'[q] = [job[q] EXCEPT !.phase = phase] /\ job'[q].phase = phase
  BY GoesMeans DEF ProjectInv
<1>2. CopyFields \subseteq DOMAIN job[q]
  BY DEF ProjectInv, LinkOK
<1>3. /\ job'[q].kind = job[q].kind /\ job'[q].row = job[q].row
      /\ job'[q].next = job[q].next /\ job'[q].then = job[q].then
      /\ DOMAIN job'[q] = DOMAIN job[q]
  BY <1>1, <1>2 DEF CopyFields, JobFields
<1>4. RequestInv' /\ Steps(q)
  BY <1>1, <1>3, ProceedsMeans DEF ProjectInv
<1> QED BY <1>1, <1>2, <1>3, <1>4 DEF Goes

\* q begins with a copy and goes to phase.
LEMMA ProjectBegins ==
  ASSUME ProjectInv, NEW q \in Requests, NEW kind, NEW id, NEW next, NEW then, NEW phase,
         Begins(q, [Copy(kind, NoProcess, id, next, then) EXCEPT !.phase = phase])
  PROVE  /\ RequestInv' /\ Steps(q)
         /\ job'[q].kind = kind /\ job'[q].phase = phase /\ job'[q].row = id
         /\ job'[q].next = next /\ job'[q].then = then
         /\ CopyFields \subseteq DOMAIN job'[q]
<1> DEFINE j == [Copy(kind, NoProcess, id, next, then) EXCEPT !.phase = phase]
<1>1. /\ j.kind = kind /\ j.phase = phase /\ j.row = id /\ j.next = next /\ j.then = then
      /\ CopyFields \subseteq DOMAIN j
  BY DEF Copy, CopyFields, JobFields
<1> HIDE DEF j
<1>2. Begins(q, j)
  BY DEF j
<1>3. RequestInv' /\ Steps(q) /\ job'[q] = j
  BY <1>1, <1>2, BeginsMeans DEF ProjectInv, CopyFields
<1> QED BY <1>1, <1>3

-------------------------------------------------------------------------------
(* Projects. *)

LEMMA CreateProjectStep ==
  ASSUME ProjectInv, NEW q \in Requests, CreateProject(q)
  PROVE  ProjectInv'
<1>1. PICK name \in ProjectNames :
        /\ UNCHANGED rows
        /\ \/ Begins(q, Answered("project_create", "refused"))
           \/ NewRowOf(q, "project_create", "project", NewProject(name), "audit")
  BY DEF CreateProject
<1>2. CASE Begins(q, Answered("project_create", "refused"))
  BY <1>1, <1>2, ProjectRefused DEF ProjectKinds
<1>3. CASE NewRowOf(q, "project_create", "project", NewProject(name), "audit")
  <2>1. /\ RequestInv' /\ Steps(q)
        /\ job'[q].kind = "project_create" /\ job'[q].phase = "insert"
        /\ job'[q].next = NewProject(name) /\ job'[q].then = "audit"
        /\ CopyFields \subseteq DOMAIN job'[q]
    BY <1>3, ProjectBegins DEF NewRowOf
  <2>2. ProjectRow(NewProject(name))
    BY DEF ProjectRow, NewProject
  <2>3. LinkOK(q)'
    BY <2>1, <2>2 DEF LinkOK
  <2> QED BY <1>1, <2>1, <2>3, NoRowMoves, ProjectStep DEF ProjectKinds
<1> QED BY <1>1, <1>2, <1>3

LEMMA InsertProjectStep ==
  ASSUME ProjectInv, NEW q \in Requests, InsertProject(q)
  PROVE  ProjectInv'
<1>1. job[q].kind = "project_create" /\ job[q].phase = "insert" /\ Busy(q)
      /\ job[q].kind \in ProjectKinds
  BY DEF InsertProject, At, Busy, Outcomes, ProjectKinds
<1>2. CASE Ends(q, "failed") /\ UNCHANGED rows
  BY <1>1, <1>2, ProjectEnds
<1>3. CASE Named(job[q].next.name) = {} /\ InsertRow(q, {"project_create"}, "project")
  <2> DEFINE u == FirstFree("project")
             j == [job[q] EXCEPT !.phase = job[q].then, !.row = u]
             next == job[q].next
  <2>1. /\ Free("project") # {} /\ UNCHANGED alone
        /\ rows' = [rows EXCEPT ![u] = next]
        /\ job' = [job EXCEPT ![q].phase = job[q].then, ![q].row = u]
    BY <1>3 DEF InsertRow
  <2>2. /\ CopyFields \subseteq DOMAIN job[q] /\ job[q].then = "audit" /\ ProjectRow(next)
    BY <1>1 DEF ProjectInv, LinkOK
  <2>3. u[1] = "project" /\ u \in DOMAIN rows /\ rows[u] = NoRow
    <3>1. \A id \in DOMAIN rows : id[2] \in Nat
      BY DEF ProjectInv, ProjectRows, ProjectTables
    <3> QED BY <2>1, <3>1, FirstFreeIsFree
  <2> HIDE DEF u
  <2>4. job' = [job EXCEPT ![q] = j]
    BY <2>1, <2>2 DEF ProjectInv, RequestInv, CopyFields, JobFields
  <2>5. CopyFields \subseteq DOMAIN j /\ j.kind = job[q].kind /\ j.phase = "audit" /\ j.then = "audit"
    BY <2>2 DEF CopyFields, JobFields
  <2> HIDE DEF j
  <2>6. RequestInv' /\ job'[q] = j /\ Steps(q)
    BY <1>1, <2>1, <2>4, <2>5, JobBecomes DEF ProjectInv, CopyFields
  <2>7. LinkOK(q)'
    BY <1>1, <2>5, <2>6 DEF LinkOK
  <2>8. next # NoRow /\ next # Deleted
    BY <2>2, ProjectRowsAreRows
  <2> HIDE DEF next
  <2>9. /\ DOMAIN rows' = DOMAIN rows /\ rows' = [id \in DOMAIN rows |-> rows'[id]]
        /\ rows'[u] = next /\ \A id \in DOMAIN rows \ {u} : rows'[id] = rows[id]
    BY <2>1, <2>3 DEF ProjectInv, ProjectRows, ProjectTables
  <2>10. /\ \A table : Existing(table) \subseteq Existing(table)'
         /\ Alive("workflow")' = Alive("workflow")
         /\ \A w \in Alive("workflow") : rows'[w] = rows[w]
         /\ \A id \in Alive("project")' \ {u} : id \in Alive("project") /\ rows'[id] = rows[id]
    BY <2>3, <2>8, <2>9 DEF Existing, Ids, Has, Alive
  <2>11. ProjectTables'
    BY <2>2, <2>3, <2>9 DEF ProjectInv, ProjectRows, ProjectTables, Has, next
  <2>12. NamesDiffer'
    <3>1. \A id \in Alive("project") : rows[id].name # next.name
      BY <1>3 DEF Named, next
    <3> QED BY <2>9, <2>10, <3>1 DEF ProjectInv, ProjectRows, NamesDiffer
  <2>13. LimitsKept' /\ VersionsThere'
    BY <2>6, <2>10, DisturbanceStays DEF ProjectInv, ProjectRows, LimitsKept, VersionsThere
  <2>14. TokensDiffer'
    BY <2>6, <2>10, DisturbanceStays DEF ProjectInv, ProjectRows, TokensDiffer
  <2>16. ProjectRows' /\ RowsStay
    BY <2>10, <2>11, <2>12, <2>13, <2>14 DEF ProjectRows, RowsStay
  <2>15. job'[q].kind \in ProjectKinds
    BY <1>1, <2>5, <2>6
  <2> QED BY <2>6, <2>7, <2>15, <2>16, ProjectStep
<1> QED BY <1>2, <1>3 DEF InsertProject

LEMMA DeleteProjectStep ==
  ASSUME ProjectInv, NEW q \in Requests, DeleteProject(q)
  PROVE  ProjectInv'
<1>1. PICK id \in Existing("project") :
        \/ Begins(q, [Copy("project_delete", NoProcess, id, Deleted, "audit") EXCEPT !.phase = "erase"])
        \/ Begins(q, Answered("project_delete", "refused"))
  BY DEF DeleteProject
<1>2. UNCHANGED rows
  BY DEF DeleteProject
<1>3. CASE Begins(q, Answered("project_delete", "refused"))
  BY <1>2, <1>3, ProjectRefused DEF ProjectKinds
<1>4. CASE Begins(q, [Copy("project_delete", NoProcess, id, Deleted, "audit") EXCEPT !.phase = "erase"])
  <2>1. /\ RequestInv' /\ Steps(q)
        /\ job'[q].kind = "project_delete" /\ job'[q].phase = "erase" /\ job'[q].row = id
        /\ CopyFields \subseteq DOMAIN job'[q]
    BY <1>4, ProjectBegins
  <2>2. id \in Existing("project")'
    BY <1>2 DEF Existing, Ids, Has
  <2>3. LinkOK(q)'
    BY <2>1, <2>2 DEF LinkOK
  <2> QED BY <1>2, <2>1, <2>3, NoRowMoves, ProjectStep DEF ProjectKinds
<1> QED BY <1>1, <1>3, <1>4

\* A deletion that meets a request at work is disturbed.
LEMMA EraseProjectStep ==
  ASSUME ProjectInv, NEW q \in Requests, EraseProject(q)
  PROVE  ProjectInv'
<1>1. job[q].kind = "project_delete" /\ job[q].phase = "erase" /\ Busy(q)
      /\ job[q].kind \in ProjectKinds
  BY DEF EraseProject, At, Busy, Outcomes, ProjectKinds
<1> DEFINE ws == WorkflowsOf(job[q].row)
           gone == ws \cup {job[q].row}
<1>2. CASE Ends(q, "failed") /\ UNCHANGED rows
  BY <1>1, <1>2, ProjectEnds
<1>3. CASE /\ rows' = [id \in DOMAIN rows |-> IF id \in gone THEN Deleted ELSE rows[id]]
           /\ Goes(q, "audit")
  <2>1. /\ RequestInv' /\ Steps(q) /\ UNCHANGED alone
        /\ job'[q].kind = "project_delete" /\ job'[q].phase = "audit" /\ job'[q].row = job[q].row
        /\ CopyFields \subseteq DOMAIN job'[q]
    BY <1>1, <1>3, ProjectGoes
  <2>2. job[q].row \in Existing("project")
    BY <1>1 DEF ProjectInv, LinkOK
  <2>3. \A id \in gone : id \in DOMAIN rows /\ Has(id)
    BY <2>2 DEF WorkflowsOf, Alive, Existing, Ids
  <2> HIDE DEF gone
  <2>4. Deleted # NoRow
    BY ProjectRowsAreRows
  <2>5. /\ DOMAIN rows' = DOMAIN rows /\ rows' = [id \in DOMAIN rows |-> rows'[id]]
        /\ \A id \in DOMAIN rows : rows'[id] = IF id \in gone THEN Deleted ELSE rows[id]
    BY <1>3
  <2>6. /\ \A table : Existing(table)' = Existing(table)
        /\ \A table : \A id \in Alive(table)' : id \in Alive(table) /\ rows'[id] = rows[id]
    BY <2>3, <2>4, <2>5 DEF Existing, Ids, Has, Alive
  <2>7. ProjectTables'
    BY <2>3, <2>5 DEF ProjectInv, ProjectRows, ProjectTables, Has
  <2>8. NamesDiffer'
    BY <2>6 DEF ProjectInv, ProjectRows, NamesDiffer
  <2>9. LimitsKept' /\ VersionsThere'
    BY <2>1, <2>6, DisturbanceStays DEF ProjectInv, ProjectRows, LimitsKept, VersionsThere
  <2>10. LinkOK(q)'
    BY <2>1, <2>2, <2>6 DEF LinkOK
  <2>11. TokensDiffer'
    BY <2>1, <2>6, DisturbanceStays DEF ProjectInv, ProjectRows, TokensDiffer
  <2>14. ProjectRows'
    BY <2>7, <2>8, <2>9, <2>11 DEF ProjectRows
  <2>12. CASE Disturbed({"project_delete"})'
    <3>1. RowsStay
      BY <2>6, <2>12 DEF RowsStay
    <3> QED BY <2>1, <2>10, <2>14, <3>1, ProjectStep DEF ProjectKinds
  <2>13. CASE ~Disturbed({"project_delete"})'
    <3>1. alone[q]
      BY <1>1, <2>1, <2>13 DEF Disturbed
    <3>2. \A x \in Requests \ {q} : ~Busy(x)
      BY <1>1, <3>1 DEF ProjectInv, RequestInv, Solitude
    <3>3. \A x \in Requests \ {q} : LinkOK(x)' /\ job'[x].kind \in ProjectKinds \cup {"none"}
      BY <2>1, <3>2 DEF LinkOK, Busy, Steps, OthersStay, ProjectInv
    <3> QED BY <2>1, <2>10, <2>14, <3>3 DEF ProjectInv, ProjectKinds
  <2> QED BY <2>12, <2>13
<1> QED BY <1>2, <1>3 DEF EraseProject

LEMMA AuditProjectStep ==
  ASSUME ProjectInv, NEW q \in Requests, AuditProject(q)
  PROVE  ProjectInv'
<1>1. /\ job[q].kind \in ProjectKinds /\ Busy(q) /\ Goes(q, "ok") /\ UNCHANGED rows
  BY DEF AuditProject, AuditedRow, At, Busy, Outcomes, ProjectKinds
<1>2. RequestInv' /\ Steps(q) /\ job'[q].phase = "ok" /\ job'[q].kind = job[q].kind
  BY <1>1, ProjectGoes
<1>3. LinkOK(q)'
  BY <1>2 DEF LinkOK, Busy, Outcomes
<1> QED BY <1>1, <1>2, <1>3, NoRowMoves, ProjectStep

-------------------------------------------------------------------------------
(* Workflows. *)

LEMMA WorkflowRows ==
  ASSUME ProjectInv, NEW w \in Alive("workflow")
  PROVE  WorkflowRow(rows[w]) /\ w \in Ids("workflow") /\ w \in Existing("workflow")
BY DEF ProjectInv, ProjectRows, ProjectTables, Alive, Existing, Ids

LEMMA CreateWorkflowStep ==
  ASSUME ProjectInv, NEW q \in Requests, CreateWorkflow(q)
  PROVE  ProjectInv'
<1>1. PICK p : NewRowOf(q, "workflow_create", "workflow", NewWorkflow(p), "version")
  BY DEF CreateWorkflow
<1>2. UNCHANGED rows
  BY DEF CreateWorkflow
<1>3. /\ RequestInv' /\ Steps(q)
      /\ job'[q].kind = "workflow_create" /\ job'[q].phase = "insert"
      /\ job'[q].next = NewWorkflow(p) /\ job'[q].then = "version"
      /\ CopyFields \subseteq DOMAIN job'[q]
  BY <1>1, ProjectBegins DEF NewRowOf
<1>4. /\ WorkflowRow(NewWorkflow(p)) /\ NewWorkflow(p).max = {} /\ NewWorkflow(p).token = "none"
      /\ NewWorkflow(p).current <= NewWorkflow(p).versions
  <2> DEFINE n == NewWorkflow(p)
  <2>1. n = [c \in WorkflowColumns |-> n[c]]
    BY DEF WorkflowColumns, NewWorkflow
  <2>2. n.versions = 0 /\ n.current = 0 /\ n.views = 0 /\ n.max = {} /\ n.token = "none"
    BY DEF NewWorkflow
  <2> HIDE DEF n
  <2>3. WorkflowRow(n)
    BY <2>1, <2>2 DEF WorkflowRow
  <2> QED BY <2>2, <2>3 DEF n
<1>5. LinkOK(q)'
  BY <1>3, <1>4 DEF LinkOK
<1> QED BY <1>2, <1>3, <1>5, NoRowMoves, ProjectStep DEF ProjectKinds

LEMMA InsertWorkflowStep ==
  ASSUME ProjectInv, NEW q \in Requests, InsertWorkflow(q)
  PROVE  ProjectInv'
<1> DEFINE u == FirstFree("workflow")
           j == [job[q] EXCEPT !.phase = job[q].then, !.row = u]
           next == job[q].next
<1>1. /\ job[q].kind = "workflow_create" /\ job[q].phase = "insert" /\ Busy(q)
      /\ job[q].kind \in ProjectKinds
      /\ Free("workflow") # {} /\ UNCHANGED alone
      /\ rows' = [rows EXCEPT ![u] = next]
      /\ job' = [job EXCEPT ![q].phase = job[q].then, ![q].row = u]
  BY DEF InsertWorkflow, InsertRow, At, Busy, Outcomes, ProjectKinds
<1>2. /\ CopyFields \subseteq DOMAIN job[q] /\ job[q].then = "version"
      /\ WorkflowRow(next) /\ next.max = {} /\ next.current <= next.versions
      /\ next.token = "none" /\ next.token \notin Requests
  BY <1>1, LimitsAssumption DEF ProjectInv, LinkOK
<1>3. u \in Ids("workflow") /\ rows[u] = NoRow
  <2>1. \A id \in DOMAIN rows : id[2] \in Nat
    BY DEF ProjectInv, ProjectRows, ProjectTables
  <2> QED BY <1>1, <2>1, FirstFreeIsFree
<1> HIDE DEF u
<1>4. job' = [job EXCEPT ![q] = j]
  BY <1>1, <1>2 DEF ProjectInv, RequestInv, CopyFields, JobFields
<1>5. CopyFields \subseteq DOMAIN j /\ j.kind = job[q].kind /\ j.phase = "version" /\ j.then = "version"
      /\ j.row = u /\ j.next = next
  BY <1>2 DEF CopyFields, JobFields
<1> HIDE DEF j, next
<1>6. RequestInv' /\ job'[q] = j /\ Steps(q)
  BY <1>1, <1>2, <1>4, <1>5, JobBecomes DEF ProjectInv, CopyFields
<1>7. WithinLimit(next) /\ u \notin Alive("workflow")
  BY <1>2, <1>3 DEF WithinLimit, Alive, Existing, Has
<1>8. ProjectRows' /\ RowsStay /\ u \in Alive("workflow")'
  BY <1>1, <1>2, <1>3, <1>6, <1>7, DisturbanceStays, OneWorkflowMoves
<1>9. LinkOK(q)'
  <2>1. u \in Existing("workflow")'
    BY <1>8 DEF Alive
  <2> QED BY <1>1, <1>2, <1>5, <1>6, <2>1 DEF LinkOK
<1>10. job'[q].kind \in ProjectKinds
  BY <1>1, <1>5, <1>6
<1> QED BY <1>6, <1>8, <1>9, <1>10, ProjectStep

LEMMA InsertVersionStep ==
  ASSUME ProjectInv, NEW q \in Requests, InsertVersion(q)
  PROVE  ProjectInv'
<1>1. job[q].kind = "workflow_create" /\ job[q].phase = "version" /\ Busy(q)
      /\ job[q].kind \in ProjectKinds
  BY DEF InsertVersion, At, Busy, Outcomes, ProjectKinds
<1>2. CASE Ends(q, "failed") /\ UNCHANGED rows
  BY <1>1, <1>2, ProjectEnds
<1>3. CASE /\ job[q].row \in Alive("workflow")
           /\ rows' = [rows EXCEPT ![job[q].row].versions = 1] /\ Goes(q, "save")
  <2>1. PICK w : w = job[q].row
    OBVIOUS
  <2>2. w \in Alive("workflow")
    BY <1>3, <2>1
  <2>3. WorkflowRow(rows[w]) /\ w \in Ids("workflow") /\ w \in DOMAIN rows
    BY <2>2, WorkflowRows DEF Ids
  <2> DEFINE r == [rows[w] EXCEPT !.versions = 1]
  <2>4. /\ WorkflowRow(r) /\ r.versions = 1 /\ r.current <= 1
        /\ r.max = rows[w].max /\ r.views = rows[w].views /\ r.token = rows[w].token
    BY <2>3 DEF WorkflowRow, WorkflowColumns
  <2>5. rows' = [rows EXCEPT ![w] = r]
    BY <1>3, <2>1, <2>3
  <2> HIDE DEF r
  <2>6. /\ RequestInv' /\ Steps(q)
        /\ job'[q].kind = job[q].kind /\ job'[q].phase = "save" /\ job'[q].row = job[q].row
        /\ job'[q].next = job[q].next /\ job'[q].then = job[q].then
        /\ CopyFields \subseteq DOMAIN job'[q]
    BY <1>1, <1>3, ProjectGoes
  <2>7. Disturbed(LinkKinds) \/ WithinLimit(r)
    BY <2>2, <2>4 DEF WithinLimit, ProjectInv, ProjectRows, LimitsKept
  <2>8. ProjectRows' /\ RowsStay /\ w \in Alive("workflow")' /\ rows'[w] = r
    BY <2>2, <2>3, <2>4, <2>5, <2>6, <2>7, DisturbanceStays, OneWorkflowMoves
  <2>9. LinkOK(q)'
    <3>1. /\ WorkflowRow(job[q].next) /\ job[q].next.max = {} /\ job[q].then = "version"
          /\ job[q].next.current <= job[q].next.versions /\ job[q].next.token = "none"
      BY <1>1 DEF ProjectInv, LinkOK
    <3>2. w \in Existing("workflow")'
      BY <2>8 DEF Alive
    <3> QED BY <1>1, <2>1, <2>4, <2>6, <2>8, <3>1, <3>2 DEF LinkOK
  <2> QED BY <1>1, <2>6, <2>8, <2>9, ProjectStep
<1> QED BY <1>2, <1>3 DEF InsertVersion

LEMMA SaveWorkflowStep ==
  ASSUME ProjectInv, NEW q \in Requests, SaveWorkflow(q)
  PROVE  ProjectInv'
<1>1. job[q].kind = "workflow_create" /\ job[q].phase = "save" /\ Busy(q)
      /\ job[q].kind \in ProjectKinds /\ Goes(q, "audit")
  BY DEF SaveWorkflow, At, Busy, Outcomes, ProjectKinds
<1>2. PICK w : w = job[q].row
  OBVIOUS
<1> DEFINE old == IF w \in Alive("workflow") THEN rows[w] ELSE job[q].next
           r == [old EXCEPT !.current = 1]
<1>3. /\ WorkflowRow(job[q].next) /\ job[q].next.max = {} /\ w \in Existing("workflow")
      /\ job[q].then = "version" /\ job[q].next.current <= job[q].next.versions
      /\ job[q].next.token = "none"
      /\ \/ Disturbed({"project_delete"})
         \/ w \in Alive("workflow") /\ rows[w].versions = 1
  BY <1>1, <1>2 DEF ProjectInv, LinkOK
<1>4. w \in Ids("workflow") /\ w \in DOMAIN rows
  BY <1>3 DEF Existing, Ids
<1>5. rows' = [rows EXCEPT ![w] = r]
  BY <1>2, <1>4 DEF SaveWorkflow
<1>6. WorkflowRow(old)
  BY <1>3, WorkflowRows
<1>7. /\ w \in Alive("workflow") => old = rows[w]
      /\ w \notin Alive("workflow") => old.max = {} /\ old.token \notin Requests
  BY <1>3, LimitsAssumption
<1> HIDE DEF old
<1>8. /\ WorkflowRow(r) /\ r.versions = old.versions /\ r.current = 1
      /\ r.max = old.max /\ r.views = old.views /\ r.token = old.token
  BY <1>6 DEF WorkflowRow, WorkflowColumns
<1> HIDE DEF r
<1>9. Disturbed(LinkKinds) \/ WithinLimit(r)
  BY <1>7, <1>8 DEF WithinLimit, ProjectInv, ProjectRows, LimitsKept
<1>10. Disturbed({"project_delete"}) \/ r.current <= r.versions
  BY <1>3, <1>7, <1>8
<1>11. /\ RequestInv' /\ Steps(q)
       /\ job'[q].kind = job[q].kind /\ job'[q].phase = "audit" /\ job'[q].row = job[q].row
       /\ job'[q].next = job[q].next /\ job'[q].then = job[q].then
       /\ CopyFields \subseteq DOMAIN job'[q]
  BY <1>1, ProjectGoes
<1>12. w \in Alive("workflow") /\ rows[w].versions = 1 => r.versions = 1
  BY <1>7, <1>8
<1>13. ProjectRows' /\ RowsStay /\ w \in Alive("workflow")'
  BY <1>4, <1>5, <1>7, <1>8, <1>9, <1>10, <1>11, <1>12, DisturbanceStays, OneWorkflowMoves
<1>14. LinkOK(q)'
  <2>1. w \in Existing("workflow")'
    BY <1>13 DEF Alive
  <2> QED BY <1>1, <1>2, <1>3, <1>11, <2>1 DEF LinkOK
<1> QED BY <1>1, <1>11, <1>13, <1>14, ProjectStep

\* A column of a workflow changes that no count depends on.
LEMMA ColumnMoves ==
  ASSUME ProjectInv, NEW w \in Alive("workflow"), NEW r, WorkflowRow(r), rows' = [rows EXCEPT ![w] = r],
         r.versions = rows[w].versions, r.current = rows[w].current,
         r.max = rows[w].max, r.views = rows[w].views, r.token = rows[w].token,
         \A x \in Requests : job[x].kind = "share" => job'[x].kind = "share",
         Disturbed(LinkKinds) => Disturbed(LinkKinds)',
         Disturbed({"project_delete"}) => Disturbed({"project_delete"})'
  PROVE  ProjectRows' /\ RowsStay
<1>1. w \in Ids("workflow")
  BY WorkflowRows
<1>2. Disturbed(LinkKinds)' \/ WithinLimit(r)
  BY DEF WithinLimit, ProjectInv, ProjectRows, LimitsKept
<1>3. Disturbed({"project_delete"})' \/ r.current <= r.versions
  BY DEF ProjectInv, ProjectRows, VersionsThere
<1> QED BY <1>1, <1>2, <1>3, OneWorkflowMoves

LEMMA AuditWorkflowStep ==
  ASSUME ProjectInv, NEW q \in Requests, AuditWorkflow(q)
  PROVE  ProjectInv'
<1>1. job[q].kind = "workflow_create" /\ job[q].phase = "audit" /\ Busy(q)
      /\ job[q].kind \in ProjectKinds
  BY DEF AuditWorkflow, At, Busy, Outcomes, ProjectKinds
<1>2. CASE Ends(q, "failed") /\ UNCHANGED rows
  BY <1>1, <1>2, ProjectEnds
<1>3. CASE /\ job[q].row \in Alive("workflow")
           /\ rows' = [rows EXCEPT ![job[q].row].audited = TRUE] /\ Goes(q, "ok")
  <2>1. PICK w : w = job[q].row
    OBVIOUS
  <2>2. w \in Alive("workflow") /\ WorkflowRow(rows[w]) /\ w \in DOMAIN rows
    BY <1>3, <2>1, WorkflowRows DEF Ids
  <2> DEFINE r == [rows[w] EXCEPT !.audited = TRUE]
  <2>3. /\ WorkflowRow(r) /\ r.versions = rows[w].versions /\ r.current = rows[w].current
        /\ r.max = rows[w].max /\ r.views = rows[w].views /\ r.token = rows[w].token
    BY <2>2 DEF WorkflowRow, WorkflowColumns
  <2>4. rows' = [rows EXCEPT ![w] = r]
    BY <1>3, <2>1, <2>2
  <2> HIDE DEF r
  <2>5. RequestInv' /\ Steps(q) /\ job'[q].kind = job[q].kind /\ job'[q].phase = "ok"
    BY <1>1, <1>3, ProjectGoes
  <2>6. ProjectRows' /\ RowsStay
    BY <2>2, <2>3, <2>4, <2>5, DisturbanceStays, ColumnMoves
  <2>7. LinkOK(q)'
    BY <2>5 DEF LinkOK, Busy, Outcomes
  <2> QED BY <1>1, <2>5, <2>6, <2>7, ProjectStep
<1> QED BY <1>2, <1>3 DEF AuditWorkflow

-------------------------------------------------------------------------------
(* Share links. *)

LEMMA CreateShareStep ==
  ASSUME ProjectInv, NEW q \in Requests, CreateShare(q)
  PROVE  ProjectInv'
<1>1. PICK w \in Alive("workflow"), expires \in {"never", "later"}, max \in ViewLimits :
        /\ Begins(q, Answered("share", "ok"))
        /\ rows' = [rows EXCEPT ![w] = Shared(rows[w], q, expires, max)]
  BY DEF CreateShare
<1>2. WorkflowRow(rows[w]) /\ w \in Ids("workflow") /\ w \in DOMAIN rows
  BY WorkflowRows DEF Ids
<1> DEFINE r == Shared(rows[w], q, expires, max)
<1>3. \A n \in max : n \in Nat
  BY LimitsAssumption
<1>4. /\ WorkflowRow(r) /\ r.versions = rows[w].versions /\ r.current = rows[w].current
      /\ r.views = 0 /\ r.token = q /\ \A n \in r.max : n \in Nat
  <2> DEFINE row == rows[w]
             e == IF expires = "never" THEN row.expires ELSE expires
             m == IF max = {} THEN row.max ELSE max
  <2>1. row = [c \in WorkflowColumns |-> row[c]] /\ row.versions \in {0, 1} /\ row.current \in {0, 1}
        /\ \A n \in row.max : n \in Nat
    BY <1>2 DEF WorkflowRow
  <2>2. \A n \in m : n \in Nat
    BY <1>3, <2>1
  <2>3. r = [row EXCEPT !.token = q, !.views = 0, !.expires = e, !.max = m]
    BY DEF Shared
  <2> HIDE DEF row, e, m, r
  <2>4. r = [c \in WorkflowColumns |-> r[c]]
    BY <2>1, <2>3
  <2>5. /\ r.versions = row.versions /\ r.current = row.current /\ r.views = 0 /\ r.token = q
        /\ r.max = m
    BY <2>1, <2>3 DEF WorkflowColumns
  <2>6. WorkflowRow(r)
    BY <2>1, <2>2, <2>4, <2>5 DEF WorkflowRow
  <2> QED BY <2>2, <2>5, <2>6 DEF row
<1>5. rows' = [rows EXCEPT ![w] = r]
  BY <1>1
<1> HIDE DEF r
<1>6. RequestInv' /\ Steps(q) /\ job'[q].kind \in ProjectKinds /\ LinkOK(q)'
  BY <1>1, ProjectAnswers DEF Outcomes, ProjectKinds
<1>7. WithinLimit(r)
  BY <1>4 DEF WithinLimit
<1>8. Disturbed({"project_delete"}) \/ r.current <= r.versions
  BY <1>4 DEF ProjectInv, ProjectRows, VersionsThere
<1>9. job'[q].kind = "share" /\ \A v \in Alive("workflow") : rows[v].token # q
  <2>1. job[q].kind = "none" /\ job'[q] = Answered("share", "ok")
    BY <1>1 DEF Begins, NoJob, ProjectInv, RequestInv
  <2> QED BY <2>1 DEF Answered, NoJob, ProjectInv, ProjectRows, TokensDiffer
<1>10. ProjectRows' /\ RowsStay
  BY <1>2, <1>4, <1>5, <1>6, <1>7, <1>8, <1>9, DisturbanceStays, OneWorkflowMoves
<1> QED BY <1>6, <1>10, ProjectStep

LEMMA ViewSharedStep ==
  ASSUME ProjectInv, NEW q \in Requests, ViewShared(q)
  PROVE  ProjectInv'
<1>1. UNCHANGED rows
  BY DEF ViewShared
<1>2. PICK t \in {x \in Requests : job[x].kind = "share"} :
        LET found == {w \in Alive("workflow") : rows[w].token = t}
        IN IF \E w \in found : Viewable(rows[w])
           THEN \E w \in found :
                  Begins(q, [Copy("view", NoProcess, w, rows[w], "ok") EXCEPT !.phase = "count"])
           ELSE Begins(q, Answered("view", "refused"))
  BY DEF ViewShared
<1>3. CASE Begins(q, Answered("view", "refused"))
  BY <1>1, <1>3, ProjectRefused DEF ProjectKinds
<1>4. ASSUME NEW v \in Alive("workflow"), rows[v].token = t, Viewable(rows[v]),
             NEW w \in Alive("workflow"), rows[w].token = t,
             Begins(q, [Copy("view", NoProcess, w, rows[w], "ok") EXCEPT !.phase = "count"])
      PROVE  ProjectInv'
  <2>1. v = w
    BY <1>4 DEF ProjectInv, ProjectRows, TokensDiffer
  <2>2. /\ RequestInv' /\ Steps(q)
        /\ job'[q].kind = "view" /\ job'[q].phase = "count" /\ job'[q].row = w
        /\ CopyFields \subseteq DOMAIN job'[q]
    <3>1. PICK j : j = [Copy("view", NoProcess, w, rows[w], "ok") EXCEPT !.phase = "count"]
      OBVIOUS
    <3>2. /\ j.kind = "view" /\ j.phase = "count" /\ j.row = w
          /\ CopyFields \subseteq DOMAIN j
      BY <3>1 DEF Copy, CopyFields, JobFields
    <3>3. Begins(q, j)
      BY <1>4, <3>1
    <3>4. RequestInv' /\ Steps(q) /\ job'[q] = j
      BY <3>2, <3>3, BeginsMeans DEF ProjectInv, CopyFields
    <3> QED BY <3>2, <3>4
  <2>3. w \in Existing("workflow")' /\ BelowLimit(rows'[w])
    BY <1>1, <1>4, <2>1 DEF Alive, Existing, Ids, Has, Viewable, BelowLimit
  <2>4. LinkOK(q)'
    BY <2>2, <2>3 DEF LinkOK
  <2> QED BY <1>1, <2>2, <2>4, NoRowMoves, ProjectStep DEF ProjectKinds
<1> QED BY <1>2, <1>3, <1>4

LEMMA CountViewStep ==
  ASSUME ProjectInv, NEW q \in Requests, CountView(q)
  PROVE  ProjectInv'
<1>1. job[q].kind = "view" /\ job[q].phase = "count" /\ Busy(q)
      /\ job[q].kind \in ProjectKinds /\ Goes(q, "ok")
  BY DEF CountView, At, Busy, Outcomes, ProjectKinds
<1>2. RequestInv' /\ Steps(q) /\ job'[q].kind = job[q].kind /\ job'[q].phase = "ok" /\ UNCHANGED alone
  BY <1>1, ProjectGoes
<1>3. LinkOK(q)'
  BY <1>2 DEF LinkOK, Busy, Outcomes
<1>4. PICK w : w = job[q].row
  OBVIOUS
<1>5. CASE w \notin Alive("workflow")
  <2>1. UNCHANGED rows
    BY <1>4, <1>5 DEF CountView
  <2> QED BY <1>1, <1>2, <1>3, <2>1, NoRowMoves, ProjectStep
<1>6. CASE w \in Alive("workflow")
  <2>1. WorkflowRow(rows[w]) /\ w \in Ids("workflow") /\ w \in DOMAIN rows
    BY <1>6, WorkflowRows DEF Ids
  <2> DEFINE r == [rows[w] EXCEPT !.views = @ + 1]
  <2>2. /\ WorkflowRow(r) /\ r.versions = rows[w].versions /\ r.current = rows[w].current
        /\ r.max = rows[w].max /\ r.views = rows[w].views + 1 /\ r.token = rows[w].token
    BY <2>1 DEF WorkflowRow, WorkflowColumns
  <2>3. rows' = [rows EXCEPT ![w] = r]
    BY <1>4, <1>6, <2>1 DEF CountView
  <2> HIDE DEF r
  <2>4. Disturbed(LinkKinds) \/ WithinLimit(r)
    <3> SUFFICES ASSUME ~Disturbed(LinkKinds) PROVE WithinLimit(r)
      OBVIOUS
    <3>1. alone[q]
      BY <1>1 DEF Disturbed, LinkKinds
    <3>2. BelowLimit(rows[w])
      BY <1>1, <1>4, <1>6, <3>1 DEF ProjectInv, LinkOK
    <3>3. rows[w].views \in Nat /\ \A n \in rows[w].max : n \in Nat
      BY <2>1 DEF WorkflowRow
    <3> QED BY <2>2, <3>2, <3>3 DEF BelowLimit, WithinLimit
  <2>5. Disturbed({"project_delete"}) \/ r.current <= r.versions
    BY <1>6, <2>2 DEF ProjectInv, ProjectRows, VersionsThere
  <2>6. ProjectRows' /\ RowsStay
    BY <1>2, <1>6, <2>1, <2>2, <2>3, <2>4, <2>5, DisturbanceStays, OneWorkflowMoves
  <2> QED BY <1>1, <1>2, <1>3, <2>6, ProjectStep
<1> QED BY <1>5, <1>6

LEMMA LinkExpiresStep ==
  ASSUME ProjectInv, LinkExpires
  PROVE  ProjectInv'
<1>1. PICK w \in Alive("workflow") : rows' = [rows EXCEPT ![w].expires = "past"]
  BY DEF LinkExpires
<1>2. UNCHANGED <<job, alone>>
  BY DEF LinkExpires, requestVars
<1>3. WorkflowRow(rows[w]) /\ w \in DOMAIN rows
  BY WorkflowRows DEF Ids
<1> DEFINE r == [rows[w] EXCEPT !.expires = "past"]
<1>4. /\ WorkflowRow(r) /\ r.versions = rows[w].versions /\ r.current = rows[w].current
      /\ r.max = rows[w].max /\ r.views = rows[w].views /\ r.token = rows[w].token
  BY <1>3 DEF WorkflowRow, WorkflowColumns
<1>5. rows' = [rows EXCEPT ![w] = r]
  BY <1>1, <1>3
<1> HIDE DEF r
<1>6. /\ Disturbed(LinkKinds)' <=> Disturbed(LinkKinds)
      /\ Disturbed({"project_delete"})' <=> Disturbed({"project_delete"})
  BY <1>2 DEF Disturbed
<1>7. ProjectRows' /\ RowsStay
  BY <1>2, <1>4, <1>5, <1>6, ColumnMoves
<1>8. RequestInv'
  BY <1>2 DEF ProjectInv, RequestInv, Solitude, Busy
<1>9. ASSUME NEW q \in Requests PROVE LinkOK(q)'
  <2>1. LinkOK(q) /\ job'[q] = job[q] /\ alone'[q] = alone[q] /\ (Busy(q)' <=> Busy(q))
    BY <1>2 DEF ProjectInv, Busy
  <2>2. ASSUME NEW x \in Alive("workflow")', x \in Existing("workflow"), x \in Alive("workflow") => BelowLimit(rows[x])
        PROVE  BelowLimit(rows'[x])
    <3>1. rows = [id \in DOMAIN rows |-> rows[id]]
      BY DEF ProjectInv, ProjectRows, ProjectTables
    <3>2. CASE x = w
      BY <1>3, <1>4, <1>5, <2>2, <3>1, <3>2 DEF BelowLimit
    <3>3. CASE x # w
      <4>1. rows'[x] = rows[x]
        BY <1>5, <2>2, <3>1, <3>3 DEF Existing, Ids
      <4> QED BY <2>2, <4>1 DEF Alive, BelowLimit
    <3> QED BY <3>2, <3>3
  <2> SUFFICES ASSUME Busy(q) PROVE LinkOK(q)'
    BY <2>1 DEF LinkOK
  <2>3. job[q].kind # "view" => LinkOK(q)'
    BY <1>2, <1>6, <1>7, <2>1 DEF LinkOK, RowsStay
  <2>4. job[q].kind = "view" => LinkOK(q)'
    <3> SUFFICES ASSUME job[q].kind = "view" PROVE LinkOK(q)'
      OBVIOUS
    <3>1. /\ CopyFields \subseteq DOMAIN job[q] /\ job[q].phase = "count"
          /\ job[q].row \in Existing("workflow")
          /\ alone[q] /\ job[q].row \in Alive("workflow") => BelowLimit(rows[job[q].row])
      BY <2>1 DEF LinkOK
    <3>2. PICK x : x = job[q].row
      OBVIOUS
    <3>3. x \in Existing("workflow")'
      BY <1>7, <3>1, <3>2 DEF RowsStay
    <3>4. alone[q] /\ x \in Alive("workflow")' => BelowLimit(rows'[x])
      BY <2>2, <3>1, <3>2
    <3> QED BY <2>1, <3>1, <3>2, <3>3, <3>4 DEF LinkOK
  <2> QED BY <2>3, <2>4
<1> QED BY <1>2, <1>7, <1>8, <1>9 DEF ProjectInv

LEMMA ProjectSteps ==
  ASSUME ProjectInv, ProjectNext
  PROVE  ProjectInv'
<1>1. CASE LinkExpires
  BY <1>1, LinkExpiresStep
<1>2. ASSUME NEW q \in Requests,
             \/ CreateProject(q) \/ InsertProject(q) \/ DeleteProject(q) \/ EraseProject(q)
             \/ AuditProject(q)
      PROVE  ProjectInv'
  BY <1>2, CreateProjectStep, InsertProjectStep, DeleteProjectStep, EraseProjectStep, AuditProjectStep
<1>3. ASSUME NEW q \in Requests,
             \/ CreateWorkflow(q) \/ InsertWorkflow(q) \/ InsertVersion(q) \/ SaveWorkflow(q)
             \/ AuditWorkflow(q)
      PROVE  ProjectInv'
  BY <1>3, CreateWorkflowStep, InsertWorkflowStep, InsertVersionStep, SaveWorkflowStep,
     AuditWorkflowStep
<1>4. ASSUME NEW q \in Requests, CreateShare(q) \/ ViewShared(q) \/ CountView(q)
      PROVE  ProjectInv'
  BY <1>4, CreateShareStep, ViewSharedStep, CountViewStep
<1>5. ASSUME NEW q \in Requests, job[q].kind \in ProjectKinds, Fails(q), UNCHANGED rows
      PROVE  ProjectInv'
  BY <1>5, ProjectEnds
<1> QED BY <1>1, <1>2, <1>3, <1>4, <1>5 DEF ProjectNext

\* Nothing happens to the projects.
LEMMA ProjectsRest ==
  ASSUME ProjectInv, UNCHANGED <<job, alone, rows>>
  PROVE  ProjectInv'
<1>1. \A table : Existing(table)' = Existing(table) /\ Alive(table)' = Alive(table)
  BY DEF Existing, Ids, Has, Alive
<1>2. /\ Disturbed(LinkKinds)' <=> Disturbed(LinkKinds)
      /\ Disturbed({"project_delete"})' <=> Disturbed({"project_delete"})
  BY DEF Disturbed
<1>3. RequestInv' /\ ProjectTables' /\ NamesDiffer' /\ TokensDiffer'
  BY <1>1 DEF ProjectInv, ProjectRows, RequestInv, Solitude, Busy, ProjectTables, NamesDiffer,
                    TokensDiffer, Has
<1>4. LimitsKept' /\ VersionsThere'
  BY <1>1, <1>2 DEF ProjectInv, ProjectRows, LimitsKept, VersionsThere
<1>5. ASSUME NEW q \in Requests PROVE LinkOK(q)' /\ job'[q].kind \in ProjectKinds \cup {"none"}
  <2>1. LinkOK(q) /\ job[q].kind \in ProjectKinds \cup {"none"}
    BY DEF ProjectInv
  <2> QED BY <1>1, <1>2, <2>1 DEF LinkOK, Busy
<1> QED BY <1>3, <1>4, <1>5 DEF ProjectInv, ProjectRows

\* Creations and deletions of projects, creations of workflows, share links and visits of any
\* number of requests, with failed calls and links that run out at any time, keep the
\* invariant: a link names one workflow, and a visit that nobody overlaps has room for one view.
THEOREM ProjectInvariance == ProjectSpec => []ProjectInv
<1>1. ProjectInit => ProjectInv
  <2> SUFFICES ASSUME ProjectInit PROVE ProjectInv
    OBVIOUS
  <2>1. RequestInv
    BY RequestsBegin DEF ProjectInit
  <2>2. PICK n \in Nat : rows = [id \in {"project", "workflow"} \X (1..n) |-> NoRow]
    BY DEF ProjectInit
  <2>3. Alive("project") = {} /\ Alive("workflow") = {}
    BY <2>2 DEF Alive, Existing, Ids, Has
  <2>4. ProjectTables
    <3>1. \A id \in DOMAIN rows : id[2] \in Nat /\ ~Has(id)
      BY <2>2 DEF Has
    <3>2. rows = [id \in DOMAIN rows |-> rows[id]]
      BY <2>2
    <3> QED BY <3>1, <3>2 DEF ProjectTables
  <2>5. \A q \in Requests : job[q].kind = "none" /\ job[q].phase = "idle"
    BY DEF ProjectInit, RequestInit, NoJob
  <2>6. \A q \in Requests : job[q].kind \in ProjectKinds \cup {"none"} /\ LinkOK(q)
    BY <2>5 DEF LinkOK, Busy
  <2>7. NamesDiffer /\ LimitsKept /\ VersionsThere /\ TokensDiffer
    BY <2>3 DEF NamesDiffer, LimitsKept, VersionsThere, TokensDiffer
  <2> QED BY <2>1, <2>4, <2>6, <2>7 DEF ProjectInv, ProjectRows
<1>2. ProjectInv /\ [ProjectNext]_<<requestVars, rows>> => ProjectInv'
  BY ProjectSteps, ProjectsRest DEF requestVars
<1> QED BY <1>1, <1>2, PTL DEF ProjectSpec

\* A share link is not opened more often than its limit says unless requests to links overlap,
\* the names of projects differ also when two creations race, and the version a
\* workflow names exists unless a deletion of a project overlapped another request.
THEOREM ProjectsStaySound == ProjectSpec => []ProjectsSound
<1>1. ProjectInv => ProjectsSound
  <2> SUFFICES ASSUME ProjectInv PROVE ProjectsSound
    OBVIOUS
  <2>1. ~Undisturbed({"share", "view"}) <=> Disturbed(LinkKinds)
    BY DEF Undisturbed, Disturbed, LinkKinds
  <2>2. ~Undisturbed({"project_delete"}) <=> Disturbed({"project_delete"})
    BY DEF Undisturbed, Disturbed
  <2>3. Undisturbed({"share", "view"}) =>
          \A w \in Alive("workflow") : \A n \in rows[w].max : n = 0 \/ rows[w].views <= n
    BY <2>1 DEF ProjectInv, ProjectRows, LimitsKept, WithinLimit
  <2>4. \A id1, id2 \in Alive("project") : rows[id1].name = rows[id2].name => id1 = id2
    BY DEF ProjectInv, ProjectRows, NamesDiffer
  <2>5. Undisturbed({"project_delete"}) =>
          \A w \in Alive("workflow") : rows[w].current <= rows[w].versions
    BY <2>2 DEF ProjectInv, ProjectRows, VersionsThere
  <2> QED BY <2>3, <2>4, <2>5 DEF ProjectsSound
<1> QED BY <1>1, ProjectInvariance, PTL

-------------------------------------------------------------------------------
(* Health: an answer is as recent as its oldest check and the cache allow. *)

Statuses == {"ok", "degraded", "down"}
AskedDependencies == Dependencies \ (DisabledDependencies \cup {"nats"})

\* A check r that found its service good was followed by a good sign from time t on; a
\* worker's heartbeat may be older by StaleAge.
Signed(r, t) ==
  /\ r[1] \in Names /\ r[2] \in Statuses /\ r = <<r[1], r[2]>>
  /\ r[2] = "ok" /\ r[1] \in AskedDependencies => t <= lastFast[r[1]]
  /\ r[2] = "ok" /\ r[1] \in EnabledWorkers => \A b \in beat[r[1]] : t - StaleAge <= b.sent

\* The signs are never later than the clock.
SignsInv ==
  /\ htime \in Nat /\ lastFast \in [Dependencies -> Nat]
  /\ condition = [s \in Dependencies |-> condition[s]]
  /\ \A s \in Dependencies : /\ condition[s] \in {"fast", "slow", "gone"}
                             /\ lastFast[s] <= htime
                             /\ condition[s] = "fast" => lastFast[s] = htime
  /\ beat = [w \in Workers |-> beat[w]]
  /\ \A w \in Workers : \E b : /\ beat[w] = {b} /\ b.sent \in Nat /\ b.expires \in Nat
                               /\ b.status \in {"healthy", "degraded"}

\* The checks of a request take no longer than MaxProbe.
ChecksInv ==
  /\ get = [g \in Gets |-> get[g]]
  /\ \A g \in Gets : get[g].phase = "checking" =>
       /\ get[g].since \in Nat /\ get[g].since <= htime /\ htime <= get[g].since + MaxProbe
       /\ "result" \in DOMAIN get[g] /\ \A r \in get[g].result : Signed(r, get[g].since)

AnswersInv ==
  \A c \in cache :
    /\ c.at \in Nat /\ c.at <= htime
    /\ \A r \in c.result : Signed(r, c.at - MaxProbe)
    /\ {r[1] : r \in c.result} = Names \/ (c.result = {} /\ pinged)
    /\ Bad(c.result) \subseteq told \cup silent

HealthInv == SignsInv /\ ChecksInv /\ AnswersInv

LEMMA HealthConstants ==
  /\ CacheTtl \in Nat /\ StaleAge \in Nat /\ DownAge \in Nat /\ KeyTtl \in Nat /\ MaxProbe \in Nat
  /\ Dependencies # {} /\ Dependencies \cap Workers = {} /\ EnabledWorkers \subseteq Workers
  /\ DisabledDependencies \subseteq Dependencies
BY HealthAssumption

\* What the invariant says of the answers.
LEMMA AnswersAreRecent ==
  ASSUME HealthInv
  PROVE  HealthIsRecent
<1> USE HealthConstants
<1>1. ASSUME NEW c \in cache, Fresh(c)
      PROVE  /\ c.result # {} \/ pinged
             /\ CalculateAggregateStatus(c.result) = "ok" /\ c.result # {} =>
                  AskedDependencies \cup EnabledWorkers \subseteq Answer(c.result).good
  <2>1. /\ c.at \in Nat /\ htime \in Nat /\ htime - c.at < CacheTtl
        /\ \A r \in c.result : Signed(r, c.at - MaxProbe)
        /\ {r[1] : r \in c.result} = Names \/ (c.result = {} /\ pinged)
    BY <1>1 DEF HealthInv, AnswersInv, SignsInv, Fresh
  <2>2. Names # {} /\ AskedDependencies \subseteq Names /\ EnabledWorkers \subseteq Names
    BY DEF Names, AskedDependencies
  <2>3. ASSUME CalculateAggregateStatus(c.result) = "ok", NEW s \in Names, c.result # {},
               s \in AskedDependencies \cup EnabledWorkers
        PROVE  s \in Answer(c.result).good
    <3>1. PICK r \in c.result : r[1] = s
      BY <2>1, <2>3
    <3>2. r[2] = "ok" /\ Signed(r, c.at - MaxProbe)
      BY <2>1, <2>3 DEF CalculateAggregateStatus, Signed, Statuses
    <3>3. \E t \in GoodSigns(s) :
            htime - t <= CacheTtl + MaxProbe + (IF s \in Workers THEN StaleAge ELSE 0)
      <4>1. CASE s \in AskedDependencies
        <5>1. s \in Dependencies /\ s \notin Workers /\ lastFast[s] \in Nat
          BY <4>1 DEF AskedDependencies, HealthInv, SignsInv
        <5>2. c.at - MaxProbe <= lastFast[s]
          BY <3>1, <3>2, <4>1 DEF Signed
        <5>3. GoodSigns(s) = {lastFast[s]}
          BY <5>1 DEF GoodSigns
        <5> QED BY <2>1, <5>1, <5>2, <5>3
      <4>2. CASE s \in EnabledWorkers
        <5>1. s \in Workers /\ s \notin Dependencies
          BY <4>2
        <5>2. PICK b : beat[s] = {b} /\ b.sent \in Nat
          BY <5>1 DEF HealthInv, SignsInv
        <5>3. c.at - MaxProbe - StaleAge <= b.sent
          BY <3>1, <3>2, <4>2, <5>2 DEF Signed
        <5>4. b.sent \in GoodSigns(s)
          BY <5>1, <5>2 DEF GoodSigns
        <5>5. htime - b.sent <= CacheTtl + MaxProbe + StaleAge
          BY <2>1, <5>2, <5>3
        <5> QED BY <5>1, <5>4, <5>5
      <4> QED BY <2>3, <4>1, <4>2
    <3>4. Answer(c.result).good = {x \in Names : \E t \in GoodSigns(x) :
            htime - t <= CacheTtl + MaxProbe + (IF x \in Workers THEN StaleAge ELSE 0)}
      BY DEF Answer
    <3> QED BY <3>3, <3>4
  <2> QED BY <2>1, <2>2, <2>3
<1>2. ASSUME NEW a \in CachedAnswers
      PROVE  /\ a.named \/ pinged
             /\ a.status = "ok" /\ a.named => AskedDependencies \cup EnabledWorkers \subseteq a.good
  <2>1. PICK c \in cache : Fresh(c) /\ a = Answer(c.result)
    BY <1>2 DEF CachedAnswers
  <2>2. a.named = (c.result # {}) /\ a.status = CalculateAggregateStatus(c.result)
    BY <2>1 DEF Answer
  <2> QED BY <1>1, <2>1, <2>2
<1>3. \A c \in cache : Bad(c.result) \subseteq told \cup silent
  BY DEF HealthInv, AnswersInv
<1> QED BY <1>2, <1>3 DEF HealthIsRecent, AskedDependencies

\* A sign is only followed by later ones.
LEMMA SignsStay ==
  ASSUME NEW r, NEW t, Signed(r, t),
         \A s \in Dependencies : t <= lastFast[s] => t <= lastFast'[s],
         \A w \in Workers : (\A b \in beat[w] : t - StaleAge <= b.sent)
                              => \A b \in beat'[w] : t - StaleAge <= b.sent
  PROVE  Signed(r, t)'
BY HealthConstants DEF Signed, AskedDependencies

\* What services do and the passing of time leave signs that are as late or later.
LEMMA ServicesStep ==
  ASSUME HealthInv, SignsInv', UNCHANGED <<cache, get, pinged, told, silent>>, htime <= htime',
         \A g \in Gets : get[g].phase = "checking" => htime' <= get[g].since + MaxProbe,
         \A s \in Dependencies : lastFast[s] <= lastFast'[s],
         \A w \in Workers : beat'[w] = beat[w] \/ \A b \in beat'[w] : b.sent = htime
  PROVE  HealthInv'
<1> USE HealthConstants
<1>1. htime \in Nat /\ htime' \in Nat /\ lastFast \in [Dependencies -> Nat]
      /\ lastFast' \in [Dependencies -> Nat]
  BY DEF HealthInv, SignsInv
<1>2. ASSUME NEW r, NEW t \in Int, t <= htime, Signed(r, t) PROVE Signed(r, t)'
  <2>1. \A s \in Dependencies : t <= lastFast[s] => t <= lastFast'[s]
    BY <1>1, <1>2
  <2>2. \A w \in Workers : (\A b \in beat[w] : t - StaleAge <= b.sent)
                              => \A b \in beat'[w] : t - StaleAge <= b.sent
    BY <1>1, <1>2
  <2> QED BY <1>2, <2>1, <2>2, SignsStay
<1>3. ChecksInv'
  <2>1. ASSUME NEW g \in Gets, get[g].phase = "checking"
        PROVE  /\ get[g].since \in Nat /\ get[g].since <= htime'
               /\ "result" \in DOMAIN get[g]
               /\ \A r \in get[g].result : Signed(r, get[g].since)'
    <3>1. /\ get[g].since \in Nat /\ get[g].since <= htime /\ "result" \in DOMAIN get[g]
          /\ \A r \in get[g].result : Signed(r, get[g].since)
      BY <2>1 DEF HealthInv, ChecksInv
    <3>2. get'[g] = get[g] /\ get[g].since \in Int
      BY <3>1
    <3>a. PICK t : t = get[g].since
      OBVIOUS
    <3>3. \A r \in get[g].result : Signed(r, t)'
      BY <1>2, <3>1, <3>2, <3>a
    <3>4. \A r \in get[g].result : Signed(r, get[g].since)'
      BY <3>2, <3>3, <3>a
    <3> QED BY <1>1, <3>1, <3>4
  <2> QED BY <2>1 DEF HealthInv, ChecksInv
<1>4. AnswersInv'
  <2>1. ASSUME NEW c \in cache
        PROVE  /\ c.at \in Nat /\ c.at <= htime'
               /\ \A r \in c.result : Signed(r, c.at - MaxProbe)'
    <3>1. /\ c.at \in Nat /\ c.at <= htime /\ \A r \in c.result : Signed(r, c.at - MaxProbe)
      BY DEF HealthInv, AnswersInv
    <3>2. c.at - MaxProbe \in Int /\ c.at - MaxProbe <= htime
      BY <1>1, <3>1
    <3> QED BY <1>1, <1>2, <3>1, <3>2
  <2> QED BY <2>1 DEF HealthInv, AnswersInv, Bad
<1> QED BY <1>3, <1>4 DEF HealthInv

LEMMA ServicesKeep ==
  ASSUME HealthInv,
         \/ \E s \in Dependencies : Becomes(s)
         \/ \E w \in Workers : RecordHeartbeat(w)
         \/ HealthTick
  PROVE  HealthInv'
<1> USE HealthConstants
<1>1. /\ htime \in Nat /\ lastFast \in [Dependencies -> Nat]
      /\ condition = [s \in Dependencies |-> condition[s]]
      /\ \A s \in Dependencies : /\ condition[s] \in {"fast", "slow", "gone"}
                                 /\ lastFast[s] <= htime
                                 /\ condition[s] = "fast" => lastFast[s] = htime
      /\ beat = [w \in Workers |-> beat[w]]
      /\ \A w \in Workers : \E b : /\ beat[w] = {b} /\ b.sent \in Nat /\ b.expires \in Nat
                                   /\ b.status \in {"healthy", "degraded"}
      /\ \A g \in Gets : get[g].phase = "checking" => htime <= get[g].since + MaxProbe
  BY DEF HealthInv, SignsInv, ChecksInv
<1>2. ASSUME NEW s \in Dependencies, Becomes(s) PROVE HealthInv'
  <2>1. PICK c \in {"fast", "slow", "gone"} \ {condition[s]} :
          /\ condition' = [condition EXCEPT ![s] = c]
          /\ lastFast' = [lastFast EXCEPT ![s] = IF c = "fast" THEN htime ELSE @]
    BY <1>2 DEF Becomes
  <2>2. UNCHANGED <<htime, beat, cache, get, pinged, told, silent>>
    BY <1>2 DEF Becomes
  <2>3. lastFast[s] <= htime
    BY DEF HealthInv, SignsInv
  <2>4. SignsInv'
    BY <1>1, <2>1, <2>2 DEF SignsInv
  <2>5. \A x \in Dependencies : lastFast[x] <= lastFast'[x]
    BY <1>1, <2>1, <2>3
  <2> QED BY <1>1, <2>2, <2>4, <2>5, ServicesStep
<1>3. ASSUME NEW w \in Workers, RecordHeartbeat(w) PROVE HealthInv'
  <2>1. PICK status \in {"healthy", "degraded"} :
          beat' = [beat EXCEPT ![w] = {[status |-> status, sent |-> htime,
                                        expires |-> htime + KeyTtl]}]
    BY <1>3 DEF RecordHeartbeat
  <2>2. UNCHANGED <<htime, condition, lastFast, cache, get, pinged, told, silent>>
    BY <1>3 DEF RecordHeartbeat
  <2>a. PICK b : b = [status |-> status, sent |-> htime, expires |-> htime + KeyTtl]
    OBVIOUS
  <2>3. b.sent = htime /\ b.expires \in Nat /\ b.status \in {"healthy", "degraded"}
    BY <1>1, <2>a
  <2>4. /\ beat' = [x \in Workers |-> beat'[x]] /\ beat'[w] = {b}
        /\ \A x \in Workers \ {w} : beat'[x] = beat[x]
    BY <1>1, <2>1, <2>a
  <2>5. SignsInv'
    BY <1>1, <2>2, <2>3, <2>4 DEF SignsInv
  <2> QED BY <1>1, <2>2, <2>3, <2>4, <2>5, ServicesStep
<1>4. CASE HealthTick
  <2>1. /\ htime' = htime + 1 /\ UNCHANGED <<condition, beat, cache, get, pinged, told, silent>>
        /\ lastFast' = [s \in Dependencies |->
                         IF condition[s] = "fast" THEN htime + 1 ELSE lastFast[s]]
        /\ \A g \in Gets : get[g].phase = "checking" => htime < get[g].since + MaxProbe
    BY <1>4 DEF HealthTick
  <2>2. SignsInv'
    BY <1>1, <2>1 DEF SignsInv
  <2>3. \A s \in Dependencies : lastFast[s] <= lastFast'[s]
    BY <1>1, <2>1
  <2>4. \A g \in Gets : get[g].phase = "checking" => htime' <= get[g].since + MaxProbe
    <3>1. ASSUME NEW g \in Gets, get[g].phase = "checking"
          PROVE  htime' <= get[g].since + MaxProbe
      <4>1. get[g].since \in Nat
        BY <3>1 DEF HealthInv, ChecksInv
      <4> QED BY <1>1, <2>1, <3>1, <4>1
    <3> QED BY <3>1
  <2> QED BY <1>1, <2>1, <2>2, <2>3, <2>4, ServicesStep
<1> QED BY <1>2, <1>3, <1>4

\* One check: a service found good has just given a sign.
LEMMA CheckIsSigned ==
  ASSUME HealthInv, NEW s \in Names, NEW t \in Nat, t <= htime, NEW v,
         v = IF s \in Dependencies THEN CheckDependency(s)
             ELSE MapWorkerHealth(s, GetWorkerHealth(s))
  PROVE  Signed(<<s, v>>, t)
<1> USE HealthConstants
<1>1. htime \in Nat
  BY DEF HealthInv, SignsInv
<1>2. CASE s \in Dependencies
  <2>1. s \notin EnabledWorkers /\ v = CheckDependency(s)
    BY <1>2
  <2>2. /\ condition[s] \in {"fast", "slow", "gone"}
        /\ condition[s] = "fast" => lastFast[s] = htime
    BY <1>2 DEF HealthInv, SignsInv
  <2>3. Asked(condition[s]) \in Statuses /\ (Asked(condition[s]) = "ok" => t <= lastFast[s])
    BY <1>1, <2>2 DEF Asked, Statuses
  <2>4. v \in Statuses /\ (v = "ok" /\ s \in AskedDependencies => t <= lastFast[s])
    BY <2>1, <2>3 DEF CheckDependency, NatsCheck, OptionalCheck, AskedDependencies, Statuses
  <2> QED BY <2>1, <2>4 DEF Signed
<1>3. CASE s \in Workers
  <2>1. s \notin AskedDependencies /\ v = MapWorkerHealth(s, GetWorkerHealth(s))
    BY <1>3 DEF AskedDependencies
  <2>2. PICK b : /\ beat[s] = {b} /\ b.sent \in Nat /\ b.status \in {"healthy", "degraded"}
    BY <1>3 DEF HealthInv, SignsInv
  <2>3. v \in Statuses /\ (v = "ok" /\ s \in EnabledWorkers => GetWorkerHealth(s) = "healthy")
    BY <2>1 DEF MapWorkerHealth, Statuses
  <2>4. ASSUME GetWorkerHealth(s) = "healthy" PROVE htime - b.sent <= StaleAge
    <3>1. Kept(s) # {} /\ Kept(s) \subseteq {b}
      BY <2>2, <2>4 DEF GetWorkerHealth, Kept
    <3>2. (CHOOSE x \in Kept(s) : TRUE) = b
      BY <3>1
    <3>3. ~(htime - b.sent > DownAge) /\ ~(htime - b.sent > StaleAge)
      BY <2>4, <3>1, <3>2 DEF GetWorkerHealth
    <3> QED BY <1>1, <2>2, <3>3
  <2>5. v = "ok" /\ s \in EnabledWorkers => \A x \in beat[s] : t - StaleAge <= x.sent
    BY <1>1, <2>2, <2>3, <2>4
  <2> QED BY <2>1, <2>3, <2>5 DEF Signed
<1> QED BY <1>2, <1>3 DEF Names

\* Requests and pings leave the services alone.
LEMMA GetsKeep ==
  ASSUME HealthInv,
         \/ \E g \in Gets : CheckHealth(g) \/ RunCheck(g) \/ FailCheck(g) \/ Conclude(g)
         \/ HealthPing
  PROVE  HealthInv'
<1> USE HealthConstants
<1>1. UNCHANGED <<htime, condition, lastFast, beat>> /\ htime \in Nat
  BY DEF CheckHealth, RunCheck, FailCheck, Conclude, HealthPing, HealthInv, SignsInv
<1>2. SignsInv' /\ \A r, t : Signed(r, t)' <=> Signed(r, t)
  BY <1>1 DEF HealthInv, SignsInv, Signed
<1>3. ASSUME UNCHANGED <<cache, pinged, told, silent>> PROVE AnswersInv'
  BY <1>1, <1>2, <1>3 DEF HealthInv, AnswersInv, Bad
<1>4. ASSUME NEW g \in Gets, CheckHealth(g) PROVE HealthInv'
  <2>a. PICK x : x = [phase |-> "checking", since |-> htime, result |-> {}]
    OBVIOUS
  <2>1. x.phase = "checking" /\ x.since = htime /\ x.result = {} /\ "result" \in DOMAIN x
    BY <2>a
  <2>2. get' = [get EXCEPT ![g] = x] /\ UNCHANGED <<cache, pinged, told, silent>>
    BY <1>4, <2>a DEF CheckHealth
  <2>3. ChecksInv'
    BY <1>1, <1>2, <2>1, <2>2 DEF HealthInv, ChecksInv
  <2> QED BY <1>2, <1>3, <2>2, <2>3 DEF HealthInv
<1>5. ASSUME NEW g \in Gets, RunCheck(g) PROVE HealthInv'
  <2>1. PICK s \in Names : get' = [get EXCEPT ![g].result = @ \cup
           {<<s, IF s \in Dependencies THEN CheckDependency(s)
                 ELSE MapWorkerHealth(s, GetWorkerHealth(s))>>}]
    BY <1>5 DEF RunCheck
  <2>a. PICK v : v = IF s \in Dependencies THEN CheckDependency(s)
                     ELSE MapWorkerHealth(s, GetWorkerHealth(s))
    OBVIOUS
  <2>2. get[g].phase = "checking" /\ UNCHANGED <<cache, pinged, told, silent>>
    BY <1>5 DEF RunCheck
  <2>3. /\ get = [x \in Gets |-> get[x]] /\ get[g].since \in Nat /\ get[g].since <= htime
        /\ htime <= get[g].since + MaxProbe
        /\ "result" \in DOMAIN get[g] /\ \A r \in get[g].result : Signed(r, get[g].since)
    BY <2>2 DEF HealthInv, ChecksInv
  <2>b. PICK check : check = [get[g] EXCEPT !.result = @ \cup {<<s, v>>}]
    OBVIOUS
  <2>4. /\ check.phase = "checking" /\ check.since = get[g].since /\ "result" \in DOMAIN check
        /\ check.result = get[g].result \cup {<<s, v>>}
    BY <2>2, <2>3, <2>b
  <2>5. get' = [get EXCEPT ![g] = check]
    BY <2>1, <2>a, <2>b
  <2>6. Signed(<<s, v>>, get[g].since)
    BY <2>3, <2>a, CheckIsSigned
  <2>7. \A r \in check.result : Signed(r, check.since)
    BY <2>3, <2>4, <2>6
  <2>8. /\ get' = [x \in Gets |-> get'[x]] /\ get'[g] = check
        /\ \A x \in Gets \ {g} : get'[x] = get[x]
    BY <2>3, <2>5
  <2>9. ChecksInv'
    <3>1. ASSUME NEW x \in Gets, get'[x].phase = "checking"
          PROVE  /\ get'[x].since \in Nat /\ get'[x].since <= htime
                 /\ htime <= get'[x].since + MaxProbe /\ "result" \in DOMAIN get'[x]
                 /\ \A r \in get'[x].result : Signed(r, get'[x].since)
      <4>1. CASE x = g
        BY <2>3, <2>4, <2>7, <2>8, <4>1
      <4>2. CASE x # g
        <5>1. get'[x] = get[x]
          BY <2>8, <4>2
        <5> QED BY <3>1, <5>1 DEF HealthInv, ChecksInv
      <4> QED BY <4>1, <4>2
    <3> QED BY <1>1, <1>2, <2>8, <3>1 DEF ChecksInv
  <2> QED BY <1>2, <1>3, <2>2, <2>9 DEF HealthInv
<1>6. ASSUME NEW g \in Gets, Conclude(g) PROVE HealthInv'
  <2>a. PICK result : result = get[g].result
    OBVIOUS
  <2>b. PICK c : c = [result |-> result, at |-> htime]
    OBVIOUS
  <2>1. /\ get[g].phase = "checking" /\ {r[1] : r \in result} = Names
        /\ told' = IF cache = {} THEN {} ELSE (told \cap result) \cup NewAlerts(result)
        /\ silent' = IF cache = {} THEN Bad(result) ELSE silent \cap result
        /\ cache' = {c} /\ get' = [get EXCEPT ![g] = NoGet]
    BY <1>6, <2>a, <2>b DEF Conclude, Checked
  <2>2. /\ get[g].since \in Nat /\ htime <= get[g].since + MaxProbe
        /\ \A r \in result : Signed(r, get[g].since)
    BY <2>1, <2>a DEF HealthInv, ChecksInv
  <2>3. \A r \in result : Signed(r, htime - MaxProbe)
    <3>1. ASSUME NEW r \in result PROVE Signed(r, htime - MaxProbe)
      <4>1. Signed(r, get[g].since)
        BY <2>2
      <4>2. r[1] \in AskedDependencies => lastFast[r[1]] \in Nat
        BY DEF AskedDependencies, HealthInv, SignsInv
      <4>3. r[1] \in EnabledWorkers => \A b \in beat[r[1]] : b.sent \in Nat
        BY DEF HealthInv, SignsInv
      <4>4. htime - MaxProbe <= get[g].since /\ htime - MaxProbe \in Int
        BY <1>1, <2>2
      <4>5. r[2] = "ok" /\ r[1] \in AskedDependencies => htime - MaxProbe <= lastFast[r[1]]
        BY <2>2, <4>1, <4>2, <4>4 DEF Signed
      <4>6. r[2] = "ok" /\ r[1] \in EnabledWorkers =>
              \A b \in beat[r[1]] : htime - MaxProbe - StaleAge <= b.sent
        BY <2>2, <4>1, <4>3, <4>4 DEF Signed
      <4> QED BY <4>1, <4>5, <4>6 DEF Signed
    <3> QED BY <3>1
  <2>4. Bad(result) \subseteq told' \cup silent'
    <3>1. CASE cache = {}
      BY <2>1, <3>1
    <3>2. CASE cache # {}
      <4>1. \A x \in cache : Bad(x.result) \subseteq told \cup silent
        BY DEF HealthInv, AnswersInv
      <4>2. \A r \in Bad(result) : r \in NewAlerts(result) \/ \E x \in cache : r \in Bad(x.result)
        BY DEF NewAlerts, Bad
      <4>3. Bad(result) \subseteq result
        BY DEF Bad
      <4> QED BY <2>1, <3>2, <4>1, <4>2, <4>3
    <3> QED BY <3>1, <3>2
  <2>5. AnswersInv'
    <3>1. c.result = result /\ c.at = htime
      BY <2>b
    <3>2. \A r \in c.result : Signed(r, c.at - MaxProbe)'
      BY <1>2, <2>3, <3>1
    <3>3. Bad(c.result)' = Bad(c.result)
      BY DEF Bad
    <3>4. {r[1] : r \in c.result} = Names
      BY <2>1, <3>1
    <3> QED BY <1>1, <2>1, <2>4, <3>1, <3>2, <3>3, <3>4 DEF AnswersInv, Names
  <2>6. ChecksInv'
    <3>1. NoGet.phase # "checking"
      BY DEF NoGet
    <3> QED BY <1>1, <1>2, <2>1, <3>1 DEF HealthInv, ChecksInv
  <2> QED BY <1>2, <2>5, <2>6 DEF HealthInv
<1>7. ASSUME HealthPing PROVE HealthInv'
  <2>1. UNCHANGED <<get, told, silent>> /\ cache' = PingCache /\ pinged' = (pinged \/ cache = {})
    BY <1>7 DEF HealthPing
  <2>2. ChecksInv'
    BY <1>1, <1>2, <2>1 DEF HealthInv, ChecksInv
  <2>3. AnswersInv'
    <3>1. CASE cache # {}
      <4>1. cache' = cache /\ (pinged => pinged')
        BY <2>1, <3>1 DEF PingCache
      <4> QED BY <1>1, <1>2, <2>1, <4>1 DEF HealthInv, AnswersInv, Bad
    <3>2. CASE cache = {}
      <4>a. PICK c : c = [result |-> {}, at |-> htime]
        OBVIOUS
      <4>1. cache' = {c} /\ pinged' /\ c.result = {} /\ c.at = htime
        BY <2>1, <3>2, <4>a DEF PingCache
      <4> QED BY <1>1, <4>1 DEF AnswersInv, Bad
    <3> QED BY <3>1, <3>2
  <2> QED BY <1>2, <2>2, <2>3 DEF HealthInv
<1>8. ASSUME NEW g \in Gets, FailCheck(g) PROVE HealthInv'
  <2>1. get' = [get EXCEPT ![g] = NoGet] /\ UNCHANGED <<cache, pinged, told, silent>>
    BY <1>8 DEF FailCheck
  <2>2. ChecksInv'
    <3>1. NoGet.phase # "checking"
      BY DEF NoGet
    <3> QED BY <1>1, <1>2, <2>1, <3>1 DEF HealthInv, ChecksInv
  <2> QED BY <1>2, <1>3, <2>1, <2>2 DEF HealthInv
<1> QED BY <1>4, <1>5, <1>6, <1>7, <1>8

\* Whatever checks overlap and whichever ends last, an answer "ok" of GET /health is not
\* older than the delays of the code allow, and the admins know of what is bad.
THEOREM AnswersStayRecent == HealthSpec => []HealthIsRecent
<1>1. HealthInit => HealthInv
  <2> SUFFICES ASSUME HealthInit PROVE HealthInv
    OBVIOUS
  <2>1. SignsInv
    <3>1. KeyTtl \in Nat
      BY HealthConstants
    <3>a. PICK b : b = [status |-> "healthy", sent |-> 0, expires |-> KeyTtl]
      OBVIOUS
    <3>2. b.sent \in Nat /\ b.expires \in Nat /\ b.status = "healthy"
      BY <3>1, <3>a
    <3>3. beat = [w \in Workers |-> {b}]
      BY <3>a DEF HealthInit
    <3> QED BY <3>2, <3>3 DEF HealthInit, SignsInv
  <2>2. ChecksInv
    BY DEF HealthInit, ChecksInv, NoGet
  <2>3. AnswersInv
    BY DEF HealthInit, AnswersInv
  <2> QED BY <2>1, <2>2, <2>3 DEF HealthInv
<1>2. HealthInv /\ [HealthNext]_healthVars => HealthInv'
  <2>1. ASSUME HealthInv, UNCHANGED healthVars PROVE HealthInv'
    BY <2>1 DEF healthVars, HealthInv, SignsInv, ChecksInv, AnswersInv, Signed, Bad
  <2>2. ASSUME HealthInv, HealthNext PROVE HealthInv'
    BY <2>2, ServicesKeep, GetsKeep DEF HealthNext
  <2> QED BY <2>1, <2>2
<1>3. HealthInv => HealthIsRecent
  BY AnswersAreRecent
<1> QED BY <1>1, <1>2, <1>3, PTL DEF HealthSpec

-------------------------------------------------------------------------------
(* Comments and approvals. *)

CommentColumns == {"author", "content", "resolved", "note", "by", "assigned", "parent"}
CommentRow(r) == r = [c \in CommentColumns |-> r[c]]

CommentTable ==
  /\ rows = [id \in DOMAIN rows |-> rows[id]]
  /\ \A id \in DOMAIN rows : id[2] \in Nat
  /\ \A id \in Existing("comment") : CommentRow(rows[id])

ApprovedOK == approved \in Seq(SUBSET Elements) /\ Len(approved) > 0

\* The kinds that resolve a comment.
ResolvingKinds == {"comment_delete", "comment_resolve"}

CommentFields == JobFields \cup {"row", "next", "dirty", "then"}

\* The copy of a comment: a save() by a request nobody overlapped compared it with the row
\* as it still is.
CommentCopyOK(q) ==
  /\ CommentFields \subseteq DOMAIN job[q] /\ job[q].then = "audit"
  /\ job[q].phase \in {"insert", "diff", "write", "audit"}
  /\ CommentRow(job[q].next)
  /\ job[q].phase = "insert" => job[q].kind \notin ResolvingKinds
  /\ job[q].phase # "insert" /\ job[q].kind \in ResolvingKinds => job[q].next.resolved = TRUE
  /\ job[q].phase \in {"diff", "write"} => job[q].row \in Existing("comment")
  /\ job[q].phase = "write" /\ alone[q] => job[q].dirty = Differing(job[q].next, rows[job[q].row])

ApprovalOK(q) ==
  /\ JobFields \cup {"version", "targets", "next"} \subseteq DOMAIN job[q]
  /\ job[q].phase \in {"store", "audit"}
  /\ job[q].version \in DOMAIN approved
  /\ job[q].next \subseteq Elements /\ job[q].targets \subseteq job[q].next

CommentWorkOK(q) ==
  Busy(q) =>
    /\ job[q].kind \in CommentKinds => CommentCopyOK(q)
    /\ job[q].kind \in ApprovalKinds => ApprovalOK(q)

\* Whether x is going to write a copy of row id, or of version v.
Copies(x, id) ==
  job[x].kind \in CommentKinds /\ job[x].phase \in {"diff", "write"} /\ job[x].row = id
CopiesVersion(x, v) ==
  job[x].kind \in ApprovalKinds /\ job[x].phase = "store" /\ job[x].version = v

\* What a request resolved or approved on its own is in the row and in every copy of it.
ResolvedStays(q) ==
  HasWritten(q, ResolvingKinds) /\ alone[q] =>
    /\ job[q].row \in Existing("comment") /\ job[q].next.resolved = TRUE
    /\ rows[job[q].row].resolved = TRUE
    /\ \A x \in Requests \ {q} : Copies(x, job[q].row) => job[x].next.resolved = TRUE
ApprovedStays(q) ==
  HasWritten(q, ApprovalKinds) /\ alone[q] =>
    /\ job[q].version \in DOMAIN approved
    /\ job[q].targets \subseteq approved[job[q].version]
    /\ \A x \in Requests \ {q} : CopiesVersion(x, job[q].version) => job[q].targets \subseteq job[x].next

CommentInv ==
  /\ RequestInv /\ CommentTable /\ ApprovedOK
  /\ \A q \in Requests :
       /\ job[q].kind \in CommentKinds \cup ApprovalKinds \cup {"none", "new_version"}
       /\ CommentWorkOK(q) /\ ResolvedStays(q) /\ ApprovedStays(q)

\* A step of q: what it leaves of the comments and the versions, and the copies it makes.
CommentEffect(q) ==
  /\ RequestInv' /\ Steps(q) /\ CommentTable' /\ ApprovedOK'
  /\ job'[q].kind \in CommentKinds \cup ApprovalKinds \cup {"new_version"}
  /\ CommentWorkOK(q)' /\ ResolvedStays(q)' /\ ApprovedStays(q)'
  /\ \A id \in Existing("comment") :
       /\ id \in Existing("comment")'
       /\ rows[id].resolved = TRUE =>
            rows'[id].resolved = TRUE \/ (Copies(q, id) /\ job[q].next.resolved # TRUE)
       /\ Copies(q, id)' => \/ Copies(q, id) /\ job'[q].next = job[q].next
                            \/ rows[id].resolved = TRUE => job'[q].next.resolved = TRUE
  /\ \A v \in DOMAIN approved :
       /\ v \in DOMAIN approved'
       /\ approved'[v] = approved[v] \/ (CopiesVersion(q, v) /\ approved'[v] = job[q].next)
       /\ CopiesVersion(q, v)' => \/ CopiesVersion(q, v) /\ job'[q].next = job[q].next
                                  \/ approved[v] \subseteq job'[q].next

LEMMA CommentStep ==
  ASSUME CommentInv, NEW q \in Requests, CommentEffect(q)
  PROVE  CommentInv'
<1>1. ASSUME NEW x \in Requests \ {q}
      PROVE  /\ job'[x].kind \in CommentKinds \cup ApprovalKinds \cup {"none", "new_version"}
             /\ CommentWorkOK(x)' /\ ResolvedStays(x)' /\ ApprovedStays(x)'
  <2>1. /\ job'[x] = job[x] /\ (Busy(x) => ~alone'[x]) /\ (Busy(x)' <=> Busy(x))
        /\ job[x].kind # "none" /\ ~alone[x] => ~alone'[x]
    BY DEF CommentEffect, Steps, OthersStay, Busy
  <2>2. \A y \in Requests \ {q} : job'[y] = job[y]
    BY DEF CommentEffect, Steps, OthersStay
  <2>3. CommentWorkOK(x) /\ ResolvedStays(x) /\ ApprovedStays(x)
        /\ job[x].kind \in CommentKinds \cup ApprovalKinds \cup {"none", "new_version"}
    BY DEF CommentInv
  <2>4. CommentWorkOK(x)'
    <3> SUFFICES ASSUME Busy(x) PROVE CommentWorkOK(x)'
      BY <2>1 DEF CommentWorkOK
    <3>1. \A id \in Existing("comment") : id \in Existing("comment")'
      BY DEF CommentEffect
    <3>2. \A v \in DOMAIN approved : v \in DOMAIN approved'
      BY DEF CommentEffect
    <3>3. job[x].kind \in CommentKinds => CommentCopyOK(x)'
      BY <2>1, <2>3, <3>1 DEF CommentWorkOK, CommentCopyOK
    <3>4. job[x].kind \in ApprovalKinds => ApprovalOK(x)'
      BY <2>1, <2>3, <3>2 DEF CommentWorkOK, ApprovalOK
    <3> QED BY <2>1, <3>3, <3>4 DEF CommentWorkOK
  <2>5. ResolvedStays(x)'
    <3> SUFFICES ASSUME HasWritten(x, ResolvingKinds)', alone'[x] PROVE ResolvedStays(x)'
      BY DEF ResolvedStays
    <3>1. HasWritten(x, ResolvingKinds) /\ alone[x]
      BY <2>1 DEF HasWritten, ResolvingKinds
    <3>2. PICK id : id = job[x].row
      OBVIOUS
    <3>3. /\ id \in Existing("comment") /\ job[x].next.resolved = TRUE
          /\ rows[id].resolved = TRUE
          /\ \A y \in Requests \ {x} : Copies(y, id) => job[y].next.resolved = TRUE
      BY <2>3, <3>1, <3>2 DEF ResolvedStays
    <3>4. id \in Existing("comment")' /\ rows'[id].resolved = TRUE
      BY <3>3 DEF CommentEffect
    <3>5. Copies(q, id)' => job'[q].next.resolved = TRUE
      BY <3>3 DEF CommentEffect
    <3>6. \A y \in Requests \ {x, q} : Copies(y, id)' => job'[y].next.resolved = TRUE
      BY <2>2, <3>3 DEF Copies
    <3>7. \A y \in Requests \ {x} : Copies(y, id)' => job'[y].next.resolved = TRUE
      BY <3>5, <3>6
    <3> QED BY <2>1, <3>2, <3>3, <3>4, <3>7 DEF ResolvedStays
  <2>6. ApprovedStays(x)'
    <3> SUFFICES ASSUME HasWritten(x, ApprovalKinds)', alone'[x] PROVE ApprovedStays(x)'
      BY DEF ApprovedStays
    <3>1. HasWritten(x, ApprovalKinds) /\ alone[x]
      BY <2>1 DEF HasWritten, ApprovalKinds
    <3>2. PICK v, targets : v = job[x].version /\ targets = job[x].targets
      OBVIOUS
    <3>3. /\ v \in DOMAIN approved /\ targets \subseteq approved[v]
          /\ \A y \in Requests \ {x} : CopiesVersion(y, v) => targets \subseteq job[y].next
      BY <2>3, <3>1, <3>2 DEF ApprovedStays
    <3>4. v \in DOMAIN approved' /\ targets \subseteq approved'[v]
      BY <3>3 DEF CommentEffect
    <3>5. CopiesVersion(q, v)' => targets \subseteq job'[q].next
      BY <3>3 DEF CommentEffect
    <3>6. \A y \in Requests \ {x, q} : CopiesVersion(y, v)' => targets \subseteq job'[y].next
      BY <2>2, <3>3 DEF CopiesVersion
    <3>7. \A y \in Requests \ {x} : CopiesVersion(y, v)' => targets \subseteq job'[y].next
      BY <3>5, <3>6
    <3> QED BY <2>1, <3>2, <3>4, <3>7 DEF ApprovedStays
  <2> QED BY <2>1, <2>3, <2>4, <2>5, <2>6
<1> QED BY <1>1 DEF CommentInv, CommentEffect

-------------------------------------------------------------------------------
(* The first statements of a request: nothing is written. *)

LEMMA NoCommentMoves ==
  ASSUME CommentInv, UNCHANGED <<rows, approved>>
  PROVE  /\ CommentTable' /\ ApprovedOK' /\ Existing("comment")' = Existing("comment")
BY DEF CommentInv, CommentTable, ApprovedOK, Existing, Ids, Has

LEMMA CommentAnswered ==
  ASSUME CommentInv, NEW q \in Requests, UNCHANGED <<rows, approved>>,
         NEW kind \in CommentKinds \cup ApprovalKinds \cup {"new_version"}, NEW outcome \in Outcomes,
         outcome = "ok" => kind = "new_version",
         Begins(q, Answered(kind, outcome))
  PROVE  CommentEffect(q)
<1>1. Answered(kind, outcome).kind = kind /\ Answered(kind, outcome).phase = outcome
  BY DEF Answered, NoJob
<1>2. RequestInv' /\ Steps(q) /\ job'[q] = Answered(kind, outcome)
  BY AnsweredFields, BeginsMeans DEF CommentInv
<1>3. job'[q].kind = kind /\ job'[q].phase = outcome /\ job'[q].phase \in Outcomes
  BY <1>1, <1>2
<1>4. ~Busy(q)'
  BY <1>3 DEF Busy
<1>5. CommentWorkOK(q)' /\ \A id : ~Copies(q, id)' /\ ~CopiesVersion(q, id)'
  BY <1>3, <1>4 DEF CommentWorkOK, Copies, CopiesVersion, Outcomes
<1>6. ResolvedStays(q)' /\ ApprovedStays(q)'
  BY <1>3 DEF ResolvedStays, ApprovedStays, HasWritten, Outcomes, ResolvingKinds, ApprovalKinds
<1> QED BY <1>2, <1>3, <1>5, <1>6, NoCommentMoves DEF CommentEffect

\* A request begins with a copy of a comment, of an old one or of a new one.
LEMMA CommentCopied ==
  ASSUME CommentInv, NEW q \in Requests, UNCHANGED <<rows, approved>>, NEW j,
         CommentFields \subseteq DOMAIN j, j.kind \in CommentKinds, j.then = "audit",
         CommentRow(j.next),
         \/ j.phase = "insert" /\ j.kind \notin ResolvingKinds
         \/ /\ j.phase = "diff" /\ j.row \in Existing("comment")
            /\ j.kind \in ResolvingKinds => j.next.resolved = TRUE
            /\ rows[j.row].resolved = TRUE => j.next.resolved = TRUE,
         Begins(q, j)
  PROVE  CommentEffect(q)
<1>1. RequestInv' /\ Steps(q) /\ job'[q] = j
  BY BeginsMeans DEF CommentInv, CommentFields
<1>2. Existing("comment")' = Existing("comment") /\ j.kind \notin ApprovalKinds
  BY NoCommentMoves DEF CommentKinds, ApprovalKinds
<1>3. CommentCopyOK(q)'
  BY <1>1, <1>2 DEF CommentCopyOK
<1>4. CommentWorkOK(q)'
  BY <1>1, <1>2, <1>3 DEF CommentWorkOK
<1>5. ResolvedStays(q)' /\ ApprovedStays(q)' /\ \A v : ~CopiesVersion(q, v)'
  BY <1>1, <1>2 DEF ResolvedStays, ApprovedStays, HasWritten, CopiesVersion
<1>6. \A id : Copies(q, id)' /\ rows[id].resolved = TRUE => job'[q].next.resolved = TRUE
  BY <1>1 DEF Copies
<1> QED BY <1>1, <1>2, <1>4, <1>5, <1>6, NoCommentMoves DEF CommentEffect

LEMMA NewCommentIsRow ==
  ASSUME NEW author, NEW text, NEW parent
  PROVE  CommentRow(NewComment(author, text, parent))
BY DEF NewComment, CommentRow, CommentColumns

LEMMA CommentInserted ==
  ASSUME CommentInv, NEW q \in Requests, UNCHANGED <<rows, approved>>,
         NEW kind \in {"comment_create", "comment_reply"}, NEW next, CommentRow(next),
         Begins(q, Insertion(kind, next))
  PROVE  CommentEffect(q)
<1> DEFINE j == Insertion(kind, next)
<1>1. CommentFields \subseteq DOMAIN j /\ j.kind = kind /\ j.then = "audit" /\ j.next = next
      /\ j.phase = "insert"
  BY DEF Insertion, CommentFields, JobFields
<1>2. kind \in CommentKinds /\ kind \notin ResolvingKinds
  BY DEF CommentKinds, ResolvingKinds
<1>3. Begins(q, j)
  OBVIOUS
<1> HIDE DEF j
<1> QED BY <1>1, <1>2, <1>3, CommentCopied

LEMMA CommentEdited ==
  ASSUME CommentInv, NEW q \in Requests, NEW id \in Existing("comment"), NEW allowed, NEW next,
         NEW kind \in {"comment_update", "comment_delete", "comment_resolve", "comment_assign"},
         CommentRow(next), kind \in ResolvingKinds => next.resolved = TRUE,
         rows[id].resolved = TRUE => next.resolved = TRUE,
         EditComment(q, kind, id, allowed, next)
  PROVE  CommentEffect(q)
<1> DEFINE j == Copy(kind, NoProcess, id, next, "audit")
<1>1. CommentFields \subseteq DOMAIN j /\ j.kind = kind /\ j.then = "audit" /\ j.next = next
      /\ j.phase = "diff" /\ j.row = id
  BY DEF Copy, CommentFields, JobFields
<1>2. kind \in CommentKinds
  BY DEF CommentKinds
<1>3. UNCHANGED <<rows, approved>> /\ (Begins(q, j) \/ Begins(q, Answered(kind, "refused")))
  BY DEF EditComment, Edits
<1>4. CASE Begins(q, Answered(kind, "refused"))
  BY <1>2, <1>3, <1>4, CommentAnswered DEF Outcomes
<1>5. CASE Begins(q, j)
  <2> HIDE DEF j
  <2> QED BY <1>1, <1>2, <1>3, <1>5, CommentCopied
<1> QED BY <1>3, <1>4, <1>5

LEMMA EditedColumns ==
  ASSUME NEW r, CommentRow(r), NEW x, NEW y
  PROVE  /\ LET w == [r EXCEPT !.content = x] IN CommentRow(w) /\ w.resolved = r.resolved
         /\ LET w == [r EXCEPT !.assigned = x] IN CommentRow(w) /\ w.resolved = r.resolved
         /\ LET w == [r EXCEPT !.resolved = TRUE, !.note = x, !.by = y]
            IN CommentRow(w) /\ w.resolved = TRUE
<1>1. r = [c \in CommentColumns |-> r[c]]
  BY DEF CommentRow
<1>2. LET w == [r EXCEPT !.content = x] IN CommentRow(w) /\ w.resolved = r.resolved
  BY <1>1 DEF CommentRow, CommentColumns
<1>3. LET w == [r EXCEPT !.assigned = x] IN CommentRow(w) /\ w.resolved = r.resolved
  BY <1>1 DEF CommentRow, CommentColumns
<1>4. LET w == [r EXCEPT !.resolved = TRUE, !.note = x, !.by = y]
      IN CommentRow(w) /\ w.resolved = TRUE
  BY <1>1 DEF CommentRow, CommentColumns
<1> QED BY <1>2, <1>3, <1>4

LEMMA NewCommentStep ==
  ASSUME CommentInv, NEW q \in Requests, CreateComment(q) \/ CreateReply(q)
  PROVE  CommentEffect(q)
<1>1. UNCHANGED <<rows, approved>>
  BY DEF CreateComment, CreateReply
<1>2. \E kind \in {"comment_create", "comment_reply"} : \E author, text, parent :
        \/ Begins(q, Insertion(kind, NewComment(author, text, parent)))
        \/ Begins(q, Answered(kind, "refused"))
  BY DEF CreateComment, CreateReply
<1>3. PICK kind \in {"comment_create", "comment_reply"} : \E author, text, parent :
        \/ Begins(q, Insertion(kind, NewComment(author, text, parent)))
        \/ Begins(q, Answered(kind, "refused"))
  BY <1>2
<1>4. kind \in CommentKinds /\ "refused" \in Outcomes
  BY DEF CommentKinds, Outcomes
<1>5. CASE Begins(q, Answered(kind, "refused"))
  BY <1>1, <1>4, <1>5, CommentAnswered
<1>6. CASE \E author, text, parent : Begins(q, Insertion(kind, NewComment(author, text, parent)))
  <2>1. PICK author, text, parent : Begins(q, Insertion(kind, NewComment(author, text, parent)))
    BY <1>6
  <2>2. PICK next : next = NewComment(author, text, parent)
    OBVIOUS
  <2>3. CommentRow(next) /\ Begins(q, Insertion(kind, next))
    BY <2>1, <2>2, NewCommentIsRow
  <2> QED BY <1>1, <2>3, CommentInserted
<1> QED BY <1>3, <1>5, <1>6

LEMMA EditCommentStep ==
  ASSUME CommentInv, NEW q \in Requests,
         UpdateComment(q) \/ DeleteComment(q) \/ ResolveComment(q) \/ AssignComment(q)
  PROVE  CommentEffect(q)
<1>1. \A id \in Existing("comment") : CommentRow(rows[id])
  BY DEF CommentInv, CommentTable
<1>2. CASE UpdateComment(q)
  <2>0. PICK id \in Existing("comment") : \E t, allowed :
          EditComment(q, "comment_update", id, allowed, [rows[id] EXCEPT !.content = t])
    BY <1>2 DEF UpdateComment
  <2>1. PICK t, allowed : EditComment(q, "comment_update", id, allowed, [rows[id] EXCEPT !.content = t])
    BY <2>0
  <2>2. PICK next : next = [rows[id] EXCEPT !.content = t]
    OBVIOUS
  <2>3. CommentRow(next) /\ next.resolved = rows[id].resolved
    BY <1>1, <2>2, EditedColumns
  <2>4. EditComment(q, "comment_update", id, allowed, next)
    BY <2>1, <2>2
  <2> QED BY <2>3, <2>4, CommentEdited DEF ResolvingKinds
<1>3. CASE AssignComment(q)
  <2>0. PICK id \in Existing("comment") : \E t, allowed :
          EditComment(q, "comment_assign", id, allowed, [rows[id] EXCEPT !.assigned = t])
    BY <1>3 DEF AssignComment
  <2>1. PICK t, allowed : EditComment(q, "comment_assign", id, allowed, [rows[id] EXCEPT !.assigned = t])
    BY <2>0
  <2>2. PICK next : next = [rows[id] EXCEPT !.assigned = t]
    OBVIOUS
  <2>3. CommentRow(next) /\ next.resolved = rows[id].resolved
    BY <1>1, <2>2, EditedColumns
  <2>4. EditComment(q, "comment_assign", id, allowed, next)
    BY <2>1, <2>2
  <2> QED BY <2>3, <2>4, CommentEdited DEF ResolvingKinds
<1>4. CASE DeleteComment(q) \/ ResolveComment(q)
  <2>0. PICK kind \in ResolvingKinds, id \in Existing("comment") : \E note, by, allowed :
          EditComment(q, kind, id, allowed, [rows[id] EXCEPT !.resolved = TRUE, !.note = note, !.by = by])
    BY <1>4 DEF DeleteComment, ResolveComment, ResolvingKinds
  <2>1. PICK note, by, allowed :
          EditComment(q, kind, id, allowed, [rows[id] EXCEPT !.resolved = TRUE, !.note = note, !.by = by])
    BY <2>0
  <2>2. PICK next : next = [rows[id] EXCEPT !.resolved = TRUE, !.note = note, !.by = by]
    OBVIOUS
  <2>3. CommentRow(next) /\ next.resolved = TRUE
    BY <1>1, <2>2, EditedColumns
  <2>4. EditComment(q, kind, id, allowed, next)
    BY <2>1, <2>2
  <2> QED BY <2>3, <2>4, CommentEdited DEF ResolvingKinds
<1> QED BY <1>2, <1>3, <1>4

LEMMA InjectToAiStep ==
  ASSUME CommentInv, NEW q \in Requests, InjectToAi(q)
  PROVE  CommentEffect(q)
<1>1. UNCHANGED <<rows, approved>>
  BY DEF InjectToAi
<1>2. PICK outcome \in {"failed", "refused"} : Begins(q, Answered("comment_inject", outcome))
  BY DEF InjectToAi
<1>3. "comment_inject" \in CommentKinds /\ outcome \in Outcomes /\ outcome # "ok"
  BY DEF CommentKinds, Outcomes
<1> QED BY <1>1, <1>2, <1>3, CommentAnswered

LEMMA ApproveStep ==
  ASSUME CommentInv, NEW q \in Requests, ApproveElement(q) \/ BulkApproveElements(q)
  PROVE  CommentEffect(q)
<1>1. UNCHANGED <<rows, approved>>
  BY DEF ApproveElement, BulkApproveElements
<1>2. PICK kind \in ApprovalKinds, targets \in SUBSET Elements :
        Begins(q, Approval(kind, targets)) \/ Begins(q, Answered(kind, "refused"))
  BY DEF ApproveElement, BulkApproveElements, ApprovalKinds
<1>3. CASE Begins(q, Answered(kind, "refused"))
  BY <1>1, <1>3, CommentAnswered DEF Outcomes
<1>4. CASE Begins(q, Approval(kind, targets))
  <2> DEFINE j == Approval(kind, targets)
             v == Len(approved)
  <2>1. /\ JobFields \cup {"version", "targets", "next"} \subseteq DOMAIN j /\ j.kind = kind
        /\ j.phase = "store" /\ j.version = v /\ j.targets = targets
        /\ j.next = approved[v] \cup targets
    BY DEF Approval, JobFields
  <2>2. Begins(q, j)
    BY <1>4
  <2> HIDE DEF j
  <2>3. RequestInv' /\ Steps(q) /\ job'[q] = j
    BY <2>1, <2>2, BeginsMeans DEF CommentInv
  <2>4. v \in DOMAIN approved /\ approved[v] \subseteq Elements
    BY DEF CommentInv, ApprovedOK
  <2>5. kind \notin CommentKinds
    BY DEF CommentKinds, ApprovalKinds
  <2>6. ApprovalOK(q)'
    BY <1>1, <2>1, <2>3, <2>4 DEF ApprovalOK
  <2>7. CommentWorkOK(q)' /\ \A id : ~Copies(q, id)'
    BY <2>1, <2>3, <2>5, <2>6 DEF CommentWorkOK, Copies
  <2>8. ResolvedStays(q)' /\ ApprovedStays(q)'
    BY <2>1, <2>3 DEF ResolvedStays, ApprovedStays, HasWritten
  <2>9. \A x : CopiesVersion(q, x)' => approved[x] \subseteq job'[q].next
    BY <2>1, <2>3 DEF CopiesVersion
  <2> QED BY <1>1, <2>1, <2>3, <2>7, <2>8, <2>9, NoCommentMoves DEF CommentEffect
<1> QED BY <1>2, <1>3, <1>4

LEMMA NewVersionStep ==
  ASSUME CommentInv, NEW q \in Requests, NewVersion(q)
  PROVE  CommentEffect(q)
<1>1. Begins(q, Answered("new_version", "ok")) /\ UNCHANGED rows
  BY DEF NewVersion
<1>2. PICK flags \in {{}, approved[Len(approved)]} : approved' = Append(approved, flags)
  BY DEF NewVersion
<1>3. flags \in SUBSET Elements /\ approved \in Seq(SUBSET Elements)
  BY DEF CommentInv, ApprovedOK
<1>4. ApprovedOK' /\ \A v \in DOMAIN approved : v \in DOMAIN approved' /\ approved'[v] = approved[v]
  BY <1>2, <1>3 DEF ApprovedOK
<1>5. CommentTable' /\ Existing("comment")' = Existing("comment")
  BY <1>1 DEF CommentInv, CommentTable, Existing, Ids, Has
<1>6. Answered("new_version", "ok").kind = "new_version" /\ Answered("new_version", "ok").phase = "ok"
  BY DEF Answered, NoJob
<1>7. RequestInv' /\ Steps(q) /\ job'[q] = Answered("new_version", "ok")
  BY <1>1, AnsweredFields, BeginsMeans DEF CommentInv
<1>8. job'[q].kind = "new_version" /\ job'[q].phase = "ok"
  BY <1>6, <1>7
<1>9. CommentWorkOK(q)' /\ ResolvedStays(q)' /\ ApprovedStays(q)'
  BY <1>8 DEF CommentWorkOK, Busy, Outcomes, ResolvedStays, ApprovedStays, HasWritten,
              ResolvingKinds, ApprovalKinds
<1>10. \A v : ~Copies(q, v)' /\ ~CopiesVersion(q, v)'
  BY <1>8 DEF Copies, CopiesVersion
<1> QED BY <1>1, <1>4, <1>5, <1>7, <1>8, <1>9, <1>10 DEF CommentEffect

-------------------------------------------------------------------------------
(* The later statements. *)

LEMMA CommentRowsAreRows ==
  ASSUME NEW r, CommentRow(r)
  PROVE  r # NoRow /\ DOMAIN r = CommentColumns
<1>1. DOMAIN NoRow = {"status"}
  BY DEF NoRow
<1>2. DOMAIN r = CommentColumns /\ "note" \in CommentColumns
  BY DEF CommentRow, CommentColumns
<1> QED BY <1>1, <1>2

LEMMA OneCommentMoves ==
  ASSUME CommentInv, NEW u \in DOMAIN rows, NEW r, CommentRow(r), rows' = [rows EXCEPT ![u] = r]
  PROVE  /\ CommentTable' /\ \A id \in Existing("comment") : id \in Existing("comment")'
         /\ rows'[u] = r /\ \A id \in DOMAIN rows \ {u} : rows'[id] = rows[id]
<1>1. rows = [id \in DOMAIN rows |-> rows[id]]
  BY DEF CommentInv, CommentTable
<1>2. DOMAIN rows' = DOMAIN rows /\ rows'[u] = r /\ \A id \in DOMAIN rows \ {u} : rows'[id] = rows[id]
  BY <1>1
<1>3. rows' = [id \in DOMAIN rows' |-> rows'[id]]
  BY <1>1
<1>4. r # NoRow
  BY CommentRowsAreRows
<1>5. \A id \in Existing("comment") : id \in Existing("comment")'
  BY <1>2, <1>4 DEF Existing, Ids, Has
<1>6. \A id \in Existing("comment")' : id = u \/ id \in Existing("comment")
  BY <1>2 DEF Existing, Ids, Has
<1>7. \A id \in Existing("comment")' : CommentRow(rows'[id])
  BY <1>2, <1>6 DEF CommentInv, CommentTable, Existing, Ids
<1> QED BY <1>2, <1>3, <1>5, <1>7 DEF CommentInv, CommentTable

LEMMA InsertComment ==
  ASSUME CommentInv, NEW q \in Requests, InsertRow(q, CommentKinds, "comment"), UNCHANGED approved
  PROVE  CommentEffect(q)
<1> DEFINE u == FirstFree("comment")
           j == [job[q] EXCEPT !.phase = job[q].then, !.row = u]
<1>1. /\ job[q].kind \in CommentKinds /\ job[q].phase = "insert" /\ Busy(q)
      /\ Free("comment") # {} /\ UNCHANGED alone
      /\ rows' = [rows EXCEPT ![u] = job[q].next]
      /\ job' = [job EXCEPT ![q].phase = job[q].then, ![q].row = u]
  BY DEF InsertRow, At, Busy, Outcomes
<1>2. u \in DOMAIN rows /\ rows[u] = NoRow
  <2>1. \A id \in DOMAIN rows : id[2] \in Nat
    BY DEF CommentInv, CommentTable
  <2> QED BY <1>1, <2>1, FirstFreeIsFree
<1>3. /\ CommentFields \subseteq DOMAIN job[q] /\ job[q].then = "audit" /\ CommentRow(job[q].next)
      /\ job[q].kind \notin ResolvingKinds
  BY <1>1 DEF CommentInv, CommentWorkOK, CommentCopyOK
<1> HIDE DEF u
<1>4. job' = [job EXCEPT ![q] = j]
  BY <1>1, <1>3 DEF CommentInv, RequestInv, CommentFields, JobFields
<1>5. /\ CommentFields \subseteq DOMAIN j /\ j.kind = job[q].kind /\ j.phase = "audit"
      /\ j.next = job[q].next /\ j.then = "audit"
  BY <1>3 DEF CommentFields, JobFields
<1> HIDE DEF j
<1>6. RequestInv' /\ Steps(q) /\ job'[q] = j
  BY <1>1, <1>4, <1>5, JobBecomes DEF CommentInv, CommentFields
<1>7. /\ CommentTable' /\ \A id \in Existing("comment") : id \in Existing("comment")'
      /\ rows'[u] = job[q].next /\ \A id \in DOMAIN rows \ {u} : rows'[id] = rows[id]
  BY <1>1, <1>2, <1>3, OneCommentMoves
<1>8. \A id \in Existing("comment") : rows'[id] = rows[id]
  BY <1>2, <1>7 DEF Existing, Ids, Has
<1>9. job[q].kind \notin ApprovalKinds
  BY <1>1 DEF CommentKinds, ApprovalKinds
<1>10. CommentWorkOK(q)' /\ ResolvedStays(q)' /\ ApprovedStays(q)'
  BY <1>1, <1>3, <1>5, <1>6, <1>9 DEF CommentWorkOK, CommentCopyOK, ResolvedStays, ApprovedStays, HasWritten
<1>11. ApprovedOK' /\ \A v : ~Copies(q, v)' /\ ~CopiesVersion(q, v)'
  BY <1>5, <1>6 DEF CommentInv, ApprovedOK, Copies, CopiesVersion
<1> QED BY <1>1, <1>5, <1>6, <1>7, <1>8, <1>10, <1>11 DEF CommentEffect

LEMMA DiffComment ==
  ASSUME CommentInv, NEW q \in Requests, DiffRow(q, CommentKinds), UNCHANGED approved
  PROVE  CommentEffect(q)
<1> DEFINE dirty == Differing(job[q].next, rows[job[q].row])
           j == [job[q] EXCEPT !.phase = "write", !.dirty = dirty]
<1>1. /\ job[q].kind \in CommentKinds /\ job[q].phase = "diff" /\ Busy(q)
      /\ UNCHANGED <<alone, rows>>
      /\ job' = [job EXCEPT ![q].phase = "write", ![q].dirty = dirty]
  BY DEF DiffRow, At, Busy, Outcomes
<1> HIDE DEF dirty
<1>2. CommentCopyOK(q) /\ CommentFields \subseteq DOMAIN job[q]
  BY <1>1 DEF CommentInv, CommentWorkOK, CommentCopyOK
<1>3. job' = [job EXCEPT ![q] = j]
  BY <1>1, <1>2 DEF CommentInv, RequestInv, CommentFields, JobFields
<1>4. /\ CommentFields \subseteq DOMAIN j /\ j.kind = job[q].kind /\ j.phase = "write"
      /\ j.dirty = dirty /\ j.row = job[q].row /\ j.next = job[q].next /\ j.then = job[q].then
  BY <1>2 DEF CommentFields, JobFields
<1> HIDE DEF j
<1>5. RequestInv' /\ Steps(q) /\ job'[q] = j
  BY <1>1, <1>3, <1>4, JobBecomes DEF CommentInv, CommentFields
<1>6. /\ CommentTable' /\ ApprovedOK' /\ Existing("comment")' = Existing("comment")
  BY <1>1, NoCommentMoves
<1>7. CommentCopyOK(q)'
  BY <1>1, <1>2, <1>4, <1>5, <1>6 DEF CommentCopyOK, dirty
<1>8. job[q].kind \notin ApprovalKinds
  BY <1>1 DEF CommentKinds, ApprovalKinds
<1>9. CommentWorkOK(q)' /\ ResolvedStays(q)' /\ ApprovedStays(q)' /\ \A v : ~CopiesVersion(q, v)'
  BY <1>4, <1>5, <1>7, <1>8
     DEF CommentWorkOK, ResolvedStays, ApprovedStays, HasWritten, CopiesVersion
<1>10. \A id : Copies(q, id)' => Copies(q, id) /\ job'[q].next = job[q].next
  BY <1>1, <1>4, <1>5 DEF Copies
<1> QED BY <1>1, <1>4, <1>5, <1>6, <1>9, <1>10 DEF CommentEffect

\* An UPDATE leaves a row resolved unless its copy says otherwise.
LEMMA WrittenComment ==
  ASSUME NEW r, NEW next, CommentRow(r), CommentRow(next), NEW dirty
  PROVE  /\ CommentRow(Written(r, next, dirty))
         /\ Written(r, next, dirty).resolved \in {r.resolved, next.resolved}
         /\ dirty = Differing(next, r) => Written(r, next, dirty).resolved = next.resolved
<1> DEFINE w == Written(r, next, dirty)
<1>1. DOMAIN r = CommentColumns /\ "resolved" \in CommentColumns
  BY CommentRowsAreRows DEF CommentColumns
<1>2. w = [c \in CommentColumns |-> IF c \in dirty THEN next[c] ELSE r[c]]
  BY <1>1 DEF Written
<1>3. w.resolved = IF "resolved" \in dirty THEN next.resolved ELSE r.resolved
  BY <1>1, <1>2
<1>4. w = [c \in CommentColumns |-> w[c]]
  BY <1>2
<1>5. dirty = Differing(next, r) => ("resolved" \in dirty <=> next.resolved # r.resolved)
  BY <1>1 DEF Differing
<1> HIDE DEF w
<1>6. CommentRow(w)
  BY <1>4 DEF CommentRow
<1>7. dirty = Differing(next, r) => w.resolved = next.resolved
  BY <1>3, <1>5
<1>8. w.resolved \in {r.resolved, next.resolved}
  BY <1>3
<1> QED BY <1>6, <1>7, <1>8 DEF w

LEMMA WriteComment ==
  ASSUME CommentInv, NEW q \in Requests, WriteRow(q, CommentKinds), UNCHANGED approved
  PROVE  CommentEffect(q)
<1> DEFINE u == job[q].row
           w == Written(rows[u], job[q].next, job[q].dirty)
<1>1. /\ job[q].kind \in CommentKinds /\ job[q].phase = "write" /\ Busy(q)
      /\ rows' = [rows EXCEPT ![u] = w] /\ Goes(q, job[q].then)
  BY DEF WriteRow, At, Busy, Outcomes
<1>2. /\ CommentCopyOK(q) /\ CommentFields \subseteq DOMAIN job[q] /\ job[q].then = "audit"
      /\ CommentRow(job[q].next) /\ u \in Existing("comment")
      /\ alone[q] => job[q].dirty = Differing(job[q].next, rows[u])
  BY <1>1 DEF CommentInv, CommentWorkOK, CommentCopyOK
<1>3. CommentRow(rows[u]) /\ u \in DOMAIN rows
  BY <1>2 DEF CommentInv, CommentTable, Existing, Ids
<1>4. /\ CommentRow(w)
      /\ rows[u].resolved = TRUE /\ job[q].next.resolved = TRUE => w.resolved = TRUE
      /\ alone[q] => w.resolved = job[q].next.resolved
  <2>1. PICK r, next, dirty : r = rows[u] /\ next = job[q].next /\ dirty = job[q].dirty
    OBVIOUS
  <2>2. CommentRow(r) /\ CommentRow(next) /\ w = Written(r, next, dirty)
    BY <1>2, <1>3, <2>1
  <2>3. alone[q] => dirty = Differing(next, r)
    BY <1>2, <2>1
  <2>4. CommentRow(Written(r, next, dirty))
    BY <2>2, WrittenComment
  <2>5. Written(r, next, dirty).resolved \in {r.resolved, next.resolved}
    BY <2>2, WrittenComment
  <2>6. dirty = Differing(next, r) => Written(r, next, dirty).resolved = next.resolved
    BY <2>2, WrittenComment
  <2> HIDE DEF u, w
  <2> QED BY <2>1, <2>2, <2>3, <2>4, <2>5, <2>6
<1> HIDE DEF w
<1>5. Proceeds(q) /\ job'[q] = [job[q] EXCEPT !.phase = "audit"]
  BY <1>1, <1>2, GoesMeans DEF CommentInv
<1>6. /\ CommentFields \subseteq DOMAIN job'[q] /\ job'[q].kind = job[q].kind
      /\ job'[q].phase = "audit" /\ job'[q].row = u /\ job'[q].next = job[q].next
      /\ job'[q].then = "audit"
  BY <1>2, <1>5 DEF CommentFields, JobFields
<1>7. RequestInv' /\ Steps(q)
  BY <1>5, <1>6, ProceedsMeans DEF CommentInv
<1>8. /\ CommentTable' /\ \A id \in Existing("comment") : id \in Existing("comment")'
      /\ rows'[u] = w /\ \A id \in DOMAIN rows \ {u} : rows'[id] = rows[id]
  <2> HIDE DEF u
  <2> QED BY <1>1, <1>3, <1>4, OneCommentMoves
<1>9. CommentWorkOK(q)'
  <2>1. job[q].kind \notin ApprovalKinds
    BY <1>1 DEF CommentKinds, ApprovalKinds
  <2>2. job[q].kind \in ResolvingKinds => job[q].next.resolved = TRUE
    BY <1>1, <1>2 DEF CommentCopyOK
  <2> QED BY <1>1, <1>2, <1>6, <2>1, <2>2 DEF CommentWorkOK, CommentCopyOK
<1>10. ResolvedStays(q)'
  <2> SUFFICES ASSUME job[q].kind \in ResolvingKinds, alone[q] PROVE ResolvedStays(q)'
    BY <1>5, <1>6 DEF ResolvedStays, HasWritten, Proceeds
  <2>1. job[q].next.resolved = TRUE
    BY <1>1, <1>2 DEF CommentCopyOK
  <2>2. \A x \in Requests \ {q} : ~Busy(x)
    BY <1>1 DEF CommentInv, RequestInv, Solitude
  <2>3. \A x \in Requests \ {q} : job'[x].phase \notin {"diff", "write"}
    BY <2>2, <1>5 DEF Busy, Outcomes, Proceeds, OthersStay
  <2>4. rows'[u].resolved = TRUE /\ u \in Existing("comment")'
    BY <1>2, <1>4, <1>8, <2>1
  <2> QED BY <1>6, <2>1, <2>3, <2>4 DEF ResolvedStays, Copies
<1>11. ApprovedStays(q)' /\ \A v : ~Copies(q, v)' /\ ~CopiesVersion(q, v)'
  BY <1>1, <1>6 DEF ApprovedStays, HasWritten, CommentKinds, ApprovalKinds, Copies, CopiesVersion
<1>12. \A id \in Existing("comment") : rows[id].resolved = TRUE =>
         rows'[id].resolved = TRUE \/ (Copies(q, id) /\ job[q].next.resolved # TRUE)
  <2> TAKE id \in Existing("comment")
  <2>1. CASE id = u
    BY <1>1, <1>4, <1>8, <2>1 DEF Copies
  <2>2. CASE id # u
    BY <1>8, <2>2 DEF Existing, Ids
  <2> QED BY <2>1, <2>2
<1>13. ApprovedOK'
  BY DEF CommentInv, ApprovedOK
<1> QED BY <1>1, <1>6, <1>7, <1>8, <1>9, <1>10, <1>11, <1>12, <1>13 DEF CommentEffect

LEMMA StoreApprovalStep ==
  ASSUME CommentInv, NEW q \in Requests, StoreApproval(q)
  PROVE  CommentEffect(q)
<1> DEFINE v == job[q].version
           next == job[q].next
<1>1. /\ job[q].kind \in ApprovalKinds /\ job[q].phase = "store" /\ Busy(q)
      /\ approved' = [approved EXCEPT ![v] = next] /\ Goes(q, "audit") /\ UNCHANGED rows
  BY DEF StoreApproval, At, Busy, Outcomes
<1>2. /\ JobFields \cup {"version", "targets", "next"} \subseteq DOMAIN job[q]
      /\ v \in DOMAIN approved /\ next \subseteq Elements /\ job[q].targets \subseteq next
  BY <1>1 DEF CommentInv, CommentWorkOK, ApprovalOK
<1>3. Proceeds(q) /\ job'[q] = [job[q] EXCEPT !.phase = "audit"]
  BY <1>1, GoesMeans DEF CommentInv
<1>4. /\ JobFields \cup {"version", "targets", "next"} \subseteq DOMAIN job'[q]
      /\ job'[q].kind = job[q].kind /\ job'[q].phase = "audit" /\ job'[q].version = v
      /\ job'[q].next = next /\ job'[q].targets = job[q].targets
  BY <1>2, <1>3 DEF JobFields
<1>5. RequestInv' /\ Steps(q)
  BY <1>3, <1>4, ProceedsMeans DEF CommentInv
<1>6. /\ ApprovedOK' /\ DOMAIN approved' = DOMAIN approved
      /\ approved'[v] = next /\ \A x \in DOMAIN approved \ {v} : approved'[x] = approved[x]
  <2>1. approved \in Seq(SUBSET Elements) /\ Len(approved) > 0
    BY DEF CommentInv, ApprovedOK
  <2> HIDE DEF v, next
  <2> QED BY <1>1, <1>2, <2>1 DEF ApprovedOK
<1>7. CommentTable' /\ Existing("comment")' = Existing("comment")
  BY <1>1 DEF CommentInv, CommentTable, Existing, Ids, Has
<1>8. job[q].kind \notin CommentKinds /\ job[q].kind \notin ResolvingKinds
  BY <1>1 DEF CommentKinds, ApprovalKinds, ResolvingKinds
<1>9. CommentWorkOK(q)'
  BY <1>1, <1>2, <1>4, <1>6, <1>8 DEF CommentWorkOK, ApprovalOK
<1>10. ResolvedStays(q)' /\ \A x : ~Copies(q, x)' /\ ~CopiesVersion(q, x)'
  BY <1>4, <1>8 DEF ResolvedStays, HasWritten, Copies, CopiesVersion
<1>11. ApprovedStays(q)'
  <2> SUFFICES ASSUME alone[q] PROVE ApprovedStays(q)'
    BY <1>3 DEF ApprovedStays, Proceeds
  <2>1. \A x \in Requests \ {q} : ~Busy(x)
    BY <1>1 DEF CommentInv, RequestInv, Solitude
  <2>2. \A x \in Requests \ {q} : job'[x].phase # "store"
    BY <2>1, <1>3 DEF Busy, Outcomes, Proceeds, OthersStay
  <2> QED BY <1>2, <1>4, <1>6, <2>2 DEF ApprovedStays, CopiesVersion
<1>12. \A x \in DOMAIN approved :
         approved'[x] = approved[x] \/ (CopiesVersion(q, x) /\ approved'[x] = next)
  BY <1>1, <1>6 DEF CopiesVersion
<1> QED BY <1>1, <1>4, <1>5, <1>6, <1>7, <1>9, <1>10, <1>11, <1>12 DEF CommentEffect

LEMMA AuditCommentStep ==
  ASSUME CommentInv, NEW q \in Requests, AuditComment(q)
  PROVE  CommentEffect(q)
<1>1. /\ job[q].kind \in CommentKinds \cup ApprovalKinds /\ job[q].phase = "audit" /\ Busy(q)
      /\ Goes(q, "ok") /\ UNCHANGED <<rows, approved>>
  BY DEF AuditComment, AuditedRow, At, Busy, Outcomes
<1>2. /\ job[q].kind \in CommentKinds => CommentFields \subseteq DOMAIN job[q]
      /\ job[q].kind \in ApprovalKinds =>
           JobFields \cup {"version", "targets", "next"} \subseteq DOMAIN job[q]
  BY <1>1 DEF CommentInv, CommentWorkOK, CommentCopyOK, ApprovalOK
<1>3. Proceeds(q) /\ job'[q] = [job[q] EXCEPT !.phase = "ok"]
  BY <1>1, GoesMeans DEF CommentInv
<1>4. /\ job'[q].kind = job[q].kind /\ job'[q].phase = "ok"
      /\ job[q].kind \in CommentKinds => job'[q].row = job[q].row /\ job'[q].next = job[q].next
      /\ job[q].kind \in ApprovalKinds =>
           job'[q].version = job[q].version /\ job'[q].targets = job[q].targets
  BY <1>1, <1>2, <1>3 DEF CommentFields, JobFields
<1>5. RequestInv' /\ Steps(q) /\ UNCHANGED alone
  BY <1>3, <1>4, ProceedsMeans DEF CommentInv, Proceeds
<1>6. CommentTable' /\ ApprovedOK' /\ Existing("comment")' = Existing("comment")
  BY <1>1, NoCommentMoves
<1>7. \A x : ~Copies(q, x)' /\ ~CopiesVersion(q, x)'
  BY <1>4 DEF Copies, CopiesVersion
<1>8. CommentWorkOK(q)'
  BY <1>4 DEF CommentWorkOK, Busy, Outcomes
<1>9. \A x \in Requests \ {q} : job'[x] = job[x]
  BY <1>3 DEF Proceeds, OthersStay
<1>10. ResolvedStays(q) /\ ApprovedStays(q)
  BY DEF CommentInv
<1>11. ResolvedStays(q)'
  <2> SUFFICES ASSUME HasWritten(q, ResolvingKinds)', alone[q] PROVE ResolvedStays(q)'
    BY <1>5 DEF ResolvedStays
  <2>1. HasWritten(q, ResolvingKinds) /\ job[q].kind \in CommentKinds
    BY <1>1, <1>4 DEF HasWritten, ResolvingKinds, CommentKinds
  <2> QED BY <1>1, <1>4, <1>5, <1>6, <1>9, <1>10, <2>1 DEF ResolvedStays, Copies
<1>12. ApprovedStays(q)'
  <2> SUFFICES ASSUME HasWritten(q, ApprovalKinds)', alone[q] PROVE ApprovedStays(q)'
    BY <1>5 DEF ApprovedStays
  <2>1. HasWritten(q, ApprovalKinds) /\ job[q].kind \in ApprovalKinds
    BY <1>1, <1>4 DEF HasWritten
  <2> QED BY <1>1, <1>4, <1>9, <1>10, <2>1 DEF ApprovedStays, CopiesVersion
<1> QED BY <1>1, <1>4, <1>5, <1>6, <1>7, <1>8, <1>11, <1>12 DEF CommentEffect

LEMMA CommentFailsStep ==
  ASSUME CommentInv, NEW q \in Requests, CommentFails(q)
  PROVE  CommentEffect(q)
<1>1. /\ Busy(q) /\ Fails(q) /\ UNCHANGED <<rows, approved>>
      /\ job[q].kind \in CommentKinds \cup ApprovalKinds
  BY DEF CommentFails, Fails
<1>2. Proceeds(q) /\ job'[q].kind = job[q].kind /\ job'[q].phase = "failed"
  <2>1. Proceeds(q) /\ job'[q].kind = job[q].kind
    BY <1>1, EndsMeans DEF CommentInv
  <2>2. job'[q].phase = "failed"
    BY <1>1 DEF Fails, CommentInv, RequestInv, Answered, NoJob
  <2> QED BY <2>1, <2>2
<1>3. RequestInv' /\ Steps(q)
  BY <1>2, ProceedsMeans DEF CommentInv
<1>4. CommentWorkOK(q)' /\ ResolvedStays(q)' /\ ApprovedStays(q)'
      /\ \A x : ~Copies(q, x)' /\ ~CopiesVersion(q, x)'
  BY <1>2 DEF CommentWorkOK, Busy, Outcomes, ResolvedStays, ApprovedStays, HasWritten, Copies, CopiesVersion
<1> QED BY <1>1, <1>2, <1>3, <1>4, NoCommentMoves DEF CommentEffect

\* Every step is one of a request, with the effect above.
LEMMA CommentMoves ==
  ASSUME CommentInv, CommentNext
  PROVE  \E q \in Requests : CommentEffect(q)
<1>1. PICK q \in Requests :
        \/ CreateComment(q) \/ CreateReply(q) \/ UpdateComment(q) \/ DeleteComment(q)
        \/ ResolveComment(q) \/ AssignComment(q) \/ InjectToAi(q) \/ SaveComment(q)
        \/ ApproveElement(q) \/ BulkApproveElements(q) \/ StoreApproval(q) \/ NewVersion(q)
        \/ AuditComment(q) \/ CommentFails(q)
  BY DEF CommentNext
<1>2. CASE CreateComment(q) \/ CreateReply(q)
  BY <1>2, NewCommentStep
<1>3. CASE UpdateComment(q) \/ DeleteComment(q) \/ ResolveComment(q) \/ AssignComment(q)
  BY <1>3, EditCommentStep
<1>4. CASE InjectToAi(q) \/ ApproveElement(q) \/ BulkApproveElements(q)
  BY <1>4, InjectToAiStep, ApproveStep
<1>5. CASE StoreApproval(q) \/ NewVersion(q)
  BY <1>5, StoreApprovalStep, NewVersionStep
<1>6. CASE AuditComment(q) \/ CommentFails(q)
  BY <1>6, AuditCommentStep, CommentFailsStep
<1>7. CASE SaveComment(q)
  BY <1>7, InsertComment, DiffComment, WriteComment DEF SaveComment
<1> QED BY <1>1, <1>2, <1>3, <1>4, <1>5, <1>6, <1>7

LEMMA CommentSteps ==
  ASSUME CommentInv, CommentNext
  PROVE  CommentInv'
BY CommentMoves, CommentStep

\* Nothing happens to the comments.
LEMMA CommentsRest ==
  ASSUME CommentInv, UNCHANGED <<job, alone, rows, approved>>
  PROVE  CommentInv'
<1>1. CommentTable' /\ ApprovedOK' /\ Existing("comment")' = Existing("comment")
  BY NoCommentMoves
<1>2. RequestInv'
  BY DEF CommentInv, RequestInv, Solitude, Busy
<1>3. ASSUME NEW q \in Requests
      PROVE  /\ CommentWorkOK(q)' /\ ResolvedStays(q)' /\ ApprovedStays(q)'
             /\ job'[q].kind \in CommentKinds \cup ApprovalKinds \cup {"none", "new_version"}
  <2>1. CommentWorkOK(q) /\ ResolvedStays(q) /\ ApprovedStays(q)
        /\ job[q].kind \in CommentKinds \cup ApprovalKinds \cup {"none", "new_version"}
    BY DEF CommentInv
  <2>2. CommentWorkOK(q)'
    BY <1>1, <2>1 DEF CommentWorkOK, CommentCopyOK, ApprovalOK, Busy
  <2>3. ResolvedStays(q)' /\ ApprovedStays(q)'
    BY <1>1, <2>1 DEF ResolvedStays, ApprovedStays, HasWritten, Copies, CopiesVersion
  <2> QED BY <2>1, <2>2, <2>3
<1> QED BY <1>1, <1>2, <1>3 DEF CommentInv

\* Comments, replies, edits, resolutions and approvals of any number of requests, and new
\* versions, keep the invariant: what a request resolved or approved on its own is in the row,
\* or the version, and in every copy that is still to be written.
THEOREM CommentInvariance == CommentSpec => []CommentInv
<1> DEFINE Begin == /\ RequestInit /\ CommentsInit
                    /\ \E n \in Nat : rows = [id \in {"comment"} \X (1..n) |-> NoRow]
<1>1. Begin => CommentInv
  <2> SUFFICES ASSUME Begin PROVE CommentInv
    OBVIOUS
  <2>1. RequestInv
    BY RequestsBegin
  <2>2. PICK n \in Nat : rows = [id \in {"comment"} \X (1..n) |-> NoRow]
    OBVIOUS
  <2>3. CommentTable
    BY <2>2 DEF CommentTable, Existing, Ids, Has
  <2>4. ApprovedOK
    <3>1. approved = <<{}>> /\ {} \in SUBSET Elements
      BY DEF CommentsInit
    <3> QED BY <3>1 DEF ApprovedOK
  <2>5. \A q \in Requests : job[q].kind = "none" /\ job[q].phase = "idle"
    BY DEF RequestInit, NoJob
  <2>6. ASSUME NEW q \in Requests
        PROVE  CommentWorkOK(q) /\ ResolvedStays(q) /\ ApprovedStays(q)
    BY <2>5 DEF CommentWorkOK, Busy, ResolvedStays, ApprovedStays, HasWritten
  <2> QED BY <2>1, <2>3, <2>4, <2>5, <2>6 DEF CommentInv
<1>2. CommentInv /\ [CommentNext]_<<requestVars, rows, approved>> => CommentInv'
  BY CommentSteps, CommentsRest DEF requestVars
<1>3. CommentSpec => Begin /\ [][CommentNext]_<<requestVars, rows, approved>>
  BY DEF CommentSpec
<1> HIDE DEF Begin
<1> QED BY <1>1, <1>2, <1>3, PTL

LEMMA CommentsKept == CommentInv => CommentsStick
<1> SUFFICES ASSUME CommentInv, NEW q \in Requests
             PROVE  /\ Sticks(q, {"comment_delete", "comment_resolve"}, {"resolved"})
                    /\ HasWritten(q, ApprovalKinds) /\ alone[q] =>
                         job[q].targets \subseteq approved[job[q].version]
  BY DEF CommentsStick
<1>1. ResolvedStays(q) /\ ApprovedStays(q)
  BY DEF CommentInv
<1>2. ASSUME HasWritten(q, ResolvingKinds), alone[q]
      PROVE  rows[job[q].row]["resolved"] = job[q].next["resolved"]
  BY <1>1, <1>2 DEF ResolvedStays
<1>3. Sticks(q, {"comment_delete", "comment_resolve"}, {"resolved"})
  BY <1>2 DEF Sticks, ResolvingKinds
<1> QED BY <1>1, <1>3 DEF ApprovedStays

\* A comment that was resolved or deleted, and the elements that were approved, while no
\* other request was at work stay so: no later save() writes back what was before.
THEOREM CommentDecisionsStay == CommentSpec => []CommentsStick
BY CommentsKept, CommentInvariance, PTL

-------------------------------------------------------------------------------
(* Documents. *)

DocColumns == {"name", "size", "version", "key", "text", "deleted", "archived"}
DocRow(r) == r = [c \in DocColumns |-> r[c]] /\ r.size \in Nat /\ r.version \in Nat

\* There are finitely many rows; versions have a bound.
DocTable ==
  /\ rows = [id \in DOMAIN rows |-> rows[id]] /\ IsFiniteSet(DOMAIN rows)
  /\ \A id \in DOMAIN rows : id[2] \in Nat
  /\ \A id \in Documents : DocRow(rows[id])
  /\ \E b \in Nat : \A id \in Documents : rows[id].version <= b

ObjectsThere == \A id \in Documents : rows[id].key \in objects
AskedExist == asked \subseteq Documents /\ results \subseteq Documents

LimitKept ==
  \/ Raced({"document_upload"}) \/ \E q \in Requests : job[q].kind = "document_reprocess"
  \/ SessionBytes <= MaxSessionSize
VersionsOfDocsDiffer ==
  \/ Raced({"document_upload", "document_reprocess"})
  \/ \A x, y \in Documents : x # y /\ rows[x].name = rows[y].name => rows[x].version # rows[y].version

\* What an UPDATE never changes.
SameDocument(r, s) == r.name = s.name /\ r.size = s.size /\ r.version = s.version /\ r.key = s.key

IsLatest(next) == \A id \in Documents : rows[id].name = next.name => rows[id].version < next.version

EditFields == JobFields \cup {"row", "next", "dirty", "then"}
NewKinds   == {"document_upload", "document_reprocess"}
NewFields  == EditFields \cup {"file", "key"}

\* A request that adds a row: the upload has stored the object before it inserts the row,
\* and has counted the bytes; what was counted and numbered holds as long as it is alone.
NewDocOK(q) ==
  /\ NewFields \subseteq DOMAIN job[q] /\ job[q].then = "publish" /\ job[q].file.size \in Nat
  /\ job[q].phase \in {"version", "bucket", "put", "insert", "publish"}
  /\ job[q].kind = "document_reprocess" => job[q].key \in objects /\ job[q].phase # "put"
  /\ job[q].phase = "publish" => job[q].row \in Documents
  /\ LET uploads == job[q].kind = "document_upload" /\ job[q].phase # "publish"
         numbered == job[q].phase = "insert"
                       \/ (job[q].kind = "document_upload" /\ job[q].phase \in {"bucket", "put"})
     IN /\ uploads /\ alone[q] => SessionBytes + job[q].file.size <= MaxSessionSize
        /\ numbered => /\ DocRow(job[q].next) /\ job[q].next.size = job[q].file.size
                       /\ job[q].next.key = job[q].key
        /\ numbered /\ alone[q] => IsLatest(job[q].next)
        /\ job[q].phase = "insert" => job[q].key \in objects

\* The copy of a document.
DocCopyOK(q) ==
  /\ EditFields \subseteq DOMAIN job[q]
  /\ job[q].phase \in {"diff", "write", "audit", "ack"}
  /\ job[q].kind = "document_delete" => job[q].then = "ok" /\ job[q].next.deleted = TRUE
  /\ job[q].then \in {"ok", "audit", "ack"}
  /\ job[q].kind = "document_delete" => job[q].phase \in {"diff", "write"}
  /\ job[q].phase \in {"diff", "write"} =>
       /\ job[q].row \in Documents /\ DocRow(job[q].next)
       /\ SameDocument(job[q].next, rows[job[q].row])
  /\ job[q].phase = "write" /\ alone[q] => job[q].dirty = Differing(job[q].next, rows[job[q].row])

DocWorkOK(q) ==
  Busy(q) => IF job[q].kind \in NewKinds THEN NewDocOK(q) ELSE DocCopyOK(q)

\* A deletion by a request alone: nobody copies the row any more.
DeletedStays(q) ==
  HasWritten(q, {"document_delete"}) /\ alone[q] =>
    /\ job[q].row \in Documents /\ job[q].next.deleted = TRUE /\ rows[job[q].row].deleted = TRUE
    /\ \A x \in Requests \ {q} :
         ~(job[x].kind \in DocKinds \ NewKinds /\ job[x].phase \in {"diff", "write"}
           /\ job[x].row = job[q].row)

DocInv ==
  /\ RequestInv /\ DocTable /\ ObjectsThere /\ AskedExist /\ LimitKept /\ VersionsOfDocsDiffer
  /\ \A q \in Requests :
       /\ job[q].kind \in DocKinds \cup {"none", "session_archive"}
       /\ DocWorkOK(q) /\ DeletedStays(q)

-------------------------------------------------------------------------------
\* Whether q is going to write a copy of document id.
CopiesDoc(q, id) ==
  job[q].kind \in DocKinds \ NewKinds /\ job[q].phase \in {"diff", "write"} /\ job[q].row = id

\* A step of q: what it leaves of the documents, and the copies it makes.
DocEffect(q) ==
  /\ RequestInv' /\ Steps(q) /\ DocTable' /\ ObjectsThere' /\ AskedExist'
  /\ LimitKept' /\ VersionsOfDocsDiffer'
  /\ job'[q].kind \in DocKinds \cup {"session_archive"}
  /\ DocWorkOK(q)' /\ DeletedStays(q)'
  /\ objects \subseteq objects'
  /\ \A id \in Documents :
       /\ id \in Documents' /\ SameDocument(rows'[id], rows[id])
       /\ rows[id].deleted = TRUE => rows'[id].deleted = TRUE \/ CopiesDoc(q, id)
       /\ CopiesDoc(q, id)' => CopiesDoc(q, id) \/ rows[id].deleted # TRUE

LEMMA OtherDocuments ==
  ASSUME DocInv, NEW q \in Requests, DocEffect(q), NEW x \in Requests \ {q}
  PROVE  /\ job'[x].kind \in DocKinds \cup {"none", "session_archive"}
         /\ DocWorkOK(x)' /\ DeletedStays(x)'
<1>1. /\ job'[x] = job[x] /\ (Busy(x) => ~alone'[x]) /\ (Busy(x)' <=> Busy(x))
      /\ job[x].kind # "none" /\ ~alone[x] => ~alone'[x]
  BY DEF DocEffect, Steps, OthersStay, Busy
<1>2. \A y \in Requests \ {q} : job'[y] = job[y]
  BY DEF DocEffect, Steps, OthersStay
<1>3. /\ DocWorkOK(x) /\ DeletedStays(x)
      /\ job[x].kind \in DocKinds \cup {"none", "session_archive"}
  BY DEF DocInv
<1>4. \A id \in Documents : id \in Documents' /\ SameDocument(rows'[id], rows[id])
  BY DEF DocEffect
<1>5. DocWorkOK(x)'
  <2> SUFFICES ASSUME Busy(x) PROVE DocWorkOK(x)'
    BY <1>1 DEF DocWorkOK
  <2>1. ~alone'[x] /\ objects \subseteq objects'
    BY <1>1 DEF DocEffect
  <2>2. ASSUME job[x].kind \in NewKinds PROVE NewDocOK(x)'
    <3>1. NewDocOK(x)
      BY <1>3, <2>2 DEF DocWorkOK
    <3>2. job'[x].phase = "publish" => job'[x].row \in Documents'
      BY <1>1, <1>4, <3>1 DEF NewDocOK
    <3> QED BY <1>1, <2>1, <3>1, <3>2 DEF NewDocOK
  <2>3. ASSUME job[x].kind \notin NewKinds PROVE DocCopyOK(x)'
    <3>1. DocCopyOK(x)
      BY <1>3, <2>3 DEF DocWorkOK
    <3>2. ASSUME job[x].phase \in {"diff", "write"}
          PROVE  job[x].row \in Documents' /\ SameDocument(job[x].next, rows'[job[x].row])
      <4>1. job[x].row \in Documents /\ SameDocument(job[x].next, rows[job[x].row])
        BY <3>1, <3>2 DEF DocCopyOK
      <4> QED BY <1>4, <4>1 DEF SameDocument
    <3> QED BY <1>1, <2>1, <3>1, <3>2 DEF DocCopyOK
  <2> QED BY <1>1, <2>2, <2>3 DEF DocWorkOK
<1>6. DeletedStays(x)'
  <2> SUFFICES ASSUME HasWritten(x, {"document_delete"})', alone'[x] PROVE DeletedStays(x)'
    BY DEF DeletedStays
  <2>1. HasWritten(x, {"document_delete"}) /\ alone[x]
    BY <1>1 DEF HasWritten
  <2>2. PICK id : id = job[x].row
    OBVIOUS
  <2>3. /\ id \in Documents /\ job[x].next.deleted = TRUE /\ rows[id].deleted = TRUE
        /\ \A y \in Requests \ {x} : ~CopiesDoc(y, id)
    BY <1>3, <2>1, <2>2 DEF DeletedStays, CopiesDoc
  <2>4. id \in Documents' /\ rows'[id].deleted = TRUE /\ ~CopiesDoc(q, id)'
    BY <2>3 DEF DocEffect
  <2>5. \A y \in Requests \ {x, q} : ~CopiesDoc(y, id)'
    BY <1>2, <2>3 DEF CopiesDoc
  <2>6. \A y \in Requests \ {x} : ~CopiesDoc(y, id)'
    BY <2>4, <2>5
  <2> QED BY <1>1, <2>2, <2>3, <2>4, <2>6 DEF DeletedStays, CopiesDoc
<1> QED BY <1>1, <1>3, <1>5, <1>6

LEMMA DocStep ==
  ASSUME DocInv, NEW q \in Requests, DocEffect(q)
  PROVE  DocInv'
BY OtherDocuments DEF DocInv, DocEffect

-------------------------------------------------------------------------------
\* The bytes of a session: a new document adds its size.
LEMMA CountedBytes ==
  ASSUME NEW D, IsFiniteSet(D), NEW s, \A id \in D : s[id] \in Nat,
         NEW u, u \notin D, NEW n \in Nat
  PROVE  LET B == UNION {{id} \X (1..s[id]) : id \in D}
         IN /\ IsFiniteSet(B) /\ Cardinality(B) \in Nat
            /\ Cardinality(B \cup ({u} \X (1..n))) = Cardinality(B) + n
<1> DEFINE S == {{id} \X (1..s[id]) : id \in D}
           B == UNION S
           A == {u} \X (1..n)
<1>1. ASSUME NEW x, NEW k \in Nat
      PROVE  IsFiniteSet({x} \X (1..k)) /\ Cardinality({x} \X (1..k)) = k
  <2>1. IsFiniteSet({x}) /\ Cardinality({x}) = 1
    BY FS_Singleton
  <2>2. IsFiniteSet(1..k) /\ Cardinality(1..k) = k
    BY FS_Interval
  <2>3. IsFiniteSet({x} \X (1..k)) /\ Cardinality({x} \X (1..k)) = Cardinality({x}) * Cardinality(1..k)
    BY <2>1, <2>2, FS_Product
  <2>4. 1 * k = k
    OBVIOUS
  <2>5. Cardinality({x}) * Cardinality(1..k) = 1 * k
    BY <2>1, <2>2
  <2> QED BY <2>3, <2>4, <2>5
<1>2. IsFiniteSet(S)
  <2> DEFINE f == [id \in D |-> {id} \X (1..s[id])]
  <2>1. f \in Surjection(D, S)
    BY DEF Surjection
  <2> HIDE DEF f, S
  <2> QED BY <2>1, FS_Surjection
<1>3. \A T \in S : IsFiniteSet(T)
  <2>1. ASSUME NEW id \in D PROVE IsFiniteSet({id} \X (1..s[id]))
    BY <1>1
  <2> QED BY <2>1
<1>4. IsFiniteSet(A) /\ Cardinality(A) = n
  BY <1>1
<1>5. B \cap A = {}
  OBVIOUS
<1> HIDE DEF S, A
<1>6. IsFiniteSet(B)
  BY <1>2, <1>3, FS_UNION
<1> HIDE DEF B
<1>7. Cardinality(B) \in Nat /\ Cardinality(B \cap A) = 0
  BY <1>5, <1>6, FS_CardinalityType, FS_EmptySet
<1>8. Cardinality(B \cup A) = Cardinality(B) + Cardinality(A) - Cardinality(B \cap A)
  BY <1>4, <1>6, FS_Union
<1>9. Cardinality(B \cup A) = Cardinality(B) + n
  BY <1>4, <1>7, <1>8
<1> QED BY <1>6, <1>7, <1>9 DEF B, S, A

LEMMA NewBytes ==
  ASSUME DocInv, NEW u, u \notin Documents, rows'[u].size \in Nat, Documents' = Documents \cup {u},
         \A id \in Documents : rows'[id].size = rows[id].size
  PROVE  SessionBytes' = SessionBytes + rows'[u].size
<1> DEFINE s == [id \in Documents |-> rows[id].size]
           n == rows'[u].size
           B == UNION {{id} \X (1..s[id]) : id \in Documents}
<1>1. IsFiniteSet(Documents)
  <2>1. Documents \in SUBSET DOMAIN rows /\ IsFiniteSet(DOMAIN rows)
    BY DEF DocInv, DocTable, Documents, Existing, Ids
  <2> QED BY <2>1, FS_Subset
<1>2. \A id \in Documents : s[id] \in Nat
  BY DEF DocInv, DocTable, DocRow
<1>3. B = UNION {Bytes(id) : id \in Documents}
  BY DEF Bytes
<1>4. UNION {Bytes(id)' : id \in Documents'} = B \cup ({u} \X (1..n))
  BY <1>3 DEF Bytes
<1> HIDE DEF s, n
<1>5. Cardinality(B \cup ({u} \X (1..n))) = Cardinality(B) + n
  BY <1>1, <1>2, CountedBytes DEF n
<1> QED BY <1>3, <1>4, <1>5 DEF SessionBytes, n

LEMMA SameBytes ==
  ASSUME Documents' = Documents, \A id \in Documents : rows'[id].size = rows[id].size
  PROVE  SessionBytes' = SessionBytes
<1>1. {Bytes(id)' : id \in Documents'} = {Bytes(id) : id \in Documents}
  BY DEF Bytes
<1> QED BY <1>1 DEF SessionBytes

-------------------------------------------------------------------------------
(* Steps that write no row. *)

LEMMA RacedStays ==
  ASSUME NEW q, Steps(q), NEW kinds, "none" \notin kinds
  PROVE  Raced(kinds) => Raced(kinds)'
<1> SUFFICES ASSUME NEW x \in Requests, job[x].kind \in kinds, ~alone[x] PROVE Raced(kinds)'
  BY DEF Raced
<1>1. job[x].kind # "none"
  OBVIOUS
<1>2. job'[x].kind = job[x].kind
  BY <1>1 DEF Steps, OthersStay
<1>3. ~alone'[x]
  BY <1>1 DEF Steps
<1> QED BY <1>2, <1>3 DEF Raced

LEMMA LimitStays ==
  ASSUME DocInv, NEW q \in Requests, Steps(q), SessionBytes' = SessionBytes
  PROVE  LimitKept'
<1>1. Raced({"document_upload"}) => Raced({"document_upload"})'
  BY RacedStays
<1>2. (\E x \in Requests : job[x].kind = "document_reprocess")
        => \E x \in Requests : job'[x].kind = "document_reprocess"
  BY DEF Steps, OthersStay
<1> QED BY <1>1, <1>2 DEF DocInv, LimitKept

LEMMA VersionsStay ==
  ASSUME DocInv, NEW q \in Requests, Steps(q), Documents' = Documents,
         \A id \in Documents : SameDocument(rows'[id], rows[id])
  PROVE  VersionsOfDocsDiffer'
<1>1. Raced(NewKinds) => Raced(NewKinds)'
  BY RacedStays DEF NewKinds
<1>2. Raced(NewKinds) \/ \A x, y \in Documents :
        x # y /\ rows[x].name = rows[y].name => rows[x].version # rows[y].version
  BY DEF DocInv, VersionsOfDocsDiffer, NewKinds
<1>3. \A id \in Documents : rows'[id].name = rows[id].name /\ rows'[id].version = rows[id].version
  BY DEF SameDocument
<1>4. Raced(NewKinds)' \/ \A x, y \in Documents' :
        x # y /\ rows'[x].name = rows'[y].name => rows'[x].version # rows'[y].version
  BY <1>1, <1>2, <1>3
<1> QED BY <1>4 DEF VersionsOfDocsDiffer, NewKinds

LEMMA NoDocumentMoves ==
  ASSUME DocInv, UNCHANGED rows, objects \subseteq objects',
         asked' \subseteq Documents, results' \subseteq Documents
  PROVE  /\ DocTable' /\ ObjectsThere' /\ AskedExist' /\ Documents' = Documents
         /\ SessionBytes' = SessionBytes
<1>1. Documents' = Documents
  BY DEF Documents, Existing, Ids, Has
<1>2. DocTable'
  BY <1>1 DEF DocInv, DocTable
<1>3. SessionBytes' = SessionBytes
  BY <1>1, SameBytes
<1> QED BY <1>1, <1>2, <1>3 DEF DocInv, ObjectsThere, AskedExist

LEMMA DocRequestMoves ==
  ASSUME DocInv, NEW q \in Requests, UNCHANGED rows, objects \subseteq objects',
         asked' \subseteq Documents, results' \subseteq Documents,
         RequestInv', Steps(q), job'[q].kind \in DocKinds \cup {"session_archive"},
         DocWorkOK(q)', DeletedStays(q)',
         \A id \in Documents : CopiesDoc(q, id)' => CopiesDoc(q, id) \/ rows[id].deleted # TRUE
  PROVE  DocEffect(q)
<1>1. /\ DocTable' /\ ObjectsThere' /\ AskedExist' /\ Documents' = Documents
      /\ SessionBytes' = SessionBytes
  BY NoDocumentMoves
<1>2. \A id \in Documents : SameDocument(rows'[id], rows[id])
  BY DEF SameDocument
<1>3. LimitKept'
  BY <1>1, LimitStays
<1>4. VersionsOfDocsDiffer'
  BY <1>1, <1>2, VersionsStay
<1> QED BY <1>1, <1>2, <1>3, <1>4 DEF DocEffect

\* A request that is answered, whatever it did before.
LEMMA DocAnswers ==
  ASSUME DocInv, NEW q \in Requests, UNCHANGED rows, objects' = objects,
         asked' \subseteq Documents, results' \subseteq Documents,
         RequestInv', Steps(q), job'[q].kind \in DocKinds \cup {"session_archive"},
         job'[q].phase \in Outcomes, job'[q].phase = "ok" => job'[q].kind # "document_delete"
  PROVE  DocEffect(q)
<1>1. ~Busy(q)'
  BY DEF Busy
<1>2. DocWorkOK(q)'
  BY <1>1 DEF DocWorkOK
<1>3. DeletedStays(q)'
  BY DEF DeletedStays, HasWritten, Outcomes
<1>4. \A id : ~CopiesDoc(q, id)'
  BY DEF CopiesDoc, Outcomes
<1> QED BY <1>2, <1>3, <1>4, DocRequestMoves

LEMMA DocRefused ==
  ASSUME DocInv, NEW q \in Requests, UNCHANGED <<rows, objects>>,
         asked' \subseteq Documents, results' \subseteq Documents,
         NEW kind \in DocKinds, Begins(q, Answered(kind, "refused"))
  PROVE  DocEffect(q)
<1>1. Answered(kind, "refused").kind = kind /\ Answered(kind, "refused").phase = "refused"
  BY DEF Answered, NoJob
<1>2. RequestInv' /\ Steps(q) /\ job'[q] = Answered(kind, "refused")
  BY AnsweredFields, BeginsMeans DEF DocInv
<1>3. job'[q].kind = kind /\ job'[q].phase = "refused" /\ "refused" \in Outcomes
  BY <1>1, <1>2 DEF Outcomes
<1> QED BY <1>2, <1>3, DocAnswers

LEMMA DocFailed ==
  ASSUME DocInv, NEW q \in Requests, Fails(q), UNCHANGED <<rows, objects, asked, results>>,
         job[q].kind \in DocKinds
  PROVE  DocEffect(q)
<1>1. Busy(q)
  BY DEF Fails
<1>2. Proceeds(q) /\ job'[q].kind = job[q].kind
  BY <1>1, EndsMeans DEF DocInv
<1>3. job'[q].phase = "failed" /\ "failed" \in Outcomes
  BY DEF Fails, DocInv, RequestInv, Answered, NoJob, Outcomes
<1>4. RequestInv' /\ Steps(q)
  BY <1>2, ProceedsMeans DEF DocInv
<1>5. asked' \subseteq Documents /\ results' \subseteq Documents
  BY DEF DocInv, AskedExist
<1> QED BY <1>2, <1>3, <1>4, <1>5, DocAnswers

\* A request that adds a row, at work.
LEMMA NewDocGoes ==
  ASSUME DocInv, NEW q \in Requests, UNCHANGED rows, objects \subseteq objects',
         asked' \subseteq Documents, results' \subseteq Documents,
         RequestInv', Steps(q), job'[q].kind \in NewKinds, NewDocOK(q)'
  PROVE  DocEffect(q)
<1>1. DocWorkOK(q)'
  BY DEF DocWorkOK
<1>2. DeletedStays(q)'
  BY DEF DeletedStays, HasWritten, NewKinds
<1>3. \A id : ~CopiesDoc(q, id)'
  BY DEF CopiesDoc
<1>4. job'[q].kind \in DocKinds
  BY DEF NewKinds, DocKinds
<1> QED BY <1>1, <1>2, <1>3, <1>4, DocRequestMoves

LEMMA DocBegins ==
  ASSUME DocInv, NEW q \in Requests, UNCHANGED <<rows, objects, asked, results>>,
         NEW kind \in NewKinds, NEW p, NEW file, NEW key,
         file.size \in Nat, kind = "document_reprocess" => key \in objects,
         kind = "document_upload" => SessionBytes + file.size <= MaxSessionSize,
         Begins(q, DocJob(kind, p, "version", file, key))
  PROVE  DocEffect(q)
<1> DEFINE j == DocJob(kind, p, "version", file, key)
<1>1. /\ NewFields \subseteq DOMAIN j /\ j.kind = kind /\ j.phase = "version" /\ j.file = file
      /\ j.key = key /\ j.then = "publish"
  BY DEF DocJob, NewFields, EditFields, JobFields
<1>2. Begins(q, j)
  OBVIOUS
<1> HIDE DEF j
<1>3. RequestInv' /\ Steps(q) /\ job'[q] = j
  BY <1>1, <1>2, BeginsMeans DEF DocInv, NewFields, EditFields
<1>4. /\ Documents' = Documents /\ SessionBytes' = SessionBytes
      /\ asked' \subseteq Documents /\ results' \subseteq Documents
  BY NoDocumentMoves DEF DocInv, AskedExist
<1>5. NewDocOK(q)'
  BY <1>1, <1>3, <1>4 DEF NewDocOK
<1> QED BY <1>1, <1>3, <1>4, <1>5, NewDocGoes

LEMMA UploadStep ==
  ASSUME DocInv, NEW q \in Requests, Upload(q)
  PROVE  DocEffect(q)
<1>1. UNCHANGED <<rows, objects, asked, results>>
  BY DEF Upload, docVars
<1>2. PICK p \in Processes, f \in Files :
        \/ /\ Begins(q, DocJob("document_upload", p, "version", f, q))
           /\ SessionBytes + f.size <= MaxSessionSize
        \/ Begins(q, Answered("document_upload", "refused"))
  BY DEF Upload
<1>3. f.size \in Nat
  BY SizesAssumption
<1>4. CASE Begins(q, Answered("document_upload", "refused"))
  BY <1>1, <1>4, DocRefused DEF DocInv, AskedExist, DocKinds
<1>5. CASE /\ Begins(q, DocJob("document_upload", p, "version", f, q))
           /\ SessionBytes + f.size <= MaxSessionSize
  BY <1>1, <1>3, <1>5, DocBegins DEF NewKinds
<1> QED BY <1>2, <1>4, <1>5

LEMMA ReprocessStep ==
  ASSUME DocInv, NEW q \in Requests, Reprocess(q)
  PROVE  DocEffect(q)
<1>1. UNCHANGED <<rows, objects, asked, results>>
  BY DEF Reprocess, docVars
<1>2. PICK p \in Processes, id \in Documents :
        \/ Begins(q, DocJob("document_reprocess", p, "version",
                            [name |-> rows[id].name, size |-> rows[id].size], rows[id].key))
        \/ Begins(q, Answered("document_reprocess", "refused"))
  BY DEF Reprocess
<1>3. CASE Begins(q, Answered("document_reprocess", "refused"))
  BY <1>1, <1>3, DocRefused DEF DocInv, AskedExist, DocKinds
<1>4. CASE Begins(q, DocJob("document_reprocess", p, "version",
                            [name |-> rows[id].name, size |-> rows[id].size], rows[id].key))
  <2>1. PICK file, key : file = [name |-> rows[id].name, size |-> rows[id].size] /\ key = rows[id].key
    OBVIOUS
  <2>2. file.size \in Nat /\ key \in objects
    BY <2>1 DEF DocInv, DocTable, DocRow, ObjectsThere
  <2>3. Begins(q, DocJob("document_reprocess", p, "version", file, key))
    BY <1>4, <2>1
  <2> QED BY <1>1, <2>2, <2>3, DocBegins DEF NewKinds
<1> QED BY <1>2, <1>3, <1>4

\* The number of a new version is above those of its name.
LEMMA NextVersionIsNew ==
  ASSUME DocInv, NEW name
  PROVE  /\ NextDocVersion(name) \in Nat
         /\ \A id \in Documents : rows[id].name = name => rows[id].version < NextDocVersion(name)
<1> DEFINE S == {0} \cup {rows[id].version : id \in {x \in Documents : rows[x].name = name}}
<1>1. PICK b \in Nat : \A id \in Documents : rows[id].version <= b
  BY DEF DocInv, DocTable
<1>2. \A id \in Documents : rows[id].version \in Nat
  BY DEF DocInv, DocTable, DocRow
<1>3. S \in SUBSET Nat /\ S # {} /\ \A x \in S : x <= b
  BY <1>1, <1>2
<1>4. \A id \in Documents : rows[id].name = name => rows[id].version \in S
  OBVIOUS
<1>5. NextDocVersion(name) = 1 + Max(S)
  BY DEF NextDocVersion
<1> HIDE DEF S
<1>6. Max(S) \in S /\ \A x \in S : x <= Max(S)
  BY <1>1, <1>3, LargestElement
<1>7. Max(S) \in Nat
  BY <1>3, <1>6
<1> QED BY <1>2, <1>4, <1>5, <1>6, <1>7

LEMMA ReadVersionStep ==
  ASSUME DocInv, NEW q \in Requests, ReadVersion(q)
  PROVE  DocEffect(q)
<1> DEFINE n == NextDocVersion(job[q].file.name)
           next == Doc(job[q].file, n, job[q].key)
           phase == IF job[q].kind = "document_upload" THEN "bucket" ELSE "insert"
           j == [job[q] EXCEPT !.phase = phase, !.next = next]
<1>1. /\ job[q].kind \in NewKinds /\ job[q].phase = "version" /\ Busy(q)
      /\ UNCHANGED <<alone, rows, objects, asked, results>>
      /\ job' = [job EXCEPT ![q].phase = phase, ![q].next = next]
  BY DEF ReadVersion, At, Busy, Outcomes, NewKinds, docVars
<1>2. /\ NewDocOK(q) /\ NewFields \subseteq DOMAIN job[q] /\ job[q].file.size \in Nat
  BY <1>1 DEF DocInv, DocWorkOK, NewDocOK
<1>3. n \in Nat /\ \A id \in Documents : rows[id].name = job[q].file.name => rows[id].version < n
  BY NextVersionIsNew
<1> HIDE DEF n
<1>4. /\ DocRow(next) /\ next.size = job[q].file.size /\ next.key = job[q].key
      /\ next.name = job[q].file.name /\ next.version = n
  BY <1>2, <1>3 DEF Doc, DocRow, DocColumns
<1>5. IsLatest(next)
  BY <1>3, <1>4 DEF IsLatest
<1>6. phase = IF job[q].kind = "document_upload" THEN "bucket" ELSE "insert"
  OBVIOUS
<1> HIDE DEF next, phase
<1>7. job' = [job EXCEPT ![q] = j]
  BY <1>1, <1>2 DEF DocInv, RequestInv, NewFields, EditFields, JobFields
<1>8. /\ NewFields \subseteq DOMAIN j /\ j.kind = job[q].kind /\ j.phase = phase
      /\ j.next = next /\ j.file = job[q].file /\ j.key = job[q].key /\ j.then = job[q].then
  BY <1>2 DEF NewFields, EditFields, JobFields
<1> HIDE DEF j
<1>9. RequestInv' /\ Steps(q) /\ job'[q] = j
  BY <1>1, <1>7, <1>8, JobBecomes DEF DocInv, NewFields, EditFields
<1>10. /\ Documents' = Documents /\ SessionBytes' = SessionBytes
       /\ asked' \subseteq Documents /\ results' \subseteq Documents
  BY <1>1, NoDocumentMoves DEF DocInv, AskedExist
<1>11. PICK s : s = next
  OBVIOUS
<1>12. IsLatest(s)'
  BY <1>1, <1>5, <1>10, <1>11 DEF IsLatest
<1>13. /\ DocRow(s) /\ s.size = job[q].file.size /\ s.key = job[q].key
       /\ job'[q].next = s /\ job'[q].file = job[q].file /\ job'[q].key = job[q].key
       /\ job'[q].kind = job[q].kind /\ job'[q].phase = phase /\ job'[q].then = "publish"
       /\ NewFields \subseteq DOMAIN job'[q] /\ phase \in {"bucket", "insert"}
       /\ job[q].kind = "document_reprocess" => job[q].key \in objects
       /\ phase = "insert" => job[q].kind = "document_reprocess"
  BY <1>1, <1>2, <1>4, <1>6, <1>8, <1>9, <1>11 DEF NewDocOK, NewKinds
<1>14. job[q].kind = "document_upload" /\ alone[q] => SessionBytes + job[q].file.size <= MaxSessionSize
  BY <1>1, <1>2 DEF NewDocOK
<1>15. NewDocOK(q)'
  <2>1. IsLatest(job[q].next)'
    BY <1>12, <1>13 DEF IsLatest
  <2>2. DocRow(job[q].next)'
    BY <1>13 DEF DocRow
  <2>3. alone'[q] = alone[q] /\ objects' = objects /\ SessionBytes' = SessionBytes
    BY <1>1, <1>10
  <2> HIDE DEF phase
  <2> QED BY <1>2, <1>13, <1>14, <2>1, <2>2, <2>3 DEF NewDocOK, NewKinds
<1> QED BY <1>1, <1>9, <1>10, <1>13, <1>15, NewDocGoes

LEMMA NewDocWorks ==
  ASSUME DocInv, NEW q \in Requests, Busy(q), job[q].kind \in NewKinds, NEW phase, Goes(q, phase)
  PROVE  /\ NewDocOK(q) /\ RequestInv' /\ Steps(q) /\ UNCHANGED alone
         /\ job'[q].kind = job[q].kind /\ job'[q].phase = phase /\ NewFields \subseteq DOMAIN job'[q]
         /\ \A c \in NewFields \ {"phase"} : job'[q][c] = job[q][c]
<1>1. NewDocOK(q) /\ NewFields \subseteq DOMAIN job[q]
  BY DEF DocInv, DocWorkOK, NewDocOK
<1>2. Proceeds(q) /\ job'[q] = [job[q] EXCEPT !.phase = phase]
  BY GoesMeans DEF DocInv
<1>3. /\ job'[q].phase = phase /\ NewFields \subseteq DOMAIN job'[q]
      /\ \A c \in NewFields \ {"phase"} : job'[q][c] = job[q][c]
  BY <1>1, <1>2 DEF NewFields, EditFields, JobFields
<1>4. job'[q].kind = job[q].kind
  BY <1>3 DEF NewFields, EditFields, JobFields
<1>5. RequestInv' /\ Steps(q)
  BY <1>2, <1>4, ProceedsMeans DEF DocInv
<1> QED BY <1>1, <1>2, <1>3, <1>4, <1>5 DEF Proceeds

LEMMA NewDocEnds ==
  ASSUME DocInv, NEW q \in Requests, Busy(q), job[q].kind \in NewKinds,
         NEW phase \in Outcomes, Goes(q, phase), UNCHANGED <<rows, objects>>,
         asked' \subseteq Documents, results' \subseteq Documents
  PROVE  DocEffect(q)
<1>1. /\ RequestInv' /\ Steps(q) /\ job'[q].kind = job[q].kind /\ job'[q].phase = phase
  BY NewDocWorks
<1>2. job[q].kind \in DocKinds /\ job[q].kind # "document_delete"
  BY DEF NewKinds, DocKinds
<1> QED BY <1>1, <1>2, DocAnswers

LEMMA EnsureBucketStep ==
  ASSUME DocInv, NEW q \in Requests, EnsureBucket(q)
  PROVE  DocEffect(q)
<1>1. /\ job[q].kind \in NewKinds /\ job[q].phase = "bucket" /\ Busy(q)
      /\ UNCHANGED <<rows, objects, asked, results>>
      /\ asked' \subseteq Documents /\ results' \subseteq Documents
  BY DEF EnsureBucket, At, Busy, Outcomes, NewKinds, DocInv, AskedExist
<1>2. CASE BucketFails(q)
  <2>1. Fails(q) /\ job[q].kind \in DocKinds
    BY <1>1, <1>2 DEF BucketFails, NewKinds, DocKinds
  <2> QED BY <1>1, <2>1, DocFailed
<1>3. CASE BucketRefused(q)
  <2>1. Goes(q, "failed") /\ "failed" \in Outcomes
    BY <1>3 DEF BucketRefused, Goes, Outcomes
  <2> QED BY <1>1, <2>1, NewDocEnds
<1>4. CASE job[q].kind = "document_reprocess" /\ BucketReady(q, "ok")
  <2>1. Goes(q, "ok") /\ "ok" \in Outcomes
    BY <1>4 DEF BucketReady, Outcomes
  <2> QED BY <1>1, <2>1, NewDocEnds
<1>5. CASE job[q].kind = "document_upload" /\ BucketReady(q, "put")
  <2>1. Goes(q, "put")
    BY <1>5 DEF BucketReady
  <2>2. /\ NewDocOK(q) /\ RequestInv' /\ Steps(q) /\ UNCHANGED alone
        /\ job'[q].kind = job[q].kind /\ job'[q].phase = "put" /\ NewFields \subseteq DOMAIN job'[q]
        /\ \A c \in NewFields \ {"phase"} : job'[q][c] = job[q][c]
    BY <1>1, <2>1, NewDocWorks
  <2>3. /\ job'[q].file = job[q].file /\ job'[q].key = job[q].key /\ job'[q].next = job[q].next
        /\ job'[q].then = job[q].then
    BY <2>2 DEF NewFields, EditFields, JobFields
  <2>4. Documents' = Documents /\ SessionBytes' = SessionBytes
    BY <1>1, NoDocumentMoves
  <2>5. IsLatest(job[q].next) => IsLatest(job[q].next)'
    BY <1>1, <2>3, <2>4 DEF IsLatest
  <2>6. NewDocOK(q)'
    BY <1>1, <1>5, <2>2, <2>3, <2>4, <2>5 DEF NewDocOK, DocRow
  <2> QED BY <1>1, <2>2, <2>6, NewDocGoes
<1> QED BY <1>1, <1>2, <1>3, <1>4, <1>5 DEF EnsureBucket, NewKinds

LEMMA PutObjectStep ==
  ASSUME DocInv, NEW q \in Requests, PutObject(q)
  PROVE  DocEffect(q)
<1>1. /\ job[q].kind = "document_upload" /\ job[q].kind \in NewKinds
      /\ job[q].phase = "put" /\ Busy(q)
      /\ UNCHANGED <<rows, asked, results>> /\ objects' = objects \cup {job[q].key}
      /\ asked' \subseteq Documents /\ results' \subseteq Documents /\ Goes(q, "insert")
  BY DEF PutObject, At, Busy, Outcomes, NewKinds, DocInv, AskedExist
<1>2. /\ NewDocOK(q) /\ RequestInv' /\ Steps(q) /\ UNCHANGED alone
      /\ job'[q].kind = job[q].kind /\ job'[q].phase = "insert" /\ NewFields \subseteq DOMAIN job'[q]
      /\ \A c \in NewFields \ {"phase"} : job'[q][c] = job[q][c]
  BY <1>1, NewDocWorks
<1>3. /\ job'[q].file = job[q].file /\ job'[q].key = job[q].key /\ job'[q].next = job[q].next
      /\ job'[q].then = job[q].then
  BY <1>2 DEF NewFields, EditFields, JobFields
<1>4. Documents' = Documents /\ SessionBytes' = SessionBytes
  BY <1>1, NoDocumentMoves
<1>5. IsLatest(job[q].next) => IsLatest(job[q].next)'
  BY <1>1, <1>3, <1>4 DEF IsLatest
<1>6. job'[q].key \in objects'
  BY <1>1, <1>3
<1>7. NewDocOK(q)'
  BY <1>1, <1>2, <1>3, <1>4, <1>5, <1>6 DEF NewDocOK, DocRow
<1> QED BY <1>1, <1>2, <1>7, NewDocGoes

LEMMA PublishStep ==
  ASSUME DocInv, NEW q \in Requests, Publish(q)
  PROVE  DocEffect(q)
<1>1. /\ job[q].kind \in NewKinds /\ job[q].phase = "publish" /\ Busy(q)
      /\ UNCHANGED <<rows, objects, results>> /\ asked' = asked \cup {job[q].row}
      /\ Goes(q, IF job[q].kind = "document_upload" THEN "ok" ELSE "bucket")
  BY DEF Publish, At, Busy, Outcomes, NewKinds
<1>2. NewDocOK(q) /\ job[q].row \in Documents
  BY <1>1 DEF DocInv, DocWorkOK, NewDocOK
<1>3. asked' \subseteq Documents /\ results' \subseteq Documents
  BY <1>1, <1>2 DEF DocInv, AskedExist
<1>4. CASE job[q].kind = "document_upload"
  <2>1. Goes(q, "ok") /\ "ok" \in Outcomes
    BY <1>1, <1>4 DEF Outcomes
  <2> QED BY <1>1, <1>3, <2>1, NewDocEnds
<1>5. CASE job[q].kind = "document_reprocess"
  <2>1. Goes(q, "bucket")
    BY <1>1, <1>5
  <2>2. /\ RequestInv' /\ Steps(q) /\ job'[q].kind = job[q].kind /\ job'[q].phase = "bucket"
        /\ NewFields \subseteq DOMAIN job'[q]
        /\ \A c \in NewFields \ {"phase"} : job'[q][c] = job[q][c]
    BY <1>1, <2>1, NewDocWorks
  <2>3. job'[q].file = job[q].file /\ job'[q].key = job[q].key /\ job'[q].then = job[q].then
    BY <2>2 DEF NewFields, EditFields, JobFields
  <2>4. NewDocOK(q)'
    BY <1>1, <1>2, <1>5, <2>2, <2>3 DEF NewDocOK
  <2> QED BY <1>1, <1>3, <2>2, <2>4, NewDocGoes
<1> QED BY <1>1, <1>4, <1>5 DEF NewKinds

-------------------------------------------------------------------------------
(* Edits of a document: deletions, texts and results. *)

LEMMA DocEdited ==
  ASSUME DocInv, NEW q \in Requests, UNCHANGED <<rows, objects, asked>>,
         results' \subseteq Documents,
         NEW kind \in DocKinds \ NewKinds, NEW id \in Documents, NEW allowed,
         allowed => rows[id].deleted # TRUE, NEW next, DocRow(next), SameDocument(next, rows[id]),
         NEW then \in {"ok", "audit", "ack"},
         kind = "document_delete" => then = "ok" /\ next.deleted = TRUE,
         Edits(q, kind, NoProcess, id, allowed, next, then)
  PROVE  DocEffect(q)
<1> DEFINE j == Copy(kind, NoProcess, id, next, then)
<1>1. /\ EditFields \subseteq DOMAIN j /\ j.kind = kind /\ j.then = then /\ j.next = next
      /\ j.phase = "diff" /\ j.row = id
  BY DEF Copy, EditFields, JobFields
<1>2. (Begins(q, j) /\ allowed) \/ Begins(q, Answered(kind, "refused"))
  BY DEF Edits
<1>3. asked' \subseteq Documents
  BY DEF DocInv, AskedExist
<1>4. CASE Begins(q, Answered(kind, "refused"))
  <2> HIDE DEF j
  <2> QED BY <1>3, <1>4, DocRefused
<1>5. CASE Begins(q, j) /\ allowed
  <2> HIDE DEF j
  <2>1. RequestInv' /\ Steps(q) /\ job'[q] = j
    BY <1>1, <1>5, BeginsMeans DEF DocInv, EditFields
  <2>2. Documents' = Documents
    BY <1>3, NoDocumentMoves
  <2>3. DocCopyOK(q)'
    BY <1>1, <2>1, <2>2 DEF DocCopyOK
  <2>4. DocWorkOK(q)'
    BY <1>1, <2>1, <2>3 DEF DocWorkOK
  <2>5. DeletedStays(q)'
    BY <1>1, <2>1 DEF DeletedStays, HasWritten
  <2>6. \A x \in Documents : CopiesDoc(q, x)' => rows[x].deleted # TRUE
    BY <1>1, <1>5, <2>1 DEF CopiesDoc
  <2>7. job'[q].kind \in DocKinds
    BY <1>1, <2>1
  <2> QED BY <1>3, <2>1, <2>4, <2>5, <2>6, <2>7, DocRequestMoves
<1> QED BY <1>2, <1>4, <1>5

LEMMA EditedDocument ==
  ASSUME NEW r, DocRow(r), NEW x
  PROVE  /\ LET w == [r EXCEPT !.deleted = TRUE]
            IN DocRow(w) /\ SameDocument(w, r) /\ w.deleted = TRUE
         /\ LET w == [r EXCEPT !.text = x] IN DocRow(w) /\ SameDocument(w, r)
<1>1. r = [c \in DocColumns |-> r[c]] /\ r.size \in Nat /\ r.version \in Nat
  BY DEF DocRow
<1>2. LET w == [r EXCEPT !.deleted = TRUE]
      IN DocRow(w) /\ SameDocument(w, r) /\ w.deleted = TRUE
  BY <1>1 DEF DocRow, DocColumns, SameDocument
<1>3. LET w == [r EXCEPT !.text = x] IN DocRow(w) /\ SameDocument(w, r)
  BY <1>1 DEF DocRow, DocColumns, SameDocument
<1> QED BY <1>2, <1>3

LEMMA EditDocumentStep ==
  ASSUME DocInv, NEW q \in Requests, SoftDeleteDocument(q) \/ UpdateText(q) \/ HandleResult(q)
  PROVE  DocEffect(q)
<1>1. \A id \in Documents : DocRow(rows[id])
  BY DEF DocInv, DocTable
<1>2. results \subseteq Documents
  BY DEF DocInv, AskedExist
<1>3. CASE SoftDeleteDocument(q)
  <2>1. PICK id \in Documents :
          Edits(q, "document_delete", NoProcess, id, Active(id), [rows[id] EXCEPT !.deleted = TRUE], "ok")
    BY <1>3 DEF SoftDeleteDocument
  <2>2. PICK next, allowed : next = [rows[id] EXCEPT !.deleted = TRUE] /\ (allowed <=> Active(id))
    OBVIOUS
  <2>3. DocRow(next) /\ SameDocument(next, rows[id]) /\ next.deleted = TRUE
    BY <1>1, <2>2, EditedDocument
  <2>4. Edits(q, "document_delete", NoProcess, id, allowed, next, "ok")
    BY <2>1, <2>2 DEF Edits
  <2>5. allowed => rows[id].deleted # TRUE
    BY <2>2 DEF Active
  <2>6. UNCHANGED <<rows, objects, asked>> /\ results' \subseteq Documents
    BY <1>2, <1>3 DEF SoftDeleteDocument, docVars
  <2>7. "document_delete" \in DocKinds \ NewKinds
    BY DEF DocKinds, NewKinds
  <2> QED BY <2>3, <2>4, <2>5, <2>6, <2>7, DocEdited
<1>4. CASE UpdateText(q)
  <2>1. PICK id \in Documents :
          Edits(q, "document_text", NoProcess, id, Active(id), [rows[id] EXCEPT !.text = {UserText}], "audit")
    BY <1>4 DEF UpdateText
  <2>2. PICK next, allowed : next = [rows[id] EXCEPT !.text = {UserText}] /\ (allowed <=> Active(id))
    OBVIOUS
  <2>3. DocRow(next) /\ SameDocument(next, rows[id])
    BY <1>1, <2>2, EditedDocument
  <2>4. Edits(q, "document_text", NoProcess, id, allowed, next, "audit")
    BY <2>1, <2>2 DEF Edits
  <2>5. allowed => rows[id].deleted # TRUE
    BY <2>2 DEF Active
  <2>6. UNCHANGED <<rows, objects, asked>> /\ results' \subseteq Documents
    BY <1>2, <1>4 DEF UpdateText, docVars
  <2>7. "document_text" \in DocKinds \ NewKinds
    BY DEF DocKinds, NewKinds
  <2> QED BY <2>3, <2>4, <2>5, <2>6, <2>7, DocEdited
<1>5. CASE HandleResult(q)
  <2>1. PICK id \in results :
          Delivered(q, id, rows[id].deleted \/ rows[id].archived, [rows[id] EXCEPT !.text = {"extracted"}])
    BY <1>5 DEF HandleResult
  <2>2. PICK next, allowed : /\ next = [rows[id] EXCEPT !.text = {"extracted"}]
                             /\ allowed <=> ~(rows[id].deleted \/ rows[id].archived)
    OBVIOUS
  <2>3. id \in Documents
    BY <1>2
  <2>4. DocRow(next) /\ SameDocument(next, rows[id])
    BY <1>1, <2>2, <2>3, EditedDocument
  <2>5. Edits(q, "document_result", NoProcess, id, allowed, next, "ack")
    BY <2>1, <2>2 DEF Delivered, Edits
  <2>6. allowed => rows[id].deleted # TRUE
    BY <2>2
  <2>7. UNCHANGED <<rows, objects, asked>> /\ results' \subseteq Documents
    BY <1>2, <2>1 DEF Delivered
  <2>8. "document_result" \in DocKinds \ NewKinds
    BY DEF DocKinds, NewKinds
  <2> QED BY <2>3, <2>4, <2>5, <2>6, <2>7, <2>8, DocEdited
<1> QED BY <1>3, <1>4, <1>5

\* The end of an edit that is no deletion.
LEMMA EndDocumentStep ==
  ASSUME DocInv, NEW q \in Requests,
         AckResult(q) \/ (AuditedRow(q, DocKinds) /\ UNCHANGED docVars)
  PROVE  DocEffect(q)
<1>1. /\ job[q].kind \in DocKinds /\ job[q].phase \in {"ack", "audit"} /\ Busy(q)
      /\ Goes(q, "ok") /\ UNCHANGED <<rows, objects, asked>> /\ results' \subseteq results
  BY DEF AckResult, AuditedRow, At, Busy, Outcomes, docVars, DocKinds
<1>2. asked' \subseteq Documents /\ results' \subseteq Documents
  BY <1>1 DEF DocInv, AskedExist
<1>3. job[q].kind \notin NewKinds
  BY <1>1 DEF DocInv, DocWorkOK, NewDocOK
<1>4. DocCopyOK(q) /\ JobFields \subseteq DOMAIN job[q]
  BY <1>1, <1>3 DEF DocInv, DocWorkOK, DocCopyOK, EditFields
<1>5. job[q].kind # "document_delete"
  BY <1>1, <1>4 DEF DocCopyOK
<1>6. Proceeds(q) /\ job'[q] = [job[q] EXCEPT !.phase = "ok"]
  BY <1>1, GoesMeans DEF DocInv
<1>7. job'[q].kind = job[q].kind /\ job'[q].phase = "ok" /\ "ok" \in Outcomes
  BY <1>4, <1>6 DEF JobFields, Outcomes
<1>8. RequestInv' /\ Steps(q)
  BY <1>6, <1>7, ProceedsMeans DEF DocInv
<1> QED BY <1>1, <1>2, <1>5, <1>7, <1>8, DocAnswers

-------------------------------------------------------------------------------
(* save() of a document. *)

LEMMA DiffDocument ==
  ASSUME DocInv, NEW q \in Requests, DiffRow(q, DocKinds), UNCHANGED docVars
  PROVE  DocEffect(q)
<1> DEFINE dirty == Differing(job[q].next, rows[job[q].row])
           j == [job[q] EXCEPT !.phase = "write", !.dirty = dirty]
<1>1. /\ job[q].kind \in DocKinds /\ job[q].phase = "diff" /\ Busy(q)
      /\ UNCHANGED <<alone, rows, objects, asked, results>>
      /\ job' = [job EXCEPT ![q].phase = "write", ![q].dirty = dirty]
  BY DEF DiffRow, At, Busy, Outcomes, docVars
<1> HIDE DEF dirty
<1>2. job[q].kind \notin NewKinds
  BY <1>1 DEF DocInv, DocWorkOK, NewDocOK
<1>3. DocCopyOK(q) /\ EditFields \subseteq DOMAIN job[q]
  BY <1>1, <1>2 DEF DocInv, DocWorkOK, DocCopyOK
<1>4. job' = [job EXCEPT ![q] = j]
  BY <1>1, <1>3 DEF DocInv, RequestInv, EditFields, JobFields
<1>5. /\ EditFields \subseteq DOMAIN j /\ j.kind = job[q].kind /\ j.phase = "write"
      /\ j.dirty = dirty /\ j.row = job[q].row /\ j.next = job[q].next /\ j.then = job[q].then
  BY <1>3 DEF EditFields, JobFields
<1> HIDE DEF j
<1>6. RequestInv' /\ Steps(q) /\ job'[q] = j
  BY <1>1, <1>4, <1>5, JobBecomes DEF DocInv, EditFields
<1>7. /\ Documents' = Documents /\ asked' \subseteq Documents /\ results' \subseteq Documents
  BY <1>1, NoDocumentMoves DEF DocInv, AskedExist
<1>8. PICK next, id : next = job[q].next /\ id = job[q].row
  OBVIOUS
<1>9. DocCopyOK(q)'
  <2>1. /\ job'[q].next = next /\ job'[q].row = id /\ job'[q].phase = "write"
        /\ job'[q].kind = job[q].kind /\ job'[q].then = job[q].then
        /\ job'[q].dirty = dirty /\ EditFields \subseteq DOMAIN job'[q]
    BY <1>5, <1>6, <1>8
  <2>2. id \in Documents /\ DocRow(next) /\ SameDocument(next, rows[id])
    BY <1>1, <1>3, <1>8 DEF DocCopyOK
  <2>3. rows'[id] = rows[id] /\ id \in Documents'
    BY <1>1, <1>7, <2>2
  <2>4. DocRow(job[q].next)'
    BY <2>1, <2>2 DEF DocRow
  <2>5. SameDocument(job[q].next, rows[job[q].row])'
    BY <2>1, <2>2, <2>3 DEF SameDocument
  <2>6. (job[q].dirty = Differing(job[q].next, rows[job[q].row]))'
    BY <1>1, <1>8, <2>1 DEF dirty
  <2>7. /\ job[q].then \in {"ok", "audit", "ack"}
        /\ job[q].kind = "document_delete" => job[q].then = "ok" /\ next.deleted = TRUE
    BY <1>3, <1>8 DEF DocCopyOK
  <2> QED BY <2>1, <2>3, <2>4, <2>5, <2>6, <2>7 DEF DocCopyOK
<1>10. DocWorkOK(q)' /\ DeletedStays(q)'
  BY <1>2, <1>5, <1>6, <1>9 DEF DocWorkOK, DeletedStays, HasWritten
<1>11. \A x : CopiesDoc(q, x)' => CopiesDoc(q, x)
  BY <1>1, <1>5, <1>6 DEF CopiesDoc
<1> QED BY <1>1, <1>5, <1>6, <1>7, <1>10, <1>11, DocRequestMoves

LEMMA DocRowsAreRows ==
  ASSUME NEW r, DocRow(r)
  PROVE  r # NoRow /\ DOMAIN r = DocColumns
<1>1. DOMAIN NoRow = {"status"}
  BY DEF NoRow
<1>2. DOMAIN r = DocColumns /\ "size" \in DocColumns
  BY DEF DocRow, DocColumns
<1> QED BY <1>1, <1>2

\* An UPDATE changes neither name, size, version nor key, and leaves a document deleted
\* unless its copy says otherwise.
LEMMA WrittenDocument ==
  ASSUME NEW r, NEW next, DocRow(r), DocRow(next), SameDocument(next, r), NEW dirty
  PROVE  /\ DocRow(Written(r, next, dirty)) /\ SameDocument(Written(r, next, dirty), r)
         /\ dirty = Differing(next, r) => Written(r, next, dirty).deleted = next.deleted
<1> DEFINE w == Written(r, next, dirty)
<1>1. /\ DOMAIN r = DocColumns
      /\ {"name", "size", "version", "key", "deleted"} \subseteq DocColumns
  BY DocRowsAreRows DEF DocColumns
<1>2. w = [c \in DocColumns |-> IF c \in dirty THEN next[c] ELSE r[c]]
  BY <1>1 DEF Written
<1>3. w.deleted = IF "deleted" \in dirty THEN next.deleted ELSE r.deleted
  BY <1>1, <1>2
<1>4. dirty = Differing(next, r) => ("deleted" \in dirty <=> next.deleted # r.deleted)
  BY <1>1 DEF Differing
<1>5. /\ w.name = r.name /\ w.size = r.size /\ w.version = r.version /\ w.key = r.key
  BY <1>1, <1>2 DEF SameDocument
<1>6. w = [c \in DocColumns |-> w[c]]
  BY <1>2
<1> HIDE DEF w
<1>7. DocRow(w)
  BY <1>5, <1>6 DEF DocRow
<1>8. SameDocument(w, r)
  BY <1>5 DEF SameDocument
<1>9. dirty = Differing(next, r) => w.deleted = next.deleted
  BY <1>3, <1>4
<1> QED BY <1>7, <1>8, <1>9 DEF w

\* One row is inserted or updated.
LEMMA OneDocumentMoves ==
  ASSUME DocInv, NEW u \in DOMAIN rows, u[1] = "document", NEW r, DocRow(r),
         rows' = [rows EXCEPT ![u] = r]
  PROVE  /\ DocTable' /\ Documents' = Documents \cup {u}
         /\ rows'[u] = r /\ \A id \in DOMAIN rows \ {u} : rows'[id] = rows[id]
<1>1. rows = [id \in DOMAIN rows |-> rows[id]]
  BY DEF DocInv, DocTable
<1>2. DOMAIN rows' = DOMAIN rows /\ rows'[u] = r /\ \A id \in DOMAIN rows \ {u} : rows'[id] = rows[id]
  BY <1>1
<1>3. rows' = [id \in DOMAIN rows' |-> rows'[id]]
  BY <1>1
<1>4. r # NoRow
  BY DocRowsAreRows
<1>5. Documents' = Documents \cup {u}
  BY <1>2, <1>4 DEF Documents, Existing, Ids, Has
<1>6. \A id \in Documents : id \in DOMAIN rows
  BY DEF Documents, Existing, Ids
<1>7. \A id \in Documents' : DocRow(rows'[id])
  BY <1>2, <1>5, <1>6 DEF DocInv, DocTable
<1>8. \E b \in Nat : \A id \in Documents' : rows'[id].version <= b
  <2>1. PICK b \in Nat : \A id \in Documents : rows[id].version <= b
    BY DEF DocInv, DocTable
  <2>2. r.version \in Nat /\ \A id \in Documents : rows[id].version \in Nat
    BY DEF DocInv, DocTable, DocRow
  <2>3. PICK c \in Nat : b <= c /\ r.version <= c
    BY <2>2
  <2>4. \A id \in Documents' : rows'[id].version <= c
    BY <1>2, <1>5, <1>6, <2>1, <2>2, <2>3
  <2> QED BY <2>4
<1>9. IsFiniteSet(DOMAIN rows') /\ \A id \in DOMAIN rows' : id[2] \in Nat
  BY <1>2 DEF DocInv, DocTable
<1> QED BY <1>2, <1>3, <1>5, <1>7, <1>8, <1>9 DEF DocTable

LEMMA InsertDocument ==
  ASSUME DocInv, NEW q \in Requests, InsertRow(q, DocKinds, "document"), UNCHANGED docVars
  PROVE  DocEffect(q)
<1> DEFINE u == FirstFree("document")
           j == [job[q] EXCEPT !.phase = job[q].then, !.row = u]
<1>1. /\ job[q].kind \in DocKinds /\ job[q].phase = "insert" /\ Busy(q)
      /\ Free("document") # {} /\ UNCHANGED <<alone, objects, asked, results>>
      /\ rows' = [rows EXCEPT ![u] = job[q].next]
      /\ job' = [job EXCEPT ![q].phase = job[q].then, ![q].row = u]
  BY DEF InsertRow, At, Busy, Outcomes, docVars
<1>2. u \in DOMAIN rows /\ u[1] = "document" /\ rows[u] = NoRow
  <2>1. \A id \in DOMAIN rows : id[2] \in Nat
    BY DEF DocInv, DocTable
  <2> QED BY <1>1, <2>1, FirstFreeIsFree
<1>3. job[q].kind \in NewKinds
  BY <1>1 DEF DocInv, DocWorkOK, DocCopyOK
<1>4. NewDocOK(q) /\ NewFields \subseteq DOMAIN job[q] /\ job[q].then = "publish"
  BY <1>1, <1>3 DEF DocInv, DocWorkOK, NewDocOK
<1>5. PICK next : next = job[q].next
  OBVIOUS
<1>6. /\ DocRow(next) /\ next.size = job[q].file.size /\ next.key = job[q].key
      /\ job[q].key \in objects /\ job[q].file.size \in Nat
      /\ job[q].kind = "document_upload" /\ alone[q] => SessionBytes + job[q].file.size <= MaxSessionSize
      /\ alone[q] => IsLatest(next)
  BY <1>1, <1>4, <1>5 DEF NewDocOK
<1> HIDE DEF u
<1>7. u \notin Documents
  BY <1>2 DEF Documents, Existing, Has
<1>8. job' = [job EXCEPT ![q] = j]
  BY <1>1, <1>4 DEF DocInv, RequestInv, NewFields, EditFields, JobFields
<1>9. /\ NewFields \subseteq DOMAIN j /\ j.kind = job[q].kind /\ j.phase = "publish" /\ j.row = u
      /\ j.file = job[q].file /\ j.key = job[q].key /\ j.then = "publish"
  BY <1>4 DEF NewFields, EditFields, JobFields
<1> HIDE DEF j
<1>10. RequestInv' /\ Steps(q) /\ job'[q] = j
  BY <1>1, <1>8, <1>9, JobBecomes DEF DocInv, NewFields, EditFields
<1>11. /\ DocTable' /\ Documents' = Documents \cup {u} /\ rows'[u] = next
       /\ \A id \in DOMAIN rows \ {u} : rows'[id] = rows[id]
  BY <1>1, <1>2, <1>5, <1>6, OneDocumentMoves
<1>12. \A id \in Documents : rows'[id] = rows[id]
  BY <1>7, <1>11 DEF Documents, Existing, Ids
<1>13. SessionBytes' = SessionBytes + next.size
  <2>1. \A id \in Documents : rows'[id].size = rows[id].size
    BY <1>12
  <2>2. rows'[u].size \in Nat
    BY <1>6, <1>11
  <2> QED BY <1>7, <1>11, <2>1, <2>2, NewBytes
<1>14. ObjectsThere' /\ AskedExist'
  BY <1>1, <1>6, <1>11, <1>12 DEF DocInv, ObjectsThere, AskedExist
<1>15. LimitKept'
  <2>1. Raced({"document_upload"}) => Raced({"document_upload"})'
    BY <1>10, RacedStays
  <2>2. (\E x \in Requests : job[x].kind = "document_reprocess")
          => \E x \in Requests : job'[x].kind = "document_reprocess"
    BY <1>10 DEF Steps, OthersStay
  <2>3. ASSUME ~Raced({"document_upload"}), ~\E x \in Requests : job[x].kind = "document_reprocess"
        PROVE  SessionBytes' <= MaxSessionSize
    <3>1. job[q].kind = "document_upload"
      BY <1>3, <2>3 DEF NewKinds
    <3>2. alone[q]
      BY <2>3, <3>1 DEF Raced
    <3> QED BY <1>6, <1>13, <3>1, <3>2
  <2> QED BY <2>1, <2>2, <2>3 DEF LimitKept
<1>16. VersionsOfDocsDiffer'
  <2>1. Raced(NewKinds) => Raced(NewKinds)'
    BY <1>10, RacedStays DEF NewKinds
  <2>2. ASSUME ~Raced(NewKinds)
        PROVE  \A x, y \in Documents' :
                 x # y /\ rows'[x].name = rows'[y].name => rows'[x].version # rows'[y].version
    <3>1. IsLatest(next)
      BY <1>3, <1>6, <2>2 DEF Raced
    <3>2. \A x \in Documents : rows[x].name = next.name => rows[x].version < next.version
      BY <3>1 DEF IsLatest
    <3>3. next.version \in Nat /\ \A x \in Documents : rows[x].version \in Nat
      BY <1>6 DEF DocRow, DocInv, DocTable
    <3>4. \A x, y \in Documents : x # y /\ rows[x].name = rows[y].name => rows[x].version # rows[y].version
      BY <2>2 DEF DocInv, VersionsOfDocsDiffer, NewKinds
    <3>5. \A x \in Documents : rows[x].name = next.name => rows[x].version # next.version
      BY <3>2, <3>3
    <3> QED BY <1>11, <1>12, <3>4, <3>5
  <2> QED BY <2>1, <2>2 DEF VersionsOfDocsDiffer, NewKinds
<1>17. NewDocOK(q)'
  <2>1. /\ NewFields \subseteq DOMAIN job'[q] /\ job'[q].phase = "publish" /\ job'[q].then = "publish"
        /\ job'[q].kind = job[q].kind /\ job'[q].file = job[q].file /\ job'[q].key = job[q].key
        /\ job'[q].row = u
    BY <1>9, <1>10
  <2>2. u \in Documents' /\ job[q].key \in objects' /\ job[q].file.size \in Nat
    BY <1>1, <1>6, <1>11
  <2> QED BY <2>1, <2>2 DEF NewDocOK
<1>18. DocWorkOK(q)'
  BY <1>3, <1>9, <1>10, <1>17 DEF DocWorkOK
<1>19. DeletedStays(q)' /\ \A id : ~CopiesDoc(q, id)'
  BY <1>3, <1>9, <1>10 DEF DeletedStays, HasWritten, CopiesDoc, NewKinds
<1>20. \A id \in Documents : /\ id \in Documents' /\ SameDocument(rows'[id], rows[id])
                             /\ rows[id].deleted = TRUE => rows'[id].deleted = TRUE
  BY <1>11, <1>12 DEF SameDocument
<1>21. objects \subseteq objects' /\ job'[q].kind \in DocKinds
  BY <1>1, <1>9, <1>10
<1> QED BY <1>10, <1>11, <1>14, <1>15, <1>16, <1>18, <1>19, <1>20, <1>21 DEF DocEffect

LEMMA WriteDocument ==
  ASSUME DocInv, NEW q \in Requests, WriteRow(q, DocKinds), UNCHANGED docVars
  PROVE  DocEffect(q)
<1> DEFINE u == job[q].row
           w == Written(rows[u], job[q].next, job[q].dirty)
<1>1. /\ job[q].kind \in DocKinds /\ job[q].phase = "write" /\ Busy(q)
      /\ UNCHANGED <<objects, asked, results>>
      /\ rows' = [rows EXCEPT ![u] = w] /\ Goes(q, job[q].then)
  BY DEF WriteRow, At, Busy, Outcomes, docVars
<1>2. job[q].kind \notin NewKinds
  BY <1>1 DEF DocInv, DocWorkOK, NewDocOK
<1>3. DocCopyOK(q) /\ EditFields \subseteq DOMAIN job[q]
  BY <1>1, <1>2 DEF DocInv, DocWorkOK, DocCopyOK
<1>4. PICK r, next, dirty : r = rows[u] /\ next = job[q].next /\ dirty = job[q].dirty
  OBVIOUS
<1>5. /\ u \in Documents /\ DocRow(next) /\ SameDocument(next, r)
      /\ alone[q] => dirty = Differing(next, r)
      /\ job[q].then \in {"ok", "audit", "ack"}
      /\ job[q].kind = "document_delete" => job[q].then = "ok" /\ next.deleted = TRUE
  BY <1>1, <1>3, <1>4 DEF DocCopyOK
<1>6. DocRow(r) /\ u \in DOMAIN rows /\ u[1] = "document"
  BY <1>4, <1>5 DEF DocInv, DocTable, Documents, Existing, Ids
<1>7. PICK new : new = Written(r, next, dirty)
  OBVIOUS
<1>8. /\ DocRow(new) /\ SameDocument(new, r)
      /\ dirty = Differing(next, r) => new.deleted = next.deleted
  <2>1. DocRow(Written(r, next, dirty))
    BY <1>5, <1>6, WrittenDocument
  <2>2. SameDocument(Written(r, next, dirty), r)
    BY <1>5, <1>6, WrittenDocument
  <2>3. dirty = Differing(next, r) => Written(r, next, dirty).deleted = next.deleted
    BY <1>5, <1>6, WrittenDocument
  <2> QED BY <1>7, <2>1, <2>2, <2>3
<1>9. rows' = [rows EXCEPT ![u] = new]
  BY <1>1, <1>4, <1>7
<1>10. Proceeds(q) /\ job'[q] = [job[q] EXCEPT !.phase = job[q].then]
  BY <1>1, GoesMeans DEF DocInv
<1>11. /\ EditFields \subseteq DOMAIN job'[q] /\ job'[q].kind = job[q].kind
       /\ job'[q].phase = job[q].then /\ job'[q].row = u /\ job'[q].next = next
       /\ job'[q].then = job[q].then
  BY <1>3, <1>4, <1>10 DEF EditFields, JobFields
<1>12. RequestInv' /\ Steps(q)
  BY <1>10, <1>11, ProceedsMeans DEF DocInv
<1> HIDE DEF u, w
<1>13. /\ DocTable' /\ Documents' = Documents \cup {u} /\ rows'[u] = new
       /\ \A id \in DOMAIN rows \ {u} : rows'[id] = rows[id]
  BY <1>6, <1>8, <1>9, OneDocumentMoves
<1>14. /\ Documents' = Documents /\ \A id \in Documents : id \in DOMAIN rows
  BY <1>5, <1>13 DEF Documents, Existing, Ids
<1>15. \A id \in Documents : SameDocument(rows'[id], rows[id])
  BY <1>4, <1>8, <1>13, <1>14 DEF SameDocument
<1>16. ObjectsThere' /\ AskedExist'
  BY <1>1, <1>14, <1>15 DEF DocInv, ObjectsThere, AskedExist, SameDocument
<1>17. SessionBytes' = SessionBytes
  <2>1. \A id \in Documents : rows'[id].size = rows[id].size
    BY <1>15 DEF SameDocument
  <2> QED BY <1>14, <2>1, SameBytes
<1>18. LimitKept'
  BY <1>12, <1>17, LimitStays
<1>19. VersionsOfDocsDiffer'
  BY <1>12, <1>14, <1>15, VersionsStay
<1>20. DocWorkOK(q)'
  <2>1. job'[q].kind \notin NewKinds
    BY <1>2, <1>11
  <2>2. Busy(q)' => job[q].then \in {"audit", "ack"}
    <3>1. job'[q].phase \in {"ok", "audit", "ack"} /\ job'[q].phase = job[q].then
      BY <1>5, <1>11
    <3> QED BY <3>1 DEF Busy, Outcomes
  <2> QED BY <1>5, <1>11, <2>1, <2>2 DEF DocWorkOK, DocCopyOK
<1>21. DeletedStays(q)'
  <2> SUFFICES ASSUME job[q].kind = "document_delete", alone[q] PROVE DeletedStays(q)'
    BY <1>10, <1>11 DEF DeletedStays, HasWritten, Proceeds
  <2>1. next.deleted = TRUE /\ new.deleted = TRUE
    BY <1>5, <1>8
  <2>2. \A x \in Requests \ {q} : ~Busy(x)
    BY <1>1 DEF DocInv, RequestInv, Solitude
  <2>3. \A x \in Requests \ {q} : job'[x].phase \notin {"diff", "write"}
    BY <2>2, <1>10 DEF Busy, Outcomes, Proceeds, OthersStay
  <2> QED BY <1>5, <1>11, <1>13, <1>14, <2>1, <2>3 DEF DeletedStays
<1>22. \A id : ~CopiesDoc(q, id)'
  BY <1>5, <1>11 DEF CopiesDoc
<1>23. \A id \in Documents : rows[id].deleted = TRUE => rows'[id].deleted = TRUE \/ CopiesDoc(q, id)
  <2> TAKE id \in Documents
  <2>1. CASE id = u
    BY <1>1, <1>2, <2>1 DEF CopiesDoc, u
  <2>2. CASE id # u
    BY <1>13, <1>14, <2>2
  <2> QED BY <2>1, <2>2
<1>24. objects \subseteq objects' /\ job'[q].kind \in DocKinds
  BY <1>1, <1>11
<1> QED BY <1>12, <1>13, <1>14, <1>15, <1>16, <1>18, <1>19, <1>20, <1>21, <1>22, <1>23, <1>24 DEF DocEffect

-------------------------------------------------------------------------------
(* The session, the worker and the processes. *)

LEMMA ArchivedDocument ==
  ASSUME NEW r, DocRow(r), NEW w, w = [r EXCEPT !.archived = TRUE]
  PROVE  DocRow(w) /\ SameDocument(w, r) /\ w.deleted = r.deleted
<1>1. r = [c \in DocColumns |-> r[c]] /\ r.size \in Nat /\ r.version \in Nat
  BY DEF DocRow
<1> QED BY <1>1 DEF DocRow, DocColumns, SameDocument

LEMMA ArchiveSessionStep ==
  ASSUME DocInv, NEW q \in Requests, ArchiveSession(q)
  PROVE  DocEffect(q)
<1>1. /\ UNCHANGED <<objects, asked, results>> /\ Begins(q, Answered("session_archive", "ok"))
      /\ rows' = [id \in DOMAIN rows |-> IF id \in Documents THEN [rows[id] EXCEPT !.archived = TRUE]
                                         ELSE rows[id]]
  BY DEF ArchiveSession, docVars
<1>2. /\ Answered("session_archive", "ok").kind = "session_archive"
      /\ Answered("session_archive", "ok").phase = "ok"
  BY DEF Answered, NoJob
<1>3. RequestInv' /\ Steps(q) /\ job'[q] = Answered("session_archive", "ok")
  BY <1>1, AnsweredFields, BeginsMeans DEF DocInv
<1>4. job'[q].kind = "session_archive" /\ job'[q].phase = "ok"
  BY <1>2, <1>3
<1>5. \A id \in Documents : id \in DOMAIN rows /\ DocRow(rows[id])
  BY DEF DocInv, DocTable, Documents, Existing, Ids
<1>6. /\ DOMAIN rows' = DOMAIN rows /\ rows' = [id \in DOMAIN rows' |-> rows'[id]]
      /\ \A id \in Documents : rows'[id] = [rows[id] EXCEPT !.archived = TRUE]
      /\ \A id \in DOMAIN rows \ Documents : rows'[id] = rows[id]
  BY <1>1, <1>5
<1>7. ASSUME NEW id \in Documents
      PROVE  /\ DocRow(rows'[id]) /\ SameDocument(rows'[id], rows[id])
             /\ rows'[id].deleted = rows[id].deleted /\ rows'[id] # NoRow
  <2>1. PICK r, w : r = rows[id] /\ w = rows'[id]
    OBVIOUS
  <2>2. DocRow(r) /\ w = [r EXCEPT !.archived = TRUE]
    BY <1>5, <1>6, <2>1
  <2>3. DocRow(w) /\ SameDocument(w, r) /\ w.deleted = r.deleted
    BY <2>2, ArchivedDocument
  <2>4. w # NoRow
    BY <2>3, DocRowsAreRows
  <2> QED BY <2>1, <2>3, <2>4
<1>8. Documents' = Documents
  BY <1>6, <1>7 DEF Documents, Existing, Ids, Has
<1>9. DocTable'
  <2>1. \E b \in Nat : \A id \in Documents' : rows'[id].version <= b
    <3>1. PICK b \in Nat : \A id \in Documents : rows[id].version <= b
      BY DEF DocInv, DocTable
    <3>2. \A id \in Documents' : rows'[id].version <= b
      BY <1>7, <1>8, <3>1 DEF SameDocument
    <3> QED BY <3>2
  <2>2. \A id \in Documents' : DocRow(rows'[id])
    BY <1>7, <1>8
  <2>3. IsFiniteSet(DOMAIN rows') /\ \A id \in DOMAIN rows' : id[2] \in Nat
    BY <1>6 DEF DocInv, DocTable
  <2> QED BY <1>6, <2>1, <2>2, <2>3 DEF DocTable
<1>10. ObjectsThere' /\ AskedExist'
  <2>1. \A id \in Documents : rows'[id].key = rows[id].key
    BY <1>7 DEF SameDocument
  <2>2. \A id \in Documents' : rows'[id].key \in objects'
    BY <1>1, <1>8, <2>1 DEF DocInv, ObjectsThere
  <2>3. asked' \subseteq Documents' /\ results' \subseteq Documents'
    BY <1>1, <1>8 DEF DocInv, AskedExist
  <2> QED BY <2>2, <2>3 DEF ObjectsThere, AskedExist
<1>11. SessionBytes' = SessionBytes
  <2>1. \A id \in Documents : rows'[id].size = rows[id].size
    BY <1>7 DEF SameDocument
  <2> QED BY <1>8, <2>1, SameBytes
<1>12. LimitKept'
  BY <1>3, <1>11, LimitStays
<1>13. VersionsOfDocsDiffer'
  BY <1>3, <1>7, <1>8, VersionsStay
<1>14. DocWorkOK(q)' /\ DeletedStays(q)' /\ \A id : ~CopiesDoc(q, id)'
  BY <1>4 DEF DocWorkOK, Busy, Outcomes, DeletedStays, HasWritten, CopiesDoc
<1> QED BY <1>1, <1>3, <1>4, <1>7, <1>8, <1>9, <1>10, <1>12, <1>13, <1>14 DEF DocEffect

\* A step that ends some requests with an error and writes neither row nor object.
LEMMA SomeRequestsEnd ==
  ASSUME DocInv, UNCHANGED <<alone, rows, objects>>,
         asked' \subseteq Documents, results' \subseteq Documents,
         job' = [q \in Requests |-> job'[q]],
         \A q \in Requests :
           \/ job'[q] = job[q]
           \/ /\ JobFields \subseteq DOMAIN job'[q] /\ job'[q].kind = job[q].kind
              /\ job'[q].phase = "failed"
  PROVE  DocInv'
<1>1. /\ DocTable' /\ ObjectsThere' /\ AskedExist' /\ Documents' = Documents
      /\ SessionBytes' = SessionBytes
  BY NoDocumentMoves
<1>2. \A q \in Requests : job'[q].kind = job[q].kind
  OBVIOUS
<1>3. \A kinds : Raced(kinds)' <=> Raced(kinds)
  BY <1>2 DEF Raced
<1>4. LimitKept'
  BY <1>1, <1>2, <1>3 DEF DocInv, LimitKept
<1>5. VersionsOfDocsDiffer'
  BY <1>1, <1>3 DEF DocInv, VersionsOfDocsDiffer
<1>6. \A q \in Requests : Busy(q)' => Busy(q) /\ job'[q] = job[q]
  BY DEF Busy, Outcomes
<1>7. RequestInv'
  <2>1. Solitude'
    BY <1>6 DEF DocInv, RequestInv, Solitude
  <2>2. \A q \in Requests : JobFields \subseteq DOMAIN job'[q]
    BY DEF DocInv, RequestInv
  <2> QED BY <2>1, <2>2 DEF DocInv, RequestInv
<1>8. ASSUME NEW q \in Requests PROVE DocWorkOK(q)'
  <2> SUFFICES ASSUME Busy(q)' PROVE DocWorkOK(q)'
    BY DEF DocWorkOK
  <2>1. Busy(q) /\ job'[q] = job[q] /\ DocWorkOK(q)
    BY <1>6 DEF DocInv
  <2>2. IsLatest(job[q].next) => IsLatest(job[q].next)'
    BY <1>1, <2>1 DEF IsLatest
  <2>3. job[q].kind \in NewKinds => NewDocOK(q)'
    BY <1>1, <2>1, <2>2 DEF DocWorkOK, NewDocOK, DocRow
  <2>4. job[q].kind \notin NewKinds => DocCopyOK(q)'
    BY <1>1, <2>1 DEF DocWorkOK, DocCopyOK, DocRow, SameDocument
  <2> QED BY <2>1, <2>3, <2>4 DEF DocWorkOK
<1>9. ASSUME NEW q \in Requests PROVE DeletedStays(q)'
  <2> SUFFICES ASSUME HasWritten(q, {"document_delete"})', alone'[q] PROVE DeletedStays(q)'
    BY DEF DeletedStays
  <2>1. job'[q] = job[q]
    BY DEF HasWritten
  <2>2. HasWritten(q, {"document_delete"}) /\ alone[q]
    BY <2>1 DEF HasWritten
  <2>3. \A x \in Requests : job'[x].phase \in {"diff", "write"} => job'[x] = job[x]
    OBVIOUS
  <2>4. DeletedStays(q)
    BY DEF DocInv
  <2> QED BY <1>1, <2>1, <2>2, <2>3, <2>4 DEF DeletedStays
<1> QED BY <1>1, <1>2, <1>4, <1>5, <1>7, <1>8, <1>9 DEF DocInv

LEMMA RestartStep ==
  ASSUME DocInv, NEW p \in Processes, Restart(p)
  PROVE  DocInv'
<1>1. /\ UNCHANGED <<alone, rows, objects, asked, results>>
      /\ job' = [q \in Requests |-> IF Busy(q) /\ job[q].at = p
                                    THEN [Answered(job[q].kind, "failed") EXCEPT !.at = p] ELSE job[q]]
  BY DEF Restart
<1>2. job' = [q \in Requests |-> job'[q]]
  BY <1>1
<1>3. ASSUME NEW q \in Requests
      PROVE  \/ job'[q] = job[q]
             \/ /\ JobFields \subseteq DOMAIN job'[q] /\ job'[q].kind = job[q].kind
                /\ job'[q].phase = "failed"
  <2>1. job'[q] = job[q] \/ job'[q] = [Answered(job[q].kind, "failed") EXCEPT !.at = p]
    BY <1>1
  <2> QED BY <2>1 DEF Answered, NoJob, JobFields
<1>4. asked' \subseteq Documents /\ results' \subseteq Documents
  BY <1>1 DEF DocInv, AskedExist
<1> QED BY <1>1, <1>2, <1>3, <1>4, SomeRequestsEnd

LEMMA WorkerResultStep ==
  ASSUME DocInv, NEW id, WorkerResult(id)
  PROVE  DocInv'
<1>1. UNCHANGED <<job, alone, rows, objects, asked>> /\ results' = results \cup {id} /\ id \in asked
  BY DEF WorkerResult, requestVars
<1>2. asked' \subseteq Documents /\ results' \subseteq Documents
  BY <1>1 DEF DocInv, AskedExist
<1>3. job' = [q \in Requests |-> job'[q]]
  BY <1>1 DEF DocInv, RequestInv
<1> QED BY <1>1, <1>2, <1>3, SomeRequestsEnd

LEMMA DocFailsStep ==
  ASSUME DocInv, NEW q \in Requests, DocFails(q)
  PROVE  DocEffect(q)
BY DocFailed DEF DocFails, docVars

\* Every step of a request has the effect above.
LEMMA DocMoves ==
  ASSUME DocInv, DocNext
  PROVE  \/ \E q \in Requests : DocEffect(q)
         \/ \E id \in Ids("document") : WorkerResult(id)
         \/ \E p \in Processes : Restart(p)
<1> SUFFICES ASSUME NEW q \in Requests,
                    \/ Upload(q) \/ ReadVersion(q) \/ EnsureBucket(q) \/ PutObject(q) \/ Publish(q)
                    \/ Reprocess(q) \/ SoftDeleteDocument(q) \/ UpdateText(q) \/ HandleResult(q)
                    \/ AckResult(q) \/ ArchiveSession(q) \/ SaveDocument(q) \/ DocFails(q)
             PROVE  DocEffect(q)
  BY DEF DocNext
<1>1. CASE Upload(q) \/ Reprocess(q) \/ ReadVersion(q)
  BY <1>1, UploadStep, ReprocessStep, ReadVersionStep
<1>2. CASE EnsureBucket(q) \/ PutObject(q) \/ Publish(q)
  BY <1>2, EnsureBucketStep, PutObjectStep, PublishStep
<1>3. CASE SoftDeleteDocument(q) \/ UpdateText(q) \/ HandleResult(q)
  BY <1>3, EditDocumentStep
<1>4. CASE AckResult(q) \/ ArchiveSession(q) \/ DocFails(q)
  BY <1>4, EndDocumentStep, ArchiveSessionStep, DocFailsStep
<1>5. CASE SaveDocument(q)
  BY <1>5, InsertDocument, DiffDocument, WriteDocument, EndDocumentStep DEF SaveDocument
<1> QED BY <1>1, <1>2, <1>3, <1>4, <1>5

LEMMA DocSteps ==
  ASSUME DocInv, DocNext
  PROVE  DocInv'
BY DocMoves, DocStep, WorkerResultStep, RestartStep

\* Nothing happens to the documents.
LEMMA DocumentsRest ==
  ASSUME DocInv, UNCHANGED <<job, alone, rows, objects, asked, results>>
  PROVE  DocInv'
<1>1. asked' \subseteq Documents /\ results' \subseteq Documents
  BY DEF DocInv, AskedExist
<1>2. job' = [q \in Requests |-> job'[q]]
  BY DEF DocInv, RequestInv
<1> QED BY <1>1, <1>2, SomeRequestsEnd

\* Uploads, reprocessings, edits and deletions of any number of requests, the results of the
\* worker in any order, an archived session and processes that restart keep the invariant:
\* what an upload that is alone has counted and numbered holds until it inserts its row.
THEOREM DocInvariance == DocSpec => []DocInv
<1> DEFINE Begin == /\ RequestInit /\ DocsInit
                    /\ \E n \in Nat : rows = [id \in {"document"} \X (1..n) |-> NoRow]
<1>1. Begin => DocInv
  <2> SUFFICES ASSUME Begin PROVE DocInv
    OBVIOUS
  <2>1. RequestInv
    BY RequestsBegin
  <2>2. PICK n \in Nat : rows = [id \in {"document"} \X (1..n) |-> NoRow]
    OBVIOUS
  <2>3. Documents = {}
    BY <2>2 DEF Documents, Existing, Ids, Has
  <2>4. IsFiniteSet({"document"} \X (1..n))
    <3>1. PICK table : table = "document"
      OBVIOUS
    <3>2. IsFiniteSet({table})
      BY FS_Singleton
    <3>3. IsFiniteSet(1..n)
      BY FS_Interval
    <3>4. IsFiniteSet({table} \X (1..n))
      BY <3>2, <3>3, FS_Product
    <3> QED BY <3>1, <3>4
  <2>5. DocTable
    BY <2>2, <2>3, <2>4 DEF DocTable
  <2>6. ObjectsThere /\ AskedExist /\ VersionsOfDocsDiffer
    BY <2>3 DEF ObjectsThere, AskedExist, VersionsOfDocsDiffer, DocsInit
  <2>7. LimitKept
    <3>1. UNION {Bytes(id) : id \in Documents} = {}
      BY <2>3
    <3>2. SessionBytes = 0
      BY <3>1, FS_EmptySet DEF SessionBytes
    <3> QED BY <3>2, SizesAssumption DEF LimitKept
  <2>8. \A q \in Requests : job[q].kind = "none" /\ job[q].phase = "idle"
    BY DEF RequestInit, NoJob
  <2>9. ASSUME NEW q \in Requests
        PROVE  DocWorkOK(q) /\ DeletedStays(q)
    BY <2>8 DEF DocWorkOK, Busy, DeletedStays, HasWritten
  <2> QED BY <2>1, <2>5, <2>6, <2>7, <2>8, <2>9 DEF DocInv
<1>2. DocInv /\ [DocNext]_<<requestVars, rows, docVars>> => DocInv'
  BY DocSteps, DocumentsRest DEF requestVars, docVars
<1>3. DocSpec => Begin /\ [][DocNext]_<<requestVars, rows, docVars>>
  BY DEF DocSpec
<1> HIDE DEF Begin
<1> QED BY <1>1, <1>2, <1>3, PTL

\* Every document has its object; the session stays within its limit and the versions of a
\* name are distinct, unless uploads overlapped or a document was reprocessed.
THEOREM DocumentsStaySound == DocSpec => []DocumentsSound
<1>1. DocInv => DocumentsSound
  BY DEF DocInv, DocumentsSound, ObjectsThere, LimitKept, VersionsOfDocsDiffer
<1> QED BY <1>1, DocInvariance, PTL

LEMMA DeletionsKept == DocInv => DeletionsStick
<1> SUFFICES ASSUME DocInv, NEW q \in Requests, HasWritten(q, {"document_delete"}), alone[q]
             PROVE  rows[job[q].row]["deleted"] = job[q].next["deleted"]
  BY DEF DeletionsStick, Sticks
<1>1. DeletedStays(q)
  BY DEF DocInv
<1> QED BY <1>1 DEF DeletedStays

\* A document that was deleted while no other request was at work stays deleted, whatever
\* results, texts and reprocessings come later.
THEOREM DeletionsStay == DocSpec => []DeletionsStick
BY DeletionsKept, DocInvariance, PTL

-------------------------------------------------------------------------------
(* Usage of a workspace. *)

TxPhases == {"open", "committed", "duplicate", "deadlock", "failed"}
TxFields == {"kind", "phase", "new", "settles", "actual", "todo", "holds", "found"}

TxTable ==
  /\ tx = [t \in Transactions |-> tx[t]]
  /\ \A t \in Transactions :
       /\ TxFields \subseteq DOMAIN tx[t] /\ tx[t].actual \in Nat /\ tx[t].new \subseteq Reservations
       /\ tx[t] = NoTx \/ tx[t].phase \in TxPhases

ReservationTable ==
  /\ reservation = [r \in Reservations |-> reservation[r]]
  /\ \A r \in Reservations :
       /\ reservation[r].actual \in Nat
       /\ reservation[r].status # "committed" => reservation[r].actual = 0

\* Where a transaction is on the path of its locks.
PathOK(t, r) ==
  LET todo == tx[t].todo
      holds == tx[t].holds
  IN \/ tx[t].kind = "create" /\ (todo = <<>> \/ (todo = <<UsageRow>> /\ holds = {}))
     \/ /\ tx[t].kind = "preview"
        /\ \/ todo = <<UsageRow, TaskRow(r), ReservationRow(r)>> /\ holds = {}
           \/ todo = <<TaskRow(r), ReservationRow(r)>> /\ holds \subseteq {UsageRow}
           \/ todo = <<ReservationRow(r)>> /\ holds \subseteq {UsageRow, TaskRow(r)}
           \/ todo = <<>>
     \/ /\ tx[t].kind = "complete"
        /\ \/ todo = <<TaskRow(r), ReservationRow(r), UsageRow>> /\ holds = {}
           \/ todo = <<ReservationRow(r), UsageRow>> /\ holds \subseteq {TaskRow(r)}
           \/ todo = <<UsageRow>> /\ holds \subseteq {TaskRow(r), ReservationRow(r)}
           \/ todo = <<>>
     \/ /\ tx[t].kind = "release"
        /\ \/ todo = <<TaskRow(r), ReservationRow(r)>> /\ holds = {}
           \/ todo = <<ReservationRow(r)>> /\ holds \subseteq {TaskRow(r)}
           \/ todo = <<>>

TxOK(t) ==
  Open(t) =>
    /\ \E r \in Reservations : PathOK(t, r)
    /\ tx[t].settles = {} \/ \E r \in Reservations :
         /\ tx[t].settles = {r} /\ ReservationRow(r) \in tx[t].holds
         /\ reservation[r].status = "reserved"
    /\ \A r \in tx[t].new : reservation[r].status = "none"
    /\ tx[t].found # {} => tx[t].found = totals /\ UsageRow \in tx[t].holds

Apart == \A t, u \in Transactions : t # u =>
  tx[t].new \cap tx[u].new = {} /\ tx[t].holds \cap tx[u].holds = {}

FirstCompletion == \E t \in Ended("committed") : Counts(t) /\ tx[t].found = {}

UsageInv ==
  /\ TxTable /\ ReservationTable /\ Apart /\ \A t \in Transactions : TxOK(t)
  /\ totals = {Reported} \/ (totals = {} /\ Reported = 0)
  /\ totals # {} \/ Ended("duplicate") # {} => FirstCompletion
  /\ Ended("duplicate") \subseteq OfKind("complete")
  /\ Ended("deadlock") # {} => OfKind("preview") # {} /\ OfKind("complete") # {}

\* A step of t alone: it was at work or begins.
TxEffect(t) ==
  /\ tx' = [u \in Transactions |-> tx'[u]] /\ \A u \in Transactions \ {t} : tx'[u] = tx[u]
  /\ TxFields \subseteq DOMAIN tx'[t] /\ tx'[t].actual \in Nat /\ tx'[t].new \subseteq Reservations
  /\ tx'[t].phase \in TxPhases
  /\ tx[t] = NoTx \/ (Open(t) /\ tx'[t].kind = tx[t].kind)
  /\ \A u \in Transactions \ {t} : /\ tx'[t].new \cap tx[u].new = {}
                                  /\ tx'[t].holds \cap tx[u].holds = {}

LEMMA TxStays ==
  ASSUME UsageInv, NEW t \in Transactions, TxEffect(t)
  PROVE  /\ TxTable' /\ Apart'
         /\ \A kind : kind # "none" => OfKind(kind) \subseteq OfKind(kind)'
         /\ \A phase : phase \notin {"idle", "open"} => Ended(phase) \subseteq Ended(phase)'
         /\ FirstCompletion => FirstCompletion'
<1>1. TxTable'
  BY DEF UsageInv, TxTable, TxEffect
<1>2. Apart'
  <2> SUFFICES ASSUME NEW x \in Transactions, NEW y \in Transactions, x # y
               PROVE  tx'[x].new \cap tx'[y].new = {} /\ tx'[x].holds \cap tx'[y].holds = {}
    BY DEF Apart
  <2>1. tx[x].new \cap tx[y].new = {} /\ tx[x].holds \cap tx[y].holds = {}
    BY DEF UsageInv, Apart
  <2>2. CASE x = t
    BY <2>2 DEF TxEffect
  <2>3. CASE y = t
    BY <2>3 DEF TxEffect
  <2>4. CASE x # t /\ y # t
    BY <2>1, <2>4 DEF TxEffect
  <2> QED BY <2>2, <2>3, <2>4
<1>3. NoTx.kind = "none" /\ NoTx.phase = "idle"
  BY DEF NoTx
<1>4. \A kind : kind # "none" => OfKind(kind) \subseteq OfKind(kind)'
  BY <1>3 DEF OfKind, TxEffect
<1>5. \A u \in Transactions : tx[u].phase \notin {"idle", "open"} => tx'[u] = tx[u]
  BY <1>3 DEF TxEffect, Open
<1>6. \A phase : phase \notin {"idle", "open"} => Ended(phase) \subseteq Ended(phase)'
  BY <1>5 DEF Ended
<1>7. FirstCompletion => FirstCompletion'
  BY <1>5 DEF FirstCompletion, Ended, Counts
<1> QED BY <1>1, <1>2, <1>4, <1>6, <1>7

\* A step that writes nothing.
LEMMA QuietTxStep ==
  ASSUME UsageInv, NEW t \in Transactions, TxEffect(t), UNCHANGED <<reservation, totals>>, TxOK(t)',
         tx'[t].phase # "committed",
         tx'[t].phase = "duplicate" => totals # {} /\ tx'[t].kind = "complete",
         tx'[t].phase = "deadlock" => OfKind("preview") # {} /\ OfKind("complete") # {}
  PROVE  UsageInv'
<1>2. /\ TxTable' /\ Apart'
  BY TxStays
<1>3. ReservationTable'
  BY DEF UsageInv, ReservationTable
<1>4. Reported' = Reported
  BY DEF Reported
<1>5. \A u \in Transactions \ {t} : tx'[u] = tx[u]
  BY DEF TxEffect
<1>6. ASSUME NEW u \in Transactions \ {t} PROVE TxOK(u)'
  <2>1. TxOK(u) /\ tx'[u] = tx[u]
    BY <1>5 DEF UsageInv
  <2> QED BY <2>1 DEF TxOK, PathOK, Open
<1>7. \A phase : Ended(phase)' \subseteq Ended(phase) \cup {t}
  BY <1>5 DEF Ended
<1>8. FirstCompletion => FirstCompletion'
  BY TxStays
<1>9. totals # {} \/ Ended("duplicate")' # {} => FirstCompletion'
  <2>1. Ended("duplicate")' # {} => totals # {} \/ Ended("duplicate") # {}
    <3>1. tx'[t].phase = "duplicate" => totals # {}
      OBVIOUS
    <3>2. \A u \in Ended("duplicate")' : u \in Ended("duplicate") \/ tx'[t].phase = "duplicate"
      BY <1>5 DEF Ended
    <3> QED BY <3>1, <3>2
  <2> QED BY <1>8, <2>1 DEF UsageInv
<1>10. Ended("duplicate")' \subseteq OfKind("complete")'
  <2>1. OfKind("complete") \subseteq OfKind("complete")'
    BY TxStays
  <2>2. ASSUME NEW u \in Ended("duplicate")' PROVE u \in OfKind("complete")'
    <3>1. CASE u = t
      BY <3>1 DEF Ended, OfKind
    <3>2. CASE u # t
      <4>1. u \in Ended("duplicate")
        BY <1>5, <2>2, <3>2 DEF Ended
      <4> QED BY <2>1, <4>1 DEF UsageInv
    <3> QED BY <3>1, <3>2
  <2> QED BY <2>2
<1>11. Ended("deadlock")' # {} => OfKind("preview")' # {} /\ OfKind("complete")' # {}
  <2>1. OfKind("preview") \subseteq OfKind("preview")'
    BY TxStays
  <2>2. OfKind("complete") \subseteq OfKind("complete")'
    BY TxStays
  <2>3. \A u \in Ended("deadlock")' : u \in Ended("deadlock") \/ tx'[t].phase = "deadlock"
    BY <1>5 DEF Ended
  <2>4. Ended("deadlock")' # {} => OfKind("preview") # {} /\ OfKind("complete") # {}
    BY <2>3 DEF UsageInv
  <2> QED BY <2>1, <2>2, <2>4
<1>12. \A u \in Transactions : TxOK(u)'
  BY <1>6
<1> QED BY <1>2, <1>3, <1>4, <1>9, <1>10, <1>11, <1>12 DEF UsageInv

-------------------------------------------------------------------------------
(* A transaction begins, and one is rolled back. *)

LEMMA OpensStep ==
  ASSUME UsageInv, NEW t \in Transactions, NEW kind, NEW new \in SUBSET Reservations,
         NEW actual \in Nat, NEW todo, NEW r \in Reservations, Opens(t, kind, new, actual, todo),
         \A x \in new : Unused(x),
         \/ kind = "create" /\ todo = <<UsageRow>>
         \/ kind = "preview" /\ todo = <<UsageRow, TaskRow(r), ReservationRow(r)>>
         \/ kind = "complete" /\ todo = <<TaskRow(r), ReservationRow(r), UsageRow>>
         \/ kind = "release" /\ todo = <<TaskRow(r), ReservationRow(r)>>
  PROVE  UsageInv'
<1>1. PICK j : j = [NoTx EXCEPT !.kind = kind, !.phase = "open", !.new = new, !.actual = actual,
                                !.todo = todo]
  OBVIOUS
<1>2. /\ TxFields \subseteq DOMAIN j /\ j.kind = kind /\ j.phase = "open" /\ j.new = new
      /\ j.actual = actual /\ j.todo = todo /\ j.settles = {} /\ j.holds = {} /\ j.found = {}
  BY <1>1 DEF NoTx, TxFields
<1>3. /\ tx[t] = NoTx /\ tx' = [tx EXCEPT ![t] = j] /\ UNCHANGED <<reservation, totals>>
  BY <1>1 DEF Opens
<1>4. /\ tx' = [u \in Transactions |-> tx'[u]] /\ tx'[t] = j
      /\ \A u \in Transactions \ {t} : tx'[u] = tx[u]
  BY <1>3 DEF UsageInv, TxTable
<1>5. \A u \in Transactions \ {t} : j.new \cap tx[u].new = {} /\ j.holds \cap tx[u].holds = {}
  BY <1>2 DEF Unused
<1>6. TxEffect(t)
  BY <1>2, <1>3, <1>4, <1>5 DEF TxEffect, TxPhases
<1>7. \A x \in new : reservation[x].status = "none"
  BY DEF Unused
<1>8. PathOK(t, r)'
  BY <1>2, <1>4 DEF PathOK, UsageRow, TaskRow, ReservationRow
<1>9. TxOK(t)'
  BY <1>2, <1>3, <1>4, <1>7, <1>8 DEF TxOK
<1> QED BY <1>2, <1>3, <1>4, <1>6, <1>9, QuietTxStep

LEMMA BeginsTx ==
  ASSUME UsageInv, NEW t \in Transactions,
         CreateTask(t) \/ CreatePreview(t) \/ Complete(t) \/ Release(t)
  PROVE  UsageInv'
<1>1. CASE CreateTask(t)
  <2>1. PICK r \in Reservations : Unused(r) /\ Opens(t, "create", {r}, 0, <<UsageRow>>)
    BY <1>1 DEF CreateTask
  <2>2. PICK todo : todo = <<UsageRow>>
    OBVIOUS
  <2>3. Opens(t, "create", {r}, 0, todo) /\ \A x \in {r} : Unused(x)
    BY <2>1, <2>2
  <2> QED BY <2>2, <2>3, OpensStep
<1>2. CASE CreatePreview(t)
  <2>1. PICK r, older \in Reservations :
          Unused(r) /\ Opens(t, "preview", {r}, 0, <<UsageRow, TaskRow(older), ReservationRow(older)>>)
    BY <1>2 DEF CreatePreview
  <2>2. PICK todo : todo = <<UsageRow, TaskRow(older), ReservationRow(older)>>
    OBVIOUS
  <2>3. Opens(t, "preview", {r}, 0, todo) /\ \A x \in {r} : Unused(x)
    BY <2>1, <2>2
  <2> QED BY <2>2, <2>3, OpensStep
<1>3. CASE Complete(t)
  <2>1. PICK r \in Reservations, n \in Actuals :
          Opens(t, "complete", {}, n, <<TaskRow(r), ReservationRow(r), UsageRow>>)
    BY <1>3 DEF Complete
  <2>2. PICK todo : todo = <<TaskRow(r), ReservationRow(r), UsageRow>>
    OBVIOUS
  <2>3. Opens(t, "complete", {}, n, todo) /\ n \in Nat
    BY <2>1, <2>2, UsageAssumption
  <2> QED BY <2>2, <2>3, OpensStep
<1>4. CASE Release(t)
  <2>1. PICK r \in Reservations : Opens(t, "release", {}, 0, <<TaskRow(r), ReservationRow(r)>>)
    BY <1>4 DEF Release
  <2>2. PICK todo : todo = <<TaskRow(r), ReservationRow(r)>>
    OBVIOUS
  <2>3. Opens(t, "release", {}, 0, todo)
    BY <2>1, <2>2
  <2> QED BY <2>2, <2>3, OpensStep
<1> QED BY <1>1, <1>2, <1>3, <1>4

LEMMA ClosesMeans ==
  ASSUME TxTable, NEW t \in Transactions, NEW phase, Closes(t, phase)
  PROVE  /\ tx' = [u \in Transactions |-> tx'[u]] /\ \A u \in Transactions \ {t} : tx'[u] = tx[u]
         /\ TxFields \subseteq DOMAIN tx'[t] /\ tx'[t].phase = phase /\ tx'[t].holds = {}
         /\ tx'[t].kind = tx[t].kind /\ tx'[t].new = tx[t].new /\ tx'[t].settles = tx[t].settles
         /\ tx'[t].actual = tx[t].actual /\ tx'[t].found = tx[t].found
<1> DEFINE a == [tx EXCEPT ![t].phase = phase]
           b == [a EXCEPT ![t].holds = {}]
           c == [b EXCEPT ![t].todo = <<>>]
<1>1. tx' = c
  BY DEF Closes
<1>2. tx = [u \in Transactions |-> tx[u]] /\ TxFields \subseteq DOMAIN tx[t]
  BY DEF TxTable
<1>3. /\ a = [u \in Transactions |-> a[u]] /\ \A u \in Transactions \ {t} : a[u] = tx[u]
      /\ DOMAIN a[t] = DOMAIN tx[t] /\ a[t].phase = phase
      /\ \A f \in TxFields \ {"phase"} : a[t][f] = tx[t][f]
  BY <1>2 DEF TxFields
<1> HIDE DEF a
<1>4. /\ b = [u \in Transactions |-> b[u]] /\ \A u \in Transactions \ {t} : b[u] = a[u]
      /\ DOMAIN b[t] = DOMAIN a[t] /\ b[t].holds = {}
      /\ \A f \in TxFields \ {"holds"} : b[t][f] = a[t][f]
  BY <1>2, <1>3 DEF TxFields
<1> HIDE DEF b
<1>5. /\ c = [u \in Transactions |-> c[u]] /\ \A u \in Transactions \ {t} : c[u] = b[u]
      /\ DOMAIN c[t] = DOMAIN b[t]
      /\ \A f \in TxFields \ {"todo"} : c[t][f] = b[t][f]
  BY <1>2, <1>3, <1>4 DEF TxFields
<1> HIDE DEF c
<1> QED BY <1>1, <1>2, <1>3, <1>4, <1>5 DEF TxFields

LEMMA RolledBack ==
  ASSUME UsageInv, NEW t \in Transactions, NEW phase \in {"duplicate", "deadlock", "failed"},
         Open(t), Closes(t, phase), UNCHANGED <<reservation, totals>>,
         phase = "duplicate" => totals # {} /\ tx[t].kind = "complete",
         phase = "deadlock" => OfKind("preview") # {} /\ OfKind("complete") # {}
  PROVE  UsageInv'
<1>1. TxTable /\ tx[t].actual \in Nat /\ tx[t].new \subseteq Reservations
  BY DEF UsageInv, TxTable
<1>2. /\ tx' = [u \in Transactions |-> tx'[u]] /\ \A u \in Transactions \ {t} : tx'[u] = tx[u]
      /\ TxFields \subseteq DOMAIN tx'[t] /\ tx'[t].phase = phase /\ tx'[t].holds = {}
      /\ tx'[t].kind = tx[t].kind /\ tx'[t].new = tx[t].new /\ tx'[t].actual = tx[t].actual
  BY <1>1, ClosesMeans
<1>3. \A u \in Transactions \ {t} : tx'[t].new \cap tx[u].new = {}
  BY <1>2 DEF UsageInv, Apart
<1>4. TxEffect(t)
  BY <1>1, <1>2, <1>3 DEF TxEffect, TxPhases
<1>5. TxOK(t)'
  BY <1>2 DEF TxOK, Open
<1> QED BY <1>2, <1>4, <1>5, QuietTxStep

-------------------------------------------------------------------------------
(* Locks. *)

LEMMA ShortPaths ==
  ASSUME NEW a, NEW b, NEW c
  PROVE  /\ Head(<<a, b, c>>) = a /\ Tail(<<a, b, c>>) = <<b, c>>
         /\ Head(<<a, b>>) = a /\ Tail(<<a, b>>) = <<b>>
         /\ Head(<<a>>) = a /\ Tail(<<a>>) = <<>>
         /\ <<a, b, c>> # <<>> /\ <<a, b>> # <<>> /\ <<a>> # <<>>
OBVIOUS

LEMMA RowsDiffer ==
  ASSUME NEW r
  PROVE  /\ UsageRow[1] # "reservation" /\ TaskRow(r)[1] # "reservation"
         /\ ReservationRow(r)[1] = "reservation" /\ ReservationRow(r)[2] = r
         /\ UsageRow # TaskRow(r) /\ UsageRow # ReservationRow(r) /\ TaskRow(r) # ReservationRow(r)
BY DEF UsageRow, TaskRow, ReservationRow

\* A transaction goes one row further, or not at all once its reservation is settled.
LEMMA PathAdvances ==
  ASSUME NEW t, NEW r, PathOK(t, r), tx[t].todo # <<>>,
         NEW settled \in BOOLEAN, settled => Head(tx[t].todo)[1] = "reservation",
         tx'[t].kind = tx[t].kind,
         tx'[t].holds \subseteq tx[t].holds \cup {Head(tx[t].todo)},
         tx'[t].todo = IF settled THEN <<>> ELSE Tail(tx[t].todo)
  PROVE  /\ PathOK(t, r)'
         /\ Head(tx[t].todo) \in {UsageRow, TaskRow(r), ReservationRow(r)}
<1>1. PICK u, a, s : u = UsageRow /\ a = TaskRow(r) /\ s = ReservationRow(r)
  OBVIOUS
<1>2. u[1] # "reservation" /\ a[1] # "reservation"
  BY <1>1, RowsDiffer
<1>3. PICK todo, holds : todo = tx[t].todo /\ holds = tx[t].holds
  OBVIOUS
<1>4. UsageRow' = u /\ TaskRow(r)' = a /\ ReservationRow(r)' = s
  BY <1>1 DEF UsageRow, TaskRow, ReservationRow
<1>5. /\ tx'[t].kind = tx[t].kind /\ tx'[t].holds \subseteq holds \cup {Head(todo)}
      /\ tx'[t].todo = IF settled THEN <<>> ELSE Tail(todo)
      /\ settled => Head(todo)[1] = "reservation"
  BY <1>3
<1>6. CASE tx[t].kind = "create"
  <2>1. todo = <<u>>
    BY <1>1, <1>3, <1>6 DEF PathOK
  <2>2. Head(todo) = u /\ Tail(todo) = <<>>
    BY <2>1, ShortPaths
  <2>3. tx'[t].todo = <<>>
    BY <1>5, <2>2
  <2> QED BY <1>1, <1>3, <1>5, <1>6, <2>2, <2>3 DEF PathOK
<1>7. CASE tx[t].kind = "preview"
  <2>1. \/ todo = <<u, a, s>> /\ holds = {}
        \/ todo = <<a, s>> /\ holds \subseteq {u}
        \/ todo = <<s>> /\ holds \subseteq {u, a}
    BY <1>1, <1>3, <1>7 DEF PathOK
  <2>2. CASE todo = <<u, a, s>> /\ holds = {}
    <3>1. Head(todo) = u /\ Tail(todo) = <<a, s>>
      BY <2>2, ShortPaths
    <3>2. tx'[t].todo = <<a, s>> /\ tx'[t].holds \subseteq {u}
      BY <1>2, <1>5, <2>2, <3>1
    <3> QED BY <1>1, <1>3, <1>4, <1>5, <1>7, <3>1, <3>2 DEF PathOK
  <2>3. CASE todo = <<a, s>> /\ holds \subseteq {u}
    <3>1. Head(todo) = a /\ Tail(todo) = <<s>>
      BY <2>3, ShortPaths
    <3>2. tx'[t].todo = <<s>> /\ tx'[t].holds \subseteq {u, a}
      BY <1>2, <1>5, <2>3, <3>1
    <3> QED BY <1>1, <1>3, <1>4, <1>5, <1>7, <3>1, <3>2 DEF PathOK
  <2>4. CASE todo = <<s>> /\ holds \subseteq {u, a}
    <3>1. Head(todo) = s /\ Tail(todo) = <<>>
      BY <2>4, ShortPaths
    <3>2. tx'[t].todo = <<>>
      BY <1>5, <3>1
    <3> QED BY <1>1, <1>3, <1>5, <1>7, <3>1, <3>2 DEF PathOK
  <2> QED BY <2>1, <2>2, <2>3, <2>4
<1>8. CASE tx[t].kind = "complete"
  <2>1. \/ todo = <<a, s, u>> /\ holds = {}
        \/ todo = <<s, u>> /\ holds \subseteq {a}
        \/ todo = <<u>> /\ holds \subseteq {a, s}
    BY <1>1, <1>3, <1>8 DEF PathOK
  <2>2. CASE todo = <<a, s, u>> /\ holds = {}
    <3>1. Head(todo) = a /\ Tail(todo) = <<s, u>>
      BY <2>2, ShortPaths
    <3>2. tx'[t].todo = <<s, u>> /\ tx'[t].holds \subseteq {a}
      BY <1>2, <1>5, <2>2, <3>1
    <3> QED BY <1>1, <1>3, <1>4, <1>5, <1>8, <3>1, <3>2 DEF PathOK
  <2>3. CASE todo = <<s, u>> /\ holds \subseteq {a}
    <3>1. Head(todo) = s /\ Tail(todo) = <<u>>
      BY <2>3, ShortPaths
    <3>2. tx'[t].todo \in {<<>>, <<u>>} /\ tx'[t].holds \subseteq {a, s}
      BY <1>5, <2>3, <3>1
    <3> QED BY <1>1, <1>3, <1>4, <1>5, <1>8, <3>1, <3>2 DEF PathOK
  <2>4. CASE todo = <<u>> /\ holds \subseteq {a, s}
    <3>1. Head(todo) = u /\ Tail(todo) = <<>>
      BY <2>4, ShortPaths
    <3>2. tx'[t].todo = <<>>
      BY <1>5, <3>1
    <3> QED BY <1>1, <1>3, <1>5, <1>8, <3>1, <3>2 DEF PathOK
  <2> QED BY <2>1, <2>2, <2>3, <2>4
<1>9. CASE tx[t].kind = "release"
  <2>1. \/ todo = <<a, s>> /\ holds = {}
        \/ todo = <<s>> /\ holds \subseteq {a}
    BY <1>1, <1>3, <1>9 DEF PathOK
  <2>2. CASE todo = <<a, s>> /\ holds = {}
    <3>1. Head(todo) = a /\ Tail(todo) = <<s>>
      BY <2>2, ShortPaths
    <3>2. tx'[t].todo = <<s>> /\ tx'[t].holds \subseteq {a}
      BY <1>2, <1>5, <2>2, <3>1
    <3> QED BY <1>1, <1>3, <1>4, <1>5, <1>9, <3>1, <3>2 DEF PathOK
  <2>3. CASE todo = <<s>> /\ holds \subseteq {a}
    <3>1. Head(todo) = s /\ Tail(todo) = <<>>
      BY <2>3, ShortPaths
    <3>2. tx'[t].todo = <<>>
      BY <1>5, <3>1
    <3> QED BY <1>1, <1>3, <1>5, <1>9, <3>1, <3>2 DEF PathOK
  <2> QED BY <2>1, <2>2, <2>3
<1> QED BY <1>6, <1>7, <1>8, <1>9 DEF PathOK

LEMMA LockRowStep ==
  ASSUME UsageInv, NEW t \in Transactions, LockRow(t)
  PROVE  UsageInv'
<1>1. PICK row, holds :
        /\ row = Head(tx[t].todo)
        /\ holds = tx[t].holds \cup (IF row = UsageRow /\ totals = {} THEN {} ELSE {row})
  OBVIOUS
<1> PICK k : k = [Reads(t, row) EXCEPT !.holds = holds]
  OBVIOUS
<1>2. /\ Open(t) /\ tx[t].todo # <<>> /\ ~HeldByOther(t, row) /\ UNCHANGED <<reservation, totals>>
      /\ tx' = [tx EXCEPT ![t] = k]
  BY <1>1 DEF LockRow
<1>3. PICK settled \in BOOLEAN :
        settled <=> (row[1] = "reservation" /\ reservation[row[2]].status # "reserved")
  OBVIOUS
<1>4. TxTable /\ TxOK(t) /\ tx[t].actual \in Nat /\ tx[t].new \subseteq Reservations
  BY DEF UsageInv, TxTable
<1>5. /\ tx' = [u \in Transactions |-> tx'[u]] /\ \A u \in Transactions \ {t} : tx'[u] = tx[u]
      /\ TxFields \subseteq DOMAIN tx'[t] /\ tx'[t].phase = tx[t].phase
      /\ tx'[t].kind = tx[t].kind /\ tx'[t].new = tx[t].new /\ tx'[t].actual = tx[t].actual
      /\ tx'[t].holds = holds
      /\ tx'[t].todo = IF settled THEN <<>> ELSE Tail(tx[t].todo)
      /\ tx'[t].settles = IF row[1] = "reservation" /\ ~settled THEN {row[2]} ELSE tx[t].settles
      /\ tx'[t].found = IF row = UsageRow THEN totals ELSE tx[t].found
  <2>1. PICK i : i = Reads(t, row)
    OBVIOUS
  <2>2. TxFields \subseteq DOMAIN tx[t] /\ tx = [u \in Transactions |-> tx[u]]
    BY <1>4 DEF TxTable
  <2>3. /\ TxFields \subseteq DOMAIN i /\ i.phase = tx[t].phase
        /\ i.kind = tx[t].kind /\ i.new = tx[t].new /\ i.actual = tx[t].actual
        /\ i.todo = IF settled THEN <<>> ELSE Tail(tx[t].todo)
        /\ i.settles = IF row[1] = "reservation" /\ ~settled THEN {row[2]} ELSE tx[t].settles
        /\ i.found = IF row = UsageRow THEN totals ELSE tx[t].found
    <3>1. PICK todo, settles, found :
            /\ todo = IF settled THEN <<>> ELSE Tail(tx[t].todo)
            /\ settles = IF row[1] = "reservation" /\ ~settled THEN {row[2]} ELSE tx[t].settles
            /\ found = IF row = UsageRow THEN totals ELSE tx[t].found
      OBVIOUS
    <3>2. PICK j : j = tx[t]
      OBVIOUS
    <3>3. i = [j EXCEPT !.todo = todo, !.settles = settles, !.found = found]
      BY <1>3, <2>1, <3>1, <3>2 DEF Reads
    <3>4. TxFields \subseteq DOMAIN j
      BY <2>2, <3>2
    <3>5. /\ TxFields \subseteq DOMAIN i /\ i.todo = todo /\ i.settles = settles /\ i.found = found
          /\ \A f \in TxFields \ {"todo", "settles", "found"} : i[f] = j[f]
      BY <3>3, <3>4 DEF TxFields
    <3>6. /\ i.phase = j.phase /\ i.kind = j.kind /\ i.new = j.new /\ i.actual = j.actual
      BY <3>5 DEF TxFields
    <3> QED BY <3>1, <3>2, <3>5, <3>6
  <2>4. k = [i EXCEPT !.holds = holds]
    BY <2>1
  <2>5. /\ TxFields \subseteq DOMAIN k /\ k.holds = holds
        /\ \A f \in TxFields \ {"holds"} : k[f] = i[f]
    BY <2>3, <2>4 DEF TxFields
  <2>6. /\ tx' = [u \in Transactions |-> tx'[u]] /\ \A u \in Transactions \ {t} : tx'[u] = tx[u]
        /\ tx'[t] = k
    BY <1>2, <2>2
  <2>7. /\ k.phase = i.phase /\ k.kind = i.kind /\ k.new = i.new /\ k.actual = i.actual
        /\ k.todo = i.todo /\ k.settles = i.settles /\ k.found = i.found
    BY <2>5 DEF TxFields
  <2> QED BY <2>3, <2>5, <2>6, <2>7
<1>6. \A u \in Transactions \ {t} :
        tx'[t].new \cap tx[u].new = {} /\ tx'[t].holds \cap tx[u].holds = {}
  <2>1. \A u \in Transactions \ {t} : tx[t].new \cap tx[u].new = {} /\ tx[t].holds \cap tx[u].holds = {}
    BY DEF UsageInv, Apart
  <2>2. \A u \in Transactions \ {t} : row \notin tx[u].holds
    BY <1>2 DEF HeldByOther
  <2> QED BY <1>1, <1>5, <2>1, <2>2
<1>7. TxEffect(t) /\ tx'[t].phase = "open"
  BY <1>2, <1>4, <1>5, <1>6 DEF TxEffect, TxPhases, Open
<1>8. PICK r \in Reservations : PathOK(t, r)
  BY <1>2, <1>4 DEF TxOK
<1>9. PathOK(t, r)' /\ row \in {UsageRow, TaskRow(r), ReservationRow(r)}
  <2>1. tx'[t].holds \subseteq tx[t].holds \cup {Head(tx[t].todo)}
    BY <1>1, <1>5
  <2>2. settled => Head(tx[t].todo)[1] = "reservation"
    BY <1>1, <1>3
  <2> QED BY <1>1, <1>2, <1>5, <1>8, <2>1, <2>2, PathAdvances
<1>10. tx'[t].settles = {} \/ \E x \in Reservations :
         /\ tx'[t].settles = {x} /\ ReservationRow(x) \in tx'[t].holds
         /\ reservation'[x].status = "reserved"
  <2>1. CASE row[1] = "reservation" /\ ~settled
    <3>1. row = ReservationRow(r) /\ row[2] = r
      BY <1>9, <2>1, RowsDiffer
    <3>2. tx'[t].settles = {r} /\ reservation[r].status = "reserved"
      BY <1>3, <1>5, <2>1, <3>1
    <3>3. ReservationRow(r) \in tx'[t].holds
      BY <1>1, <1>5, <3>1, RowsDiffer
    <3> QED BY <1>2, <3>2, <3>3
  <2>2. CASE ~(row[1] = "reservation" /\ ~settled)
    <3>1. tx'[t].settles = tx[t].settles /\ tx[t].holds \subseteq tx'[t].holds
      BY <1>1, <1>5, <2>2
    <3> QED BY <1>2, <1>4, <3>1 DEF TxOK
  <2> QED BY <2>1, <2>2
<1>11. tx'[t].found # {} => tx'[t].found = totals' /\ UsageRow \in tx'[t].holds
  <2>1. CASE row = UsageRow
    BY <1>1, <1>2, <1>5, <2>1
  <2>2. CASE row # UsageRow
    BY <1>1, <1>2, <1>4, <1>5, <2>2 DEF TxOK
  <2> QED BY <2>1, <2>2
<1>12. \A x \in tx'[t].new : reservation'[x].status = "none"
  BY <1>2, <1>4, <1>5 DEF TxOK
<1>13. TxOK(t)'
  <2>1. (\E x \in Reservations : PathOK(t, x))'
    BY <1>9
  <2>2. UsageRow' = UsageRow /\ \A x : ReservationRow(x)' = ReservationRow(x)
    BY DEF UsageRow, ReservationRow
  <2> QED BY <1>10, <1>11, <1>12, <2>1, <2>2 DEF TxOK
<1> QED BY <1>2, <1>7, <1>13, QuietTxStep

-------------------------------------------------------------------------------
(* The sum of what tasks reported. *)

LEMMA SameReported ==
  ASSUME \A r \in Reservations : reservation'[r].actual = reservation[r].actual
  PROVE  Reported' = Reported
<1>1. {{r} \X (1..reservation'[r].actual) : r \in Reservations}
      = {{r} \X (1..reservation[r].actual) : r \in Reservations}
  OBVIOUS
<1> QED BY <1>1 DEF Reported

LEMMA OneMoreReported ==
  ASSUME ReservationTable, NEW s \in Reservations, NEW n \in Nat,
         reservation[s].actual = 0, reservation'[s].actual = n,
         \A r \in Reservations \ {s} : reservation'[r].actual = reservation[r].actual
  PROVE  Reported' = Reported + n
<1> DEFINE D == Reservations \ {s}
           a == [r \in D |-> reservation[r].actual]
           B == UNION {{r} \X (1..a[r]) : r \in D}
<1>1. IsFiniteSet(D)
  BY UsageAssumption, FS_Subset
<1>2. \A r \in D : a[r] \in Nat
  BY DEF ReservationTable
<1>3. UNION {{r} \X (1..reservation[r].actual) : r \in Reservations} = B
  <2>1. 1..0 = {}
    OBVIOUS
  <2>2. {s} \X (1..reservation[s].actual) = {}
    BY <2>1
  <2> QED BY <2>2
<1>4. UNION {{r} \X (1..reservation'[r].actual) : r \in Reservations} = B \cup ({s} \X (1..n))
  OBVIOUS
<1>5. s \notin D
  OBVIOUS
<1> HIDE DEF a, D
<1>6. Cardinality(B \cup ({s} \X (1..n))) = Cardinality(B) + n
  BY <1>1, <1>2, <1>5, CountedBytes
<1> QED BY <1>3, <1>4, <1>6 DEF Reported

-------------------------------------------------------------------------------
(* A transaction commits. *)

LEMMA CommitStep ==
  ASSUME UsageInv, NEW t \in Transactions, Commit(t)
  PROVE  UsageInv'
<1>1. TxTable /\ ReservationTable /\ TxOK(t) /\ tx[t].actual \in Nat /\ tx[t].new \subseteq Reservations
  BY DEF UsageInv, TxTable
<1>2. /\ Open(t) /\ Closes(t, "committed")
      /\ Counts(t) /\ tx[t].found = {} => totals = {}
  BY DEF Commit, Done
<1>3. /\ tx' = [u \in Transactions |-> tx'[u]] /\ \A u \in Transactions \ {t} : tx'[u] = tx[u]
      /\ TxFields \subseteq DOMAIN tx'[t] /\ tx'[t].phase = "committed" /\ tx'[t].holds = {}
      /\ tx'[t].kind = tx[t].kind /\ tx'[t].new = tx[t].new /\ tx'[t].settles = tx[t].settles
      /\ tx'[t].actual = tx[t].actual /\ tx'[t].found = tx[t].found
  BY <1>1, <1>2, ClosesMeans
<1>4. TxEffect(t)
  <2>1. \A u \in Transactions \ {t} : tx'[t].new \cap tx[u].new = {} /\ tx'[t].holds \cap tx[u].holds = {}
    BY <1>3 DEF UsageInv, Apart
  <2> QED BY <1>1, <1>2, <1>3, <2>1 DEF TxEffect, TxPhases
<1>5. /\ TxTable' /\ Apart'
      /\ \A kind : kind # "none" => OfKind(kind) \subseteq OfKind(kind)'
      /\ FirstCompletion => FirstCompletion'
  BY <1>4, TxStays
<1>6. /\ reservation' = [r \in Reservations |-> reservation'[r]]
      /\ \A r \in tx[t].new : reservation'[r] = [status |-> "reserved", actual |-> 0]
      /\ \A r \in Reservations \ (tx[t].new \cup tx[t].settles) : reservation'[r] = reservation[r]
      /\ \A r \in Reservations : r \in tx[t].settles /\ r \notin tx[t].new =>
           reservation'[r] = IF Counts(t) THEN [status |-> "committed", actual |-> tx[t].actual]
                             ELSE [status |-> "released", actual |-> 0]
  BY <1>1 DEF Commit
<1>7. \A r \in tx[t].new : reservation[r].status = "none" /\ reservation[r].actual = 0
  BY <1>1, <1>2 DEF TxOK, ReservationTable
<1>8. \A r \in tx[t].settles : /\ r \in Reservations /\ r \notin tx[t].new /\ tx[t].settles = {r}
                               /\ reservation[r].status = "reserved" /\ reservation[r].actual = 0
                               /\ ReservationRow(r) \in tx[t].holds
  BY <1>1, <1>2, <1>7 DEF TxOK, ReservationTable
<1>9. ReservationTable'
  <2>1. ASSUME NEW r \in Reservations
        PROVE  /\ reservation'[r].actual \in Nat
               /\ reservation'[r].status # "committed" => reservation'[r].actual = 0
    <3>1. CASE r \in tx[t].new
      BY <1>6, <3>1
    <3>2. CASE r \in tx[t].settles
      BY <1>1, <1>6, <1>8, <3>2
    <3>3. CASE r \notin tx[t].new \cup tx[t].settles
      BY <1>1, <1>6, <3>3 DEF ReservationTable
    <3> QED BY <3>1, <3>2, <3>3
  <2> QED BY <1>6, <2>1 DEF ReservationTable
<1>10. ASSUME NEW u \in Transactions PROVE TxOK(u)'
  <2>1. CASE u = t
    BY <1>3, <2>1 DEF TxOK, Open
  <2>2. CASE u # t /\ Open(u)
    <3>1. TxOK(u) /\ tx'[u] = tx[u]
      BY <1>3, <2>2 DEF UsageInv
    <3>2. tx[u].new \cap tx[t].new = {} /\ tx[u].holds \cap tx[t].holds = {}
      BY <2>2 DEF UsageInv, Apart
    <3>3. (\E r \in Reservations : PathOK(u, r))'
      <4>1. PICK r \in Reservations : PathOK(u, r)
        BY <2>2, <3>1 DEF TxOK
      <4>2. PathOK(u, r)'
        BY <3>1, <4>1 DEF PathOK
      <4> QED BY <4>2
    <3>4. tx[u].settles = {} \/ \E r \in Reservations :
            /\ tx[u].settles = {r} /\ ReservationRow(r) \in tx[u].holds
            /\ reservation'[r].status = "reserved"
      <4>1. ASSUME tx[u].settles # {}
            PROVE  \E r \in Reservations :
                     /\ tx[u].settles = {r} /\ ReservationRow(r) \in tx[u].holds
                     /\ reservation'[r].status = "reserved"
        <5>1. PICK r \in Reservations : /\ tx[u].settles = {r} /\ ReservationRow(r) \in tx[u].holds
                                        /\ reservation[r].status = "reserved"
          BY <2>2, <3>1, <4>1 DEF TxOK
        <5>2. r \notin tx[t].new /\ r \notin tx[t].settles
          BY <1>7, <1>8, <3>2, <5>1
        <5>3. reservation'[r] = reservation[r]
          BY <1>6, <5>2
        <5> QED BY <5>1, <5>3
      <4> QED BY <4>1
    <3>5. \A r \in tx[u].new : reservation'[r].status = "none"
      <4>1. ASSUME NEW r \in tx[u].new PROVE reservation'[r].status = "none"
        <5>1. r \in Reservations /\ reservation[r].status = "none"
          BY <1>1, <2>2, <3>1, <4>1 DEF TxOK, TxTable
        <5>2. r \notin tx[t].new /\ r \notin tx[t].settles
          BY <1>8, <3>2, <4>1, <5>1
        <5>3. reservation'[r] = reservation[r]
          BY <1>6, <5>1, <5>2
        <5> QED BY <5>1, <5>3
      <4> QED BY <4>1
    <3>6. tx[u].found # {} => tx[u].found = totals' /\ UsageRow \in tx[u].holds
      <4>1. ASSUME tx[u].found # {} PROVE tx[u].found = totals' /\ UsageRow \in tx[u].holds
        <5>1. tx[u].found = totals /\ UsageRow \in tx[u].holds
          BY <2>2, <3>1, <4>1 DEF TxOK
        <5>2. tx[t].found = {}
          BY <1>1, <1>2, <3>2, <5>1 DEF TxOK
        <5>3. ~Counts(t)
          BY <1>2, <4>1, <5>1, <5>2
        <5>4. totals' = totals
          BY <5>3 DEF Commit
        <5> QED BY <5>1, <5>4
      <4> QED BY <4>1
    <3>7. UsageRow' = UsageRow /\ \A r : ReservationRow(r)' = ReservationRow(r)
      BY DEF UsageRow, ReservationRow
    <3> QED BY <3>1, <3>3, <3>4, <3>5, <3>6, <3>7 DEF TxOK
  <2>3. CASE u # t /\ ~Open(u)
    BY <1>3, <2>3 DEF TxOK, Open
  <2> QED BY <2>1, <2>2, <2>3
<1>11. totals' = {Reported'} \/ (totals' = {} /\ Reported' = 0)
  <2>1. totals = {Reported} \/ (totals = {} /\ Reported = 0)
    BY DEF UsageInv
  <2>2. CASE ~Counts(t)
    <3>1. totals' = totals
      BY <2>2 DEF Commit
    <3>2. ASSUME NEW r \in Reservations PROVE reservation'[r].actual = reservation[r].actual
      <4>1. CASE r \in tx[t].new
        BY <1>6, <1>7, <4>1
      <4>2. CASE r \in tx[t].settles
        BY <1>6, <1>8, <2>2, <4>2
      <4>3. CASE r \notin tx[t].new \cup tx[t].settles
        BY <1>6, <4>3
      <4> QED BY <4>1, <4>2, <4>3
    <3>3. Reported' = Reported
      BY <3>2, SameReported
    <3> QED BY <2>1, <3>1, <3>3
  <2>3. CASE Counts(t)
    <3>1. PICK s \in tx[t].settles : TRUE
      BY <2>3 DEF Counts
    <3>2. PICK n \in Nat : n = tx[t].actual
      BY <1>1
    <3>3. s \in Reservations /\ reservation[s].actual = 0 /\ reservation'[s].actual = n
      BY <1>6, <1>8, <2>3, <3>1, <3>2
    <3>4. ASSUME NEW r \in Reservations \ {s} PROVE reservation'[r].actual = reservation[r].actual
      <4>1. CASE r \in tx[t].new
        BY <1>6, <1>7, <4>1
      <4>2. CASE r \notin tx[t].new
        BY <1>6, <1>8, <3>1, <3>4, <4>2
      <4> QED BY <4>1, <4>2
    <3>5. Reported' = Reported + n
      BY <1>1, <3>3, <3>4, OneMoreReported
    <3>6. CASE tx[t].found = {}
      <4>1. totals' = {n} /\ totals = {}
        BY <1>2, <2>3, <3>2, <3>6 DEF Commit
      <4> QED BY <2>1, <3>5, <4>1
    <3>7. CASE tx[t].found # {}
      <4>1. tx[t].found = {Reported}
        BY <1>1, <1>2, <2>1, <3>7 DEF TxOK
      <4>2. totals' = {m + n : m \in {Reported}}
        BY <2>3, <3>2, <3>7, <4>1 DEF Commit
      <4> QED BY <3>5, <4>2
    <3> QED BY <3>6, <3>7
  <2> QED BY <2>2, <2>3
<1>12. Ended("duplicate")' \subseteq Ended("duplicate") /\ Ended("deadlock")' \subseteq Ended("deadlock")
  BY <1>3 DEF Ended
<1>13. totals' # {} \/ Ended("duplicate")' # {} => FirstCompletion'
  <2>1. CASE Counts(t) /\ tx[t].found = {}
    <3>1. t \in Ended("committed")' /\ Counts(t)' /\ tx'[t].found = {}
      BY <1>3, <2>1 DEF Ended, Counts
    <3> QED BY <3>1 DEF FirstCompletion
  <2>2. CASE Counts(t) /\ tx[t].found # {}
    <3>1. totals # {}
      BY <1>1, <1>2, <2>2 DEF TxOK
    <3> QED BY <1>5, <3>1 DEF UsageInv
  <2>3. CASE ~Counts(t)
    <3>1. totals' = totals
      BY <2>3 DEF Commit
    <3> QED BY <1>5, <1>12, <3>1 DEF UsageInv
  <2> QED BY <2>1, <2>2, <2>3
<1>14. Ended("duplicate")' \subseteq OfKind("complete")'
  BY <1>5, <1>12 DEF UsageInv
<1>15. Ended("deadlock")' # {} => OfKind("preview")' # {} /\ OfKind("complete")' # {}
  <2>1. OfKind("preview") \subseteq OfKind("preview")' /\ OfKind("complete") \subseteq OfKind("complete")'
    BY <1>5
  <2> QED BY <1>12, <2>1 DEF UsageInv
<1>16. \A u \in Transactions : TxOK(u)'
  BY <1>10
<1> QED BY <1>5, <1>9, <1>11, <1>13, <1>14, <1>15, <1>16 DEF UsageInv

-------------------------------------------------------------------------------
(* Transactions that wait for one another. *)

Waiting(t) == Open(t) /\ tx[t].todo # <<>>
WaitsIn(t) == Head(tx[t].todo)[1]
HoldsOnly(t, tables) == \A row \in tx[t].holds : row[1] \in tables

\* The two orders in which locks are taken.
LEMMA OrderOfLocks ==
  ASSUME UsageInv, NEW t \in Transactions, Waiting(t)
  PROVE  /\ WaitsIn(t) \in {"task", "reservation", "usage"}
         /\ tx[t].kind \in {"create", "preview", "complete", "release"}
         /\ tx[t].kind # "preview" =>
              /\ WaitsIn(t) = "task" => HoldsOnly(t, {})
              /\ WaitsIn(t) = "reservation" => HoldsOnly(t, {"task"})
              /\ HoldsOnly(t, {"task", "reservation"})
         /\ tx[t].kind # "complete" =>
              /\ WaitsIn(t) = "usage" => HoldsOnly(t, {})
              /\ WaitsIn(t) = "task" => HoldsOnly(t, {"usage"})
              /\ HoldsOnly(t, {"usage", "task"})
<1>1. TxOK(t)
  BY DEF UsageInv
<1>2. PICK r \in Reservations : PathOK(t, r)
  BY <1>1 DEF TxOK, Waiting
<1>3. PICK u, a, s : u = UsageRow /\ a = TaskRow(r) /\ s = ReservationRow(r)
  OBVIOUS
<1>4. u[1] = "usage" /\ a[1] = "task" /\ s[1] = "reservation"
  BY <1>3 DEF UsageRow, TaskRow, ReservationRow
<1>5. PICK todo, holds : todo = tx[t].todo /\ holds = tx[t].holds
  OBVIOUS
<1>6. todo # <<>> /\ WaitsIn(t) = Head(todo)[1]
  BY <1>5 DEF Waiting, WaitsIn
<1>7. \A tables : HoldsOnly(t, tables) <=> \A row \in holds : row[1] \in tables
  BY <1>5 DEF HoldsOnly
<1>8. CASE tx[t].kind = "create"
  <2>1. todo = <<u>> /\ holds = {}
    BY <1>2, <1>3, <1>5, <1>6, <1>8 DEF PathOK
  <2>2. Head(todo) = u
    BY <2>1, ShortPaths
  <2> QED BY <1>4, <1>6, <1>7, <1>8, <2>1, <2>2
<1>9. CASE tx[t].kind = "preview"
  <2>1. \/ todo = <<u, a, s>> /\ holds = {}
        \/ todo = <<a, s>> /\ holds \subseteq {u}
        \/ todo = <<s>> /\ holds \subseteq {u, a}
    BY <1>2, <1>3, <1>5, <1>6, <1>9 DEF PathOK
  <2>2. CASE todo = <<u, a, s>> /\ holds = {}
    <3>1. Head(todo) = u
      BY <2>2, ShortPaths
    <3> QED BY <1>4, <1>6, <1>7, <1>9, <2>2, <3>1
  <2>3. CASE todo = <<a, s>> /\ holds \subseteq {u}
    <3>1. Head(todo) = a
      BY <2>3, ShortPaths
    <3> QED BY <1>4, <1>6, <1>7, <1>9, <2>3, <3>1
  <2>4. CASE todo = <<s>> /\ holds \subseteq {u, a}
    <3>1. Head(todo) = s
      BY <2>4, ShortPaths
    <3> QED BY <1>4, <1>6, <1>7, <1>9, <2>4, <3>1
  <2> QED BY <2>1, <2>2, <2>3, <2>4
<1>10. CASE tx[t].kind = "complete"
  <2>1. \/ todo = <<a, s, u>> /\ holds = {}
        \/ todo = <<s, u>> /\ holds \subseteq {a}
        \/ todo = <<u>> /\ holds \subseteq {a, s}
    BY <1>2, <1>3, <1>5, <1>6, <1>10 DEF PathOK
  <2>2. CASE todo = <<a, s, u>> /\ holds = {}
    <3>1. Head(todo) = a
      BY <2>2, ShortPaths
    <3> QED BY <1>4, <1>6, <1>7, <1>10, <2>2, <3>1
  <2>3. CASE todo = <<s, u>> /\ holds \subseteq {a}
    <3>1. Head(todo) = s
      BY <2>3, ShortPaths
    <3> QED BY <1>4, <1>6, <1>7, <1>10, <2>3, <3>1
  <2>4. CASE todo = <<u>> /\ holds \subseteq {a, s}
    <3>1. Head(todo) = u
      BY <2>4, ShortPaths
    <3> QED BY <1>4, <1>6, <1>7, <1>10, <2>4, <3>1
  <2> QED BY <2>1, <2>2, <2>3, <2>4
<1>11. CASE tx[t].kind = "release"
  <2>1. \/ todo = <<a, s>> /\ holds = {}
        \/ todo = <<s>> /\ holds \subseteq {a}
    BY <1>2, <1>3, <1>5, <1>6, <1>11 DEF PathOK
  <2>2. CASE todo = <<a, s>> /\ holds = {}
    <3>1. Head(todo) = a
      BY <2>2, ShortPaths
    <3> QED BY <1>4, <1>6, <1>7, <1>11, <2>2, <3>1
  <2>3. CASE todo = <<s>> /\ holds \subseteq {a}
    <3>1. Head(todo) = s
      BY <2>3, ShortPaths
    <3> QED BY <1>4, <1>6, <1>7, <1>11, <2>3, <3>1
  <2> QED BY <2>1, <2>2, <2>3
<1> QED BY <1>2, <1>8, <1>9, <1>10, <1>11 DEF PathOK

\* One order alone makes no cycle.
LEMMA CyclesNeedBothOrders ==
  ASSUME UsageInv, NEW cycle \in SUBSET Transactions, cycle # {},
         \A u \in cycle : (\E v \in cycle : WaitsFor(u, v)) /\ (\E v \in cycle : WaitsFor(v, u))
  PROVE  OfKind("preview") # {} /\ OfKind("complete") # {}
<1>1. \A u \in cycle : Waiting(u)
  BY DEF WaitsFor, Waiting
<1>2. ASSUME NEW u \in cycle, NEW tables, HoldsOnly(u, tables)
      PROVE  \E v \in cycle : WaitsIn(v) \in tables
  <2>1. PICK v \in cycle : WaitsFor(v, u)
    OBVIOUS
  <2>2. Head(tx[v].todo) \in tx[u].holds
    BY <2>1 DEF WaitsFor
  <2>3. WaitsIn(v) \in tables
    BY <1>2, <2>2 DEF WaitsIn, HoldsOnly
  <2> QED BY <2>3
<1>3. \A u \in cycle : WaitsIn(u) \in {"task", "reservation", "usage"}
  BY <1>1, OrderOfLocks
<1>4. ASSUME \A u \in cycle : tx[u].kind # "preview" PROVE FALSE
  <2>1. \A u \in cycle : WaitsIn(u) # "task"
    <3> SUFFICES ASSUME NEW u \in cycle, WaitsIn(u) = "task" PROVE FALSE
      OBVIOUS
    <3>1. HoldsOnly(u, {})
      BY <1>1, <1>4, OrderOfLocks
    <3> QED BY <1>2, <3>1
  <2>2. \A u \in cycle : WaitsIn(u) # "reservation"
    <3> SUFFICES ASSUME NEW u \in cycle, WaitsIn(u) = "reservation" PROVE FALSE
      OBVIOUS
    <3>1. HoldsOnly(u, {"task"})
      BY <1>1, <1>4, OrderOfLocks
    <3>2. \E v \in cycle : WaitsIn(v) \in {"task"}
      BY <1>2, <3>1
    <3> QED BY <2>1, <3>2
  <2>3. PICK u \in cycle : TRUE
    OBVIOUS
  <2>4. HoldsOnly(u, {"task", "reservation"})
    BY <1>1, <1>4, OrderOfLocks
  <2>5. \E v \in cycle : WaitsIn(v) \in {"task", "reservation"}
    BY <1>2, <2>4
  <2> QED BY <2>1, <2>2, <2>5
<1>5. ASSUME \A u \in cycle : tx[u].kind # "complete" PROVE FALSE
  <2>1. \A u \in cycle : WaitsIn(u) # "usage"
    <3> SUFFICES ASSUME NEW u \in cycle, WaitsIn(u) = "usage" PROVE FALSE
      OBVIOUS
    <3>1. HoldsOnly(u, {})
      BY <1>1, <1>5, OrderOfLocks
    <3> QED BY <1>2, <3>1
  <2>2. \A u \in cycle : WaitsIn(u) # "task"
    <3> SUFFICES ASSUME NEW u \in cycle, WaitsIn(u) = "task" PROVE FALSE
      OBVIOUS
    <3>1. HoldsOnly(u, {"usage"})
      BY <1>1, <1>5, OrderOfLocks
    <3>2. \E v \in cycle : WaitsIn(v) \in {"usage"}
      BY <1>2, <3>1
    <3> QED BY <2>1, <3>2
  <2>3. PICK u \in cycle : TRUE
    OBVIOUS
  <2>4. HoldsOnly(u, {"usage", "task"})
    BY <1>1, <1>5, OrderOfLocks
  <2>5. \E v \in cycle : WaitsIn(v) \in {"usage", "task"}
    BY <1>2, <2>4
  <2> QED BY <2>1, <2>2, <2>5
<1> QED BY <1>4, <1>5 DEF OfKind

-------------------------------------------------------------------------------
(* The invariant. *)

LEMMA UsageStarts ==
  ASSUME UsageInit
  PROVE  UsageInv
<1>1. TxTable
  <2>1. TxFields \subseteq DOMAIN NoTx /\ NoTx.actual \in Nat /\ NoTx.new = {} /\ NoTx.holds = {}
    BY DEF NoTx, TxFields
  <2>2. \A t \in Transactions : tx[t] = NoTx
    BY DEF UsageInit
  <2>3. tx = [t \in Transactions |-> tx[t]]
    BY DEF UsageInit
  <2> HIDE DEF NoTx
  <2> QED BY <2>1, <2>2, <2>3 DEF TxTable
<1>2. ReservationTable
  BY DEF UsageInit, ReservationTable
<1>3. /\ NoTx.new = {} /\ NoTx.holds = {} /\ NoTx.phase = "idle"
      /\ \A t \in Transactions : tx[t] = NoTx
  BY DEF UsageInit, NoTx
<1>4. Apart /\ \A t \in Transactions : TxOK(t)
  BY <1>3 DEF Apart, TxOK, Open
<1>5. Ended("duplicate") = {} /\ Ended("deadlock") = {}
  BY <1>3 DEF Ended
<1>6. totals = {} /\ Reported = 0
  <2>1. UNION {{r} \X (1..reservation[r].actual) : r \in Reservations} = {}
    <3>1. \A r \in Reservations : reservation[r].actual = 0
      BY DEF UsageInit
    <3>2. 1..0 = {}
      OBVIOUS
    <3> QED BY <3>1, <3>2
  <2>2. Cardinality({}) = 0
    BY FS_EmptySet
  <2> QED BY <2>1, <2>2 DEF UsageInit, Reported
<1> QED BY <1>1, <1>2, <1>4, <1>5, <1>6 DEF UsageInv

LEMMA UsageStep ==
  ASSUME UsageInv, [UsageNext]_usageVars
  PROVE  UsageInv'
<1>1. CASE UsageNext
  <2> SUFFICES ASSUME NEW t \in Transactions,
                      \/ CreateTask(t) \/ CreatePreview(t) \/ Complete(t) \/ Release(t)
                      \/ LockRow(t) \/ Commit(t) \/ Duplicate(t) \/ Deadlock(t) \/ CallFails(t)
               PROVE  UsageInv'
    BY <1>1 DEF UsageNext
  <2>1. CASE CreateTask(t) \/ CreatePreview(t) \/ Complete(t) \/ Release(t)
    BY <2>1, BeginsTx
  <2>2. CASE LockRow(t)
    BY <2>2, LockRowStep
  <2>3. CASE Commit(t)
    BY <2>3, CommitStep
  <2>4. CASE Duplicate(t)
    <3>1. /\ Open(t) /\ Closes(t, "duplicate") /\ UNCHANGED <<reservation, totals>>
          /\ totals # {} /\ tx[t].kind = "complete"
      BY <2>4 DEF Duplicate, Done, Counts
    <3>2. PICK phase \in {"duplicate", "deadlock", "failed"} : phase = "duplicate"
      OBVIOUS
    <3>3. Closes(t, phase) /\ phase # "deadlock"
      BY <3>1, <3>2
    <3> QED BY <3>1, <3>3, RolledBack
  <2>5. CASE Deadlock(t)
    <3>1. PICK cycle \in SUBSET Transactions :
            /\ t \in cycle
            /\ \A u \in cycle : (\E v \in cycle : WaitsFor(u, v)) /\ (\E v \in cycle : WaitsFor(v, u))
      BY <2>5 DEF Deadlock
    <3>2. OfKind("preview") # {} /\ OfKind("complete") # {}
      BY <3>1, CyclesNeedBothOrders
    <3>3. Open(t)
      BY <3>1 DEF WaitsFor
    <3>4. PICK phase \in {"duplicate", "deadlock", "failed"} : phase = "deadlock"
      OBVIOUS
    <3>5. Closes(t, phase) /\ phase # "duplicate" /\ UNCHANGED <<reservation, totals>>
      BY <2>5, <3>4 DEF Deadlock
    <3> QED BY <3>2, <3>3, <3>5, RolledBack
  <2>6. CASE CallFails(t)
    <3>1. PICK phase \in {"duplicate", "deadlock", "failed"} : phase = "failed"
      OBVIOUS
    <3>2. /\ Open(t) /\ Closes(t, phase) /\ UNCHANGED <<reservation, totals>>
          /\ phase # "duplicate" /\ phase # "deadlock"
      BY <2>6, <3>1 DEF CallFails
    <3> QED BY <3>2, RolledBack
  <2> QED BY <2>1, <2>2, <2>3, <2>4, <2>5, <2>6
<1>2. CASE UNCHANGED usageVars
  <2>1. /\ UNCHANGED <<reservation, totals, tx>>
    BY <1>2 DEF usageVars
  <2>2. Reported' = Reported /\ TxTable' /\ ReservationTable' /\ Apart' /\ (FirstCompletion => FirstCompletion')
    BY <2>1 DEF UsageInv, Reported, TxTable, ReservationTable, Apart, FirstCompletion, Ended, Counts
  <2>3. \A t \in Transactions : TxOK(t)'
    <3> SUFFICES ASSUME NEW t \in Transactions PROVE TxOK(t)'
      OBVIOUS
    <3>1. TxOK(t)
      BY DEF UsageInv
    <3> QED BY <2>1, <3>1 DEF TxOK, PathOK, Open
  <2>4. \A p : Ended(p)' = Ended(p) /\ OfKind(p)' = OfKind(p)
    BY <2>1 DEF Ended, OfKind
  <2> QED BY <2>1, <2>2, <2>3, <2>4 DEF UsageInv
<1> QED BY <1>1, <1>2

\* reserveUsage(), commitUsage() and releaseUsage() in transactions that lock row by row:
\* an open transaction stands on the path of its locks, two hold no row in common, one
\* that settles a reservation holds it and it is reserved, one that found the total holds
\* the usage row and the total is still what it found.
THEOREM UsageInvariance == UsageSpec => []UsageInv
<1>1. UsageInit => UsageInv
  BY UsageStarts
<1>2. UsageInv /\ [UsageNext]_usageVars => UsageInv'
  BY UsageStep
<1> QED BY <1>1, <1>2, PTL DEF UsageSpec

\* The total of commitUsage() is the sum of what tasks reported, each once, and only two
\* first completions, or a preview and a completion, end each other's transactions.
THEOREM UsageStaysAccounted == UsageSpec => []UsageIsAccounted
<1>1. UsageInv => UsageIsAccounted
  BY DEF UsageInv, UsageIsAccounted, FirstCompletion
<1> QED BY <1>1, UsageInvariance, PTL

-------------------------------------------------------------------------------
(* The components together. *)

CommentWork == CommentKinds \cup ApprovalKinds \cup {"new_version"}
DocWork     == DocKinds \cup {"session_archive"}

\* Nothing was asked of anybody yet: no result, no cached promise and no link that runs out.
Untouched ==
  /\ asked = {} /\ \A p \in Processes : bucket[p] = "unasked"
  /\ \A w \in Alive("workflow") : rows[w].expires # "later"

\* The invariant of a component holds as long as only its requests are at work.
CollaborationInv ==
  /\ RequestInv
  /\ Only(CommentWork) => CommentInv
  /\ Only(DocWork) => DocInv
  /\ Only(CreationKinds) => CreationInv
  /\ Only(ProjectKinds) => ProjectInv
  /\ Only({}) => Untouched
  /\ \/ Only(CommentWork) \/ Only(DocWork) \/ Only(CreationKinds) \/ Only(ProjectKinds)

\* Some request has begun.
Begun == \E q \in Requests : job[q].kind # "none"

LEMMA KindsAreDisjoint ==
  /\ \A K \in {DocWork, CreationKinds, ProjectKinds} : CommentWork \cap K = {}
  /\ \A K \in {CreationKinds, ProjectKinds} : DocWork \cap K = {}
  /\ CreationKinds \cap ProjectKinds = {}
  /\ "none" \notin CommentWork \cup DocWork \cup CreationKinds \cup ProjectKinds
BY DEF CommentWork, DocWork, CommentKinds, ApprovalKinds, DocKinds, CreationKinds, ConceptKinds,
       AssetKinds, SuggestionKinds, ProjectKinds

\* Once a request has begun, the kinds at work are of one component.
LEMMA OneComponent ==
  ASSUME NEW K, NEW L, K \cap L = {}, Only(K), Only(L)
  PROVE  ~Begun
BY DEF Only, Begun

LEMMA CommentsBegin ==
  ASSUME CommentInv, CommentNext
  PROVE  CommentInv' /\ Only(CommentWork)' /\ Begun'
<1>1. PICK q \in Requests : CommentEffect(q)
  BY CommentMoves
<1>2. CommentInv' /\ job'[q].kind \in CommentWork
  BY <1>1, CommentStep DEF CommentEffect, CommentWork
<1>3. Only(CommentWork)'
  BY <1>2 DEF CommentInv, Only, CommentWork
<1> QED BY <1>2, <1>3, KindsAreDisjoint DEF Begun

LEMMA CreationsBegin ==
  ASSUME CreationInv, CreationNext
  PROVE  CreationInv' /\ Only(CreationKinds)' /\ Begun'
<1>1. PICK q \in Requests : CreationEffect(q)
  BY CreationMoves
<1>2. CreationInv' /\ job'[q].kind \in CreationKinds
  BY <1>1, CreationStep DEF CreationEffect
<1>3. Only(CreationKinds)'
  BY <1>2 DEF CreationInv, Only
<1> QED BY <1>2, <1>3, KindsAreDisjoint DEF Begun

LEMMA DocumentsBegin ==
  ASSUME DocInv, DocNext, Only({}) => Untouched
  PROVE  DocInv' /\ Only(DocWork)' /\ Begun'
<1>1. DocInv'
  BY DocSteps
<1>2. Only(DocWork)'
  BY <1>1 DEF DocInv, Only, DocWork
<1>3. CASE \E q \in Requests : DocEffect(q)
  <2>1. PICK q \in Requests : job'[q].kind \in DocWork
    BY <1>3 DEF DocEffect, DocWork
  <2> QED BY <1>1, <1>2, <2>1, KindsAreDisjoint DEF Begun
<1>4. CASE \/ \E id \in Ids("document") : WorkerResult(id)
           \/ \E p \in Processes : Restart(p)
  <2>1. ~Only({})
    BY <1>4 DEF WorkerResult, Restart, Untouched
  <2>2. PICK q \in Requests : job[q].kind # "none"
    BY <2>1 DEF Only
  <2>3. job'[q].kind = job[q].kind
    <3>1. CASE \E id \in Ids("document") : WorkerResult(id)
      BY <3>1 DEF WorkerResult, requestVars
    <3>2. CASE \E p \in Processes : Restart(p)
      <4>1. PICK p \in Processes : Restart(p)
        BY <3>2
      <4>2. job'[q] = job[q] \/ job'[q] = [Answered(job[q].kind, "failed") EXCEPT !.at = p]
        BY <4>1 DEF Restart
      <4> QED BY <4>2 DEF Answered, NoJob
    <3> QED BY <1>4, <3>1, <3>2
  <2> QED BY <1>1, <1>2, <2>2, <2>3 DEF Begun
<1> QED BY <1>3, <1>4, DocMoves

\* What a step of a request leaves as its kind.
LEMMA KindStays ==
  ASSUME RequestInv, NEW q \in Requests, job[q].kind # "none",
         NEW j, job' = [job EXCEPT ![q] = j], j.kind = job[q].kind
  PROVE  Begun'
BY DEF RequestInv, Begun

LEMMA BegunWith ==
  ASSUME RequestInv, NEW q \in Requests, NEW j, Begins(q, j)
  PROVE  Begun'
BY RequestsAssumption DEF RequestInv, Begins, Begun

LEMMA GoneOn ==
  ASSUME RequestInv, NEW q \in Requests, job[q].kind # "none",
         \/ \E phase : Goes(q, phase)
         \/ \E outcome : Ends(q, outcome)
         \/ Fails(q)
         \/ \E table, kinds : InsertRow(q, kinds, table)
  PROVE  Begun'
<1>1. CASE \E phase : Goes(q, phase)
  <2>1. PICK phase : job' = [job EXCEPT ![q].phase = phase]
    BY <1>1 DEF Goes
  <2>2. PICK j : j = [job[q] EXCEPT !.phase = phase]
    OBVIOUS
  <2>3. job' = [job EXCEPT ![q] = j] /\ j.kind = job[q].kind
    BY <2>1, <2>2 DEF RequestInv, JobFields
  <2> QED BY <2>3, KindStays
<1>2. CASE (\E outcome : Ends(q, outcome)) \/ Fails(q)
  <2>1. PICK outcome : job' = [job EXCEPT ![q] = [Answered(@.kind, outcome) EXCEPT !.at = job[q].at]]
    BY <1>2 DEF Ends, Fails
  <2>2. PICK j : j = [Answered(job[q].kind, outcome) EXCEPT !.at = job[q].at]
    OBVIOUS
  <2>3. job' = [job EXCEPT ![q] = j] /\ j.kind = job[q].kind
    BY <2>1, <2>2 DEF Answered, NoJob
  <2> QED BY <2>3, KindStays
<1>3. CASE \E table, kinds : InsertRow(q, kinds, table)
  <2>1. PICK table : job' = [job EXCEPT ![q].phase = job[q].then, ![q].row = FirstFree(table)]
    BY <1>3 DEF InsertRow
  <2>2. PICK id : id = FirstFree(table)
    OBVIOUS
  <2>3. PICK j : j = [job[q] EXCEPT !.phase = job[q].then, !.row = id]
    OBVIOUS
  <2>4. job' = [job EXCEPT ![q] = j] /\ j.kind = job[q].kind
    BY <2>1, <2>2, <2>3 DEF RequestInv, JobFields
  <2> QED BY <2>4, KindStays
<1> QED BY <1>1, <1>2, <1>3

LEMMA ProjectsBegin ==
  ASSUME ProjectInv, ProjectNext, Only({}) => Untouched
  PROVE  ProjectInv' /\ Only(ProjectKinds)' /\ Begun'
<1>1. ProjectInv'
  BY ProjectSteps
<1>2. Only(ProjectKinds)'
  BY <1>1 DEF ProjectInv, Only
<1>3. RequestInv
  BY DEF ProjectInv
<1>4. CASE LinkExpires
  <2>1. ~Only({}) /\ UNCHANGED job
    BY <1>4 DEF LinkExpires, Untouched, requestVars
  <2> QED BY <1>1, <1>2, <2>1 DEF Only, Begun
<1>5. ASSUME NEW q \in Requests,
             \/ CreateProject(q) \/ DeleteProject(q) \/ CreateWorkflow(q) \/ CreateShare(q)
             \/ ViewShared(q)
      PROVE  Begun'
  <2>1. CASE CreateProject(q)
    BY <1>3, <2>1, BegunWith DEF CreateProject, NewRowOf
  <2>2. CASE DeleteProject(q)
    BY <1>3, <2>2, BegunWith DEF DeleteProject
  <2>3. CASE CreateWorkflow(q)
    BY <1>3, <2>3, BegunWith DEF CreateWorkflow, NewRowOf
  <2>4. CASE CreateShare(q)
    BY <1>3, <2>4, BegunWith DEF CreateShare
  <2>5. CASE ViewShared(q)
    BY <1>3, <2>5, BegunWith DEF ViewShared
  <2> QED BY <1>5, <2>1, <2>2, <2>3, <2>4, <2>5
<1>6. ASSUME NEW q \in Requests,
             \/ InsertProject(q) \/ EraseProject(q) \/ AuditProject(q)
             \/ InsertWorkflow(q) \/ InsertVersion(q) \/ SaveWorkflow(q) \/ AuditWorkflow(q)
             \/ CountView(q)
             \/ job[q].kind \in ProjectKinds /\ Fails(q) /\ UNCHANGED rows
      PROVE  Begun'
  <2>1. job[q].kind # "none"
    BY <1>6, KindsAreDisjoint
       DEF InsertProject, EraseProject, AuditProject, AuditedRow, InsertWorkflow, InsertVersion,
           SaveWorkflow, AuditWorkflow, CountView, At, InsertRow
  <2>2. \/ \E phase : Goes(q, phase)
        \/ \E outcome : Ends(q, outcome)
        \/ Fails(q)
        \/ \E table, kinds : InsertRow(q, kinds, table)
    <3>1. CASE InsertProject(q) \/ InsertWorkflow(q)
      BY <3>1 DEF InsertProject, InsertWorkflow
    <3>2. CASE EraseProject(q)
      BY <3>2 DEF EraseProject
    <3>3. CASE AuditProject(q) \/ CountView(q)
      BY <3>3 DEF AuditProject, AuditedRow, CountView
    <3>4. CASE InsertVersion(q) \/ SaveWorkflow(q) \/ AuditWorkflow(q)
      BY <3>4 DEF InsertVersion, SaveWorkflow, AuditWorkflow
    <3> QED BY <1>6, <3>1, <3>2, <3>3, <3>4
  <2> QED BY <1>3, <2>1, <2>2, GoneOn
<1> QED BY <1>1, <1>2, <1>4, <1>5, <1>6 DEF ProjectNext

\* The rows that exist at the beginning.
LEMMA FirstRows ==
  ASSUME Init
  PROVE  /\ rows = [id \in DOMAIN rows |-> rows[id]] /\ IsFiniteSet(DOMAIN rows)
         /\ \A id \in DOMAIN rows : id[2] \in Nat
         /\ \A table \in {"document", "concept", "asset", "suggestion"} : Existing(table) = {}
         /\ Existing("comment") = {Comment1} /\ rows[Comment1] = NewComment("u1", "t1", {})
         /\ Existing("project") = {<<"project", 1>>} /\ rows[<<"project", 1>>] = NewProject("n1")
         /\ Existing("workflow") = {<<"workflow", 1>>}
         /\ rows[<<"workflow", 1>>] = [NewWorkflow({<<"project", 1>>}) EXCEPT
                                         !.versions = 1, !.current = 1, !.audited = TRUE]
<1> DEFINE Workflow1 == [NewWorkflow({<<"project", 1>>}) EXCEPT
                           !.versions = 1, !.current = 1, !.audited = TRUE]
<1>1. rows = [id \in TableNames \X (1..3) |-> FirstRow(id)] /\ DOMAIN rows = TableNames \X (1..3)
  BY DEF Init
<1>2. /\ FirstRow(Comment1) = NewComment("u1", "t1", {})
      /\ FirstRow(<<"project", 1>>) = NewProject("n1")
      /\ FirstRow(<<"workflow", 1>>) = Workflow1
      /\ \A id : id \notin {Comment1, <<"project", 1>>, <<"workflow", 1>>} => FirstRow(id) = NoRow
  BY DEF FirstRow, Comment1
<1>3. IsFiniteSet(TableNames \X (1..3))
  <2>1. \A x, y, z : IsFiniteSet({x, y}) /\ IsFiniteSet({x, y, z})
    <3>1. ASSUME NEW x, NEW y, NEW z PROVE IsFiniteSet({x, y}) /\ IsFiniteSet({x, y, z})
      <4>1. IsFiniteSet({x} \cup {y}) /\ IsFiniteSet(({x} \cup {y}) \cup {z})
        BY FS_Singleton, FS_AddElement
      <4>2. {x, y} = {x} \cup {y} /\ {x, y, z} = ({x} \cup {y}) \cup {z}
        OBVIOUS
      <4> QED BY <4>1, <4>2
    <3> QED BY <3>1
  <2>2. PICK A, B, C : /\ A = {"comment", "document", "concept"} /\ B = {"asset", "suggestion"}
                       /\ C = {"project", "workflow"}
    OBVIOUS
  <2>3. IsFiniteSet(A) /\ IsFiniteSet(B) /\ IsFiniteSet(C)
    BY <2>1, <2>2
  <2>4. IsFiniteSet(A \cup B)
    BY <2>3, FS_Union
  <2>5. IsFiniteSet((A \cup B) \cup C)
    BY <2>3, <2>4, FS_Union
  <2>6. TableNames = (A \cup B) \cup C
    BY <2>2 DEF TableNames
  <2>7. IsFiniteSet(TableNames)
    BY <2>5, <2>6
  <2>8. IsFiniteSet(1..3)
    <3>1. 1 \in Int /\ 3 \in Int
      OBVIOUS
    <3> QED BY <3>1, FS_Interval, Zenon
  <2> QED BY <2>7, <2>8, FS_Product
<1>4. /\ NewComment("u1", "t1", {}) # NoRow /\ NewProject("n1") # NoRow /\ Workflow1 # NoRow
  BY DEF NewComment, NewProject, NewWorkflow, NoRow
<1>5. /\ Comment1 \in DOMAIN rows /\ <<"project", 1>> \in DOMAIN rows
      /\ <<"workflow", 1>> \in DOMAIN rows
  BY <1>1 DEF TableNames, Comment1
<1> HIDE DEF Workflow1
<1>6. /\ rows[Comment1] = NewComment("u1", "t1", {}) /\ rows[<<"project", 1>>] = NewProject("n1")
      /\ rows[<<"workflow", 1>>] = Workflow1
  BY <1>1, <1>2, <1>5
<1>7. \A id \in DOMAIN rows : Has(id) <=> id \in {Comment1, <<"project", 1>>, <<"workflow", 1>>}
  BY <1>1, <1>2, <1>4, <1>6 DEF Has
<1>8. /\ rows = [id \in DOMAIN rows |-> rows[id]] /\ IsFiniteSet(DOMAIN rows)
      /\ \A id \in DOMAIN rows : id[2] \in Nat
  BY <1>1, <1>3
<1>9. /\ \A table \in {"document", "concept", "asset", "suggestion"} : Existing(table) = {}
      /\ Existing("comment") = {Comment1} /\ Existing("project") = {<<"project", 1>>}
      /\ Existing("workflow") = {<<"workflow", 1>>}
  BY <1>5, <1>7 DEF Existing, Ids, Comment1
<1> QED BY <1>6, <1>8, <1>9 DEF Workflow1

LEMMA CollaborationBegins == Init => CollaborationInv
<1> SUFFICES ASSUME Init PROVE CollaborationInv
  OBVIOUS
<1>1. RequestInv
  BY RequestsBegin DEF Init
<1>2. \A q \in Requests : job[q].kind = "none" /\ job[q].phase = "idle"
  BY DEF Init, RequestInit, NoJob
<1>3. /\ rows = [id \in DOMAIN rows |-> rows[id]] /\ IsFiniteSet(DOMAIN rows)
      /\ \A id \in DOMAIN rows : id[2] \in Nat
  BY FirstRows
<1>4. \A table \in {"document", "concept", "asset", "suggestion"} : Existing(table) = {}
  BY FirstRows
<1>5. CommentInv
  <2>1. CommentRow(NewComment("u1", "t1", {}))
    BY DEF CommentRow, NewComment, CommentColumns
  <2>2. CommentTable
    BY <1>3, <2>1, FirstRows DEF CommentTable
  <2>3. ApprovedOK
    <3>1. approved = <<{}>> /\ {} \in SUBSET Elements
      BY DEF Init, CommentsInit
    <3> QED BY <3>1 DEF ApprovedOK
  <2>4. ASSUME NEW q \in Requests
        PROVE  CommentWorkOK(q) /\ ResolvedStays(q) /\ ApprovedStays(q)
    BY <1>2 DEF CommentWorkOK, Busy, ResolvedStays, ApprovedStays, HasWritten
  <2> QED BY <1>1, <1>2, <2>2, <2>3, <2>4 DEF CommentInv
<1>6. DocInv
  <2>1. Documents = {}
    BY <1>4 DEF Documents
  <2>2. DocTable
    BY <1>3, <2>1 DEF DocTable
  <2>3. ObjectsThere /\ AskedExist /\ VersionsOfDocsDiffer
    BY <2>1 DEF ObjectsThere, AskedExist, VersionsOfDocsDiffer, Init, DocsInit
  <2>4. LimitKept
    <3>1. UNION {Bytes(id) : id \in Documents} = {}
      BY <2>1
    <3>2. SessionBytes = 0
      BY <3>1, FS_EmptySet DEF SessionBytes
    <3> QED BY <3>2, SizesAssumption DEF LimitKept
  <2>5. ASSUME NEW q \in Requests
        PROVE  DocWorkOK(q) /\ DeletedStays(q)
    BY <1>2 DEF DocWorkOK, Busy, DeletedStays, HasWritten
  <2> QED BY <1>1, <1>2, <2>2, <2>3, <2>4, <2>5 DEF DocInv
<1>7. CreationInv
  <2>1. Existing("concept") = {} /\ Existing("asset") = {} /\ Existing("suggestion") = {}
    BY <1>4
  <2>2. CreationTables
    <3>1. \A id \in DOMAIN rows : Has(id) => RowOf(id[1], rows[id])
      BY <2>1 DEF Existing, Ids, RowOf
    <3>2. 0 \in Nat /\ \A id \in Existing("asset") : rows[id].version <= 0
      BY <2>1
    <3> QED BY <1>3, <3>1, <3>2 DEF CreationTables
  <2>3. \A q \in Requests : job[q].kind \in CreationKinds \cup {"none"} /\ WorkOK(q) /\ ClosedOK(q)
    BY <1>2 DEF WorkOK, Busy, ClosedOK
  <2>4. VersionsDiffer /\ DecidedOnce
    BY <2>1 DEF VersionsDiffer, DecidedOnce
  <2> QED BY <1>1, <2>2, <2>3, <2>4 DEF CreationInv
<1>8. Alive("project") \subseteq {<<"project", 1>>} /\ Alive("workflow") \subseteq {<<"workflow", 1>>}
  BY FirstRows DEF Alive
<1>9. PICK w : w = [NewWorkflow({<<"project", 1>>}) EXCEPT !.versions = 1, !.current = 1, !.audited = TRUE]
  OBVIOUS
<1>10. /\ WorkflowRow(w) /\ w.max = {} /\ w.current = 1 /\ w.versions = 1 /\ w.token = "none"
       /\ w.expires = "never"
  BY <1>9 DEF NewWorkflow, WorkflowRow, WorkflowColumns
<1>11. rows[<<"workflow", 1>>] = w /\ rows[<<"project", 1>>] = NewProject("n1")
  BY <1>9, FirstRows
<1>12. ProjectInv
  <2>1. ProjectRow(NewProject("n1"))
    BY DEF ProjectRow, NewProject
  <2>2. ProjectTables
    <3>1. \A id \in DOMAIN rows : Has(id) => \/ id = <<"project", 1>>
                                              \/ id = <<"workflow", 1>>
                                              \/ id[1] \notin {"project", "workflow"}
      BY FirstRows DEF Existing, Ids
    <3>2. \A id \in DOMAIN rows : Has(id) =>
            \/ id[1] = "project" /\ ProjectRow(rows[id])
            \/ id[1] = "workflow" /\ WorkflowRow(rows[id])
            \/ id[1] \notin {"project", "workflow"}
      BY <1>10, <1>11, <2>1, <3>1
    <3> QED BY <1>3, <3>2 DEF ProjectTables
  <2>3. NamesDiffer
    BY <1>8 DEF NamesDiffer
  <2>4. LimitsKept /\ VersionsThere
    BY <1>8, <1>10, <1>11 DEF LimitsKept, WithinLimit, VersionsThere
  <2>5. TokensDiffer
    BY <1>8, <1>10, <1>11, LimitsAssumption DEF TokensDiffer
  <2>6. \A q \in Requests : job[q].kind \in ProjectKinds \cup {"none"} /\ LinkOK(q)
    BY <1>2 DEF LinkOK, Busy
  <2> QED BY <1>1, <2>2, <2>3, <2>4, <2>5, <2>6 DEF ProjectInv, ProjectRows
<1>13. Untouched
  <2>1. asked = {} /\ \A p \in Processes : bucket[p] = "unasked"
    BY DEF Init, DocsInit
  <2> QED BY <1>8, <1>10, <1>11, <2>1 DEF Untouched
<1>14. Only(ProjectKinds)
  BY <1>2 DEF Only
<1> QED BY <1>1, <1>5, <1>6, <1>7, <1>12, <1>13, <1>14 DEF CollaborationInv

\* What a component's step leaves to the others: they have no request.
LEMMA OnlyOne ==
  ASSUME RequestInv', Begun',
         \/ Only(CommentWork)' /\ CommentInv'
         \/ Only(DocWork)' /\ DocInv'
         \/ Only(CreationKinds)' /\ CreationInv'
         \/ Only(ProjectKinds)' /\ ProjectInv'
  PROVE  CollaborationInv'
<1>1. \A K, L : K \cap L = {} /\ Only(K)' => ~Only(L)'
  BY DEF Only, Begun
<1>2. ~Only({})'
  BY DEF Only, Begun
<1>3. CASE Only(CommentWork)' /\ CommentInv'
  <2>1. ~Only(DocWork)' /\ ~Only(CreationKinds)' /\ ~Only(ProjectKinds)'
    BY <1>1, <1>3, KindsAreDisjoint
  <2> QED BY <1>2, <1>3, <2>1 DEF CollaborationInv
<1>4. CASE Only(DocWork)' /\ DocInv'
  <2>1. ~Only(CommentWork)' /\ ~Only(CreationKinds)' /\ ~Only(ProjectKinds)'
    BY <1>1, <1>4, KindsAreDisjoint
  <2> QED BY <1>2, <1>4, <2>1 DEF CollaborationInv
<1>5. CASE Only(CreationKinds)' /\ CreationInv'
  <2>1. ~Only(CommentWork)' /\ ~Only(DocWork)' /\ ~Only(ProjectKinds)'
    BY <1>1, <1>5, KindsAreDisjoint
  <2> QED BY <1>2, <1>5, <2>1 DEF CollaborationInv
<1>6. CASE Only(ProjectKinds)' /\ ProjectInv'
  <2>1. ~Only(CommentWork)' /\ ~Only(DocWork)' /\ ~Only(CreationKinds)'
    BY <1>1, <1>6, KindsAreDisjoint
  <2> QED BY <1>2, <1>6, <2>1 DEF CollaborationInv
<1> QED BY <1>3, <1>4, <1>5, <1>6

\* A step of the health check or of the usage, or none, leaves requests and tables as they are.
LEMMA NothingSent ==
  ASSUME CollaborationInv, UNCHANGED <<requestVars, rows, approved, docVars>>
  PROVE  CollaborationInv'
<1>1. UNCHANGED <<job, alone, rows, approved, objects, asked, results, bucket>>
  BY DEF requestVars, docVars
<1>2. RequestInv' /\ \A K : Only(K)' <=> Only(K)
  BY <1>1 DEF CollaborationInv, RequestInv, Solitude, Busy, Only
<1>3. Untouched => Untouched'
  BY <1>1 DEF Untouched, Alive, Existing, Ids, Has
<1> QED BY <1>1, <1>2, <1>3, CommentsRest, DocumentsRest, CreationsRest, ProjectsRest
        DEF CollaborationInv

LEMMA CollaborationSteps ==
  ASSUME CollaborationInv, [Next]_vars
  PROVE  CollaborationInv'
<1>1. CASE UNCHANGED <<requestVars, rows, approved, docVars>>
  BY <1>1, NothingSent
<1>2. CASE RequestNext
  <2>1. CASE /\ Only(CommentKinds) \/ Only(ApprovalKinds \cup {"new_version"})
             /\ CommentNext
    <3>1. Only(CommentWork)
      BY <2>1 DEF Only, CommentWork
    <3>2. CommentInv
      BY <3>1 DEF CollaborationInv
    <3>3. CommentInv' /\ Only(CommentWork)' /\ Begun'
      BY <2>1, <3>2, CommentsBegin
    <3>4. RequestInv'
      BY <3>3 DEF CommentInv
    <3> QED BY <3>3, <3>4, OnlyOne
  <2>2. CASE Only(DocKinds \cup {"session_archive"}) /\ DocNext
    <3>1. DocInv /\ (Only({}) => Untouched)
      BY <2>2 DEF CollaborationInv, DocWork
    <3>2. DocInv' /\ Only(DocWork)' /\ Begun'
      BY <2>2, <3>1, DocumentsBegin
    <3>3. RequestInv'
      BY <3>2 DEF DocInv
    <3> QED BY <3>2, <3>3, OnlyOne
  <2>3. CASE Only(CreationKinds) /\ CreationNext
    <3>1. CreationInv
      BY <2>3 DEF CollaborationInv
    <3>2. CreationInv' /\ Only(CreationKinds)' /\ Begun'
      BY <2>3, <3>1, CreationsBegin
    <3>3. RequestInv'
      BY <3>2 DEF CreationInv
    <3> QED BY <3>2, <3>3, OnlyOne
  <2>4. CASE Only(ProjectKinds) /\ ProjectNext
    <3>1. ProjectInv /\ (Only({}) => Untouched)
      BY <2>4 DEF CollaborationInv
    <3>2. ProjectInv' /\ Only(ProjectKinds)' /\ Begun'
      BY <2>4, <3>1, ProjectsBegin
    <3>3. RequestInv'
      BY <3>2 DEF ProjectInv
    <3> QED BY <3>2, <3>3, OnlyOne
  <2> QED BY <1>2, <2>1, <2>2, <2>3, <2>4 DEF RequestNext
<1>3. [Next]_vars => RequestNext \/ UNCHANGED <<requestVars, rows, approved, docVars>>
  BY DEF Next, vars
<1> QED BY <1>1, <1>2, <1>3

\* What a reviewer, an owner or an editor decided while no other request was at work is never
\* undone, in the composition of the four components as TLC runs it, but for any number of
\* requests, files, texts and failed calls.
THEOREM DecisionsStick == Spec => []UndisturbedDecisionsStick
<1>1. CollaborationInv => UndisturbedDecisionsStick
  <2> SUFFICES ASSUME CollaborationInv PROVE UndisturbedDecisionsStick
    OBVIOUS
  <2>1. CommentsStick
    <3>1. CASE Only(CommentWork)
      BY <3>1, CommentsKept DEF CollaborationInv
    <3>2. CASE ~Only(CommentWork)
      <4>1. PICK K \in {DocWork, CreationKinds, ProjectKinds} : Only(K)
        BY <3>2 DEF CollaborationInv
      <4>2. \A q \in Requests : job[q].kind \notin CommentWork
        BY <4>1, KindsAreDisjoint DEF Only
      <4>3. \A q \in Requests : ~HasWritten(q, {"comment_delete", "comment_resolve"})
                                /\ ~HasWritten(q, ApprovalKinds)
        BY <4>2 DEF HasWritten, CommentWork, CommentKinds
      <4> QED BY <4>3 DEF CommentsStick, Sticks
    <3> QED BY <3>1, <3>2
  <2>2. DeletionsStick
    <3>1. CASE Only(DocWork)
      BY <3>1, DeletionsKept DEF CollaborationInv
    <3>2. CASE ~Only(DocWork)
      <4>1. PICK K \in {CommentWork, CreationKinds, ProjectKinds} : Only(K)
        BY <3>2 DEF CollaborationInv
      <4>2. \A q \in Requests : job[q].kind \notin DocWork
        BY <4>1, KindsAreDisjoint DEF Only
      <4>3. \A q \in Requests : ~HasWritten(q, {"document_delete"})
        BY <4>2 DEF HasWritten, DocWork, DocKinds
      <4> QED BY <4>3 DEF DeletionsStick, Sticks
    <3> QED BY <3>1, <3>2
  <2>3. CreationsStick
    <3>1. CASE Only(CreationKinds)
      BY <3>1, ClosedKept DEF CollaborationInv
    <3>2. CASE ~Only(CreationKinds)
      <4>1. PICK K \in {CommentWork, DocWork, ProjectKinds} : Only(K)
        BY <3>2 DEF CollaborationInv
      <4>2. \A q \in Requests : job[q].kind \notin CreationKinds
        BY <4>1, KindsAreDisjoint DEF Only
      <4>3. \A q \in Requests : ~HasWritten(q, {"concept_archive", "asset_approve", "asset_reject"})
        BY <4>2 DEF HasWritten, CreationKinds, ConceptKinds, AssetKinds
      <4> QED BY <4>3 DEF CreationsStick, Sticks
    <3> QED BY <3>1, <3>2
  <2> QED BY <2>1, <2>2, <2>3 DEF UndisturbedDecisionsStick
<1> QED BY <1>1, CollaborationBegins, CollaborationSteps, PTL DEF Spec
===============================================================================
