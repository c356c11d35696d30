---------------------------- MODULE SessionsProofs ----------------------------
(***************************************************************************)
(* The versions of a workflow, the results of the AI pipeline and the      *)
(* status of their session, for any number of requests, tasks, deliveries  *)
(* and faults.                                                             *)
(***************************************************************************)
EXTENDS Sessions, FiniteSetTheorems, SequenceTheorems, TLAPS

\* Messages of users that are stored and have no execution yet.
Posted == {x \in Requests : job[x].phase = "posted"}

-------------------------------------------------------------------------------
(* The steps of a writer. *)

LEMMA WriterNames ==
  /\ "result" \in Writers /\ "divergence" \in Writers /\ "result" # "divergence"
  /\ "result" \notin Requests /\ "divergence" \notin Requests
  /\ Loops = {"result", "divergence"} /\ Requests \subseteq Writers /\ Loops \subseteq Writers
BY SessionsAssumption, WorkflowsAssumption DEF Writers

LEMMA RowColumns ==
  /\ \A row \in Row : DOMAIN row = {"status", "current"}
  /\ \A row \in SessionRow : DOMAIN row = {"status", "mode", "archived"}
  /\ \A row \in Execution : DOMAIN row = {"status", "named"}
BY DEF Row, SessionRow, Execution

\* save() of a row: columns of the copy, or of the row.
LEMMA SavedRow ==
  ASSUME NEW row \in Row, NEW c \in Row, NEW cols
  PROVE  /\ Saved(row, c, cols) \in Row
         /\ Saved(row, c, cols).status = IF "status" \in cols THEN c.status ELSE row.status
         /\ Saved(row, c, cols).current = IF "current" \in cols THEN c.current ELSE row.current
<1> DEFINE new == Saved(row, c, cols)
<1>1. DOMAIN row = {"status", "current"}
  BY RowColumns
<1>2. new = [x \in {"status", "current"} |-> IF x \in cols THEN c[x] ELSE row[x]]
  BY <1>1 DEF Saved
<1>3. new = [status |-> new.status, current |-> new.current]
  BY <1>2
<1>4. /\ new.status = IF "status" \in cols THEN c.status ELSE row.status
      /\ new.current = IF "current" \in cols THEN c.current ELSE row.current
  BY <1>2
<1>5. new.status \in WorkflowStatus /\ new.current \in Nat
  BY <1>4 DEF Row
<1> HIDE DEF new
<1>6. new \in Row
  BY <1>3, <1>5 DEF Row
<1> QED BY <1>4, <1>6 DEF new

LEMMA SavedSession ==
  ASSUME NEW row \in SessionRow, NEW c \in SessionRow, NEW cols
  PROVE  /\ Saved(row, c, cols) \in SessionRow
         /\ Saved(row, c, cols).status = IF "status" \in cols THEN c.status ELSE row.status
<1> DEFINE new == Saved(row, c, cols)
<1>1. DOMAIN row = {"status", "mode", "archived"}
  BY RowColumns
<1>2. new = [x \in {"status", "mode", "archived"} |-> IF x \in cols THEN c[x] ELSE row[x]]
  BY <1>1 DEF Saved
<1>3. new = [status |-> new.status, mode |-> new.mode, archived |-> new.archived]
  BY <1>2
<1>4. /\ new.status = IF "status" \in cols THEN c.status ELSE row.status
      /\ new.mode = IF "mode" \in cols THEN c.mode ELSE row.mode
      /\ new.archived = IF "archived" \in cols THEN c.archived ELSE row.archived
  BY <1>2
<1>5. /\ new.status \in SessionStatus /\ new.mode \in {"auto", "interactive"}
      /\ new.archived \in BOOLEAN
  BY <1>4 DEF SessionRow
<1> HIDE DEF new
<1>6. new \in SessionRow
  BY <1>3, <1>5 DEF SessionRow
<1> QED BY <1>4, <1>6 DEF new

LEMMA SavedExecution ==
  ASSUME NEW row \in Execution, NEW c \in Execution, NEW cols
  PROVE  /\ Saved(row, c, cols) \in Execution
         /\ Saved(row, c, cols).status = IF "status" \in cols THEN c.status ELSE row.status
         /\ Saved(row, c, cols).named = IF "named" \in cols THEN c.named ELSE row.named
<1> DEFINE new == Saved(row, c, cols)
<1>1. DOMAIN row = {"status", "named"}
  BY RowColumns
<1>2. new = [x \in {"status", "named"} |-> IF x \in cols THEN c[x] ELSE row[x]]
  BY <1>1 DEF Saved
<1>3. new = [status |-> new.status, named |-> new.named]
  BY <1>2
<1>4. /\ new.status = IF "status" \in cols THEN c.status ELSE row.status
      /\ new.named = IF "named" \in cols THEN c.named ELSE row.named
  BY <1>2
<1>5. new.status \in {"pending", "completed"} /\ new.named \in BOOLEAN
  BY <1>4 DEF Execution
<1> HIDE DEF new
<1>6. new \in Execution
  BY <1>3, <1>5 DEF Execution
<1> QED BY <1>4, <1>6 DEF new

LEMMA CopyOfExecution ==
  ASSUME NEW w
  PROVE  /\ ExecutionCopy(w) \in Execution
         /\ w = "result" => /\ ExecutionCopy(w).status = "completed"
                            /\ ExecutionCopy(w).named <=> key # 0
BY DEF ExecutionCopy, Execution

LEMMA ChangedColumns ==
  /\ \A row \in Row, c \in Row : /\ Changed(c, row) \subseteq {"status", "current"}
                                 /\ "current" \in Changed(c, row) <=> c.current # row.current
  /\ \A row \in SessionRow, c \in SessionRow :
       Changed(c, row) \subseteq {"status", "mode", "archived"}
  /\ \A row \in Execution, c \in Execution :
       /\ Changed(c, row) \subseteq {"status", "named"}
       /\ "status" \in Changed(c, row) <=> c.status # row.status
BY RowColumns DEF Changed

LEMMA NoJobIsJob == NewRow \in Row /\ NoJob \in Job
<1>1. NewRow \in Row
  BY DEF NewRow, Row, WorkflowStatus
<1>2. NoJob = [kind |-> NoKind, phase |-> "idle", copy |-> NewRow, next |-> 0, dirty |-> {}]
  BY DEF NoJob
<1> QED BY <1>1, <1>2 DEF Job, Phases

\* What no step of w changes: the places of the other writers.
OthersStay(w) == \A x \in Writers \ {w} : job'[x] = job[x]

LEMMA BeginsMeans ==
  ASSUME WorkflowTypeOK, NEW w \in Writers, NEW kind \in Kinds \cup Loops, NEW phase \in Phases,
         NEW c \in Row, NEW n \in Nat, Begins(w, kind, phase, c, n)
  PROVE  /\ job' \in [Writers -> Job] /\ alone' \in [Writers -> BOOLEAN] /\ OthersStay(w)
         /\ job'[w].kind = kind /\ job'[w].phase = phase
         /\ job'[w].copy = c /\ job'[w].next = n
         /\ \A x \in Writers : alone'[x] => alone[x]
         /\ \A x \in Writers \ {w} : Busy(x) => ~alone'[w] /\ ~alone'[x]
<1> DEFINE empty == NoJob
           new == [empty EXCEPT !.kind = kind, !.phase = phase, !.copy = c, !.next = n]
<1>1. job' = [job EXCEPT ![w] = new]
  BY DEF Begins
<1>2. alone' = [x \in Writers |->
        IF x = w THEN alone[x] /\ \A y \in Writers \ {w} : ~Busy(y) ELSE alone[x] /\ ~Busy(x)]
  BY DEF Begins
<1>3. job \in [Writers -> Job] /\ alone \in [Writers -> BOOLEAN]
  BY DEF WorkflowTypeOK
<1>4. empty \in Job
  BY NoJobIsJob
<1> HIDE DEF empty
<1>5. new \in Job /\ new.kind = kind /\ new.phase = phase /\ new.copy = c /\ new.next = n
  BY <1>4 DEF Job
<1> HIDE DEF new
<1>6. job' \in [Writers -> Job] /\ job'[w] = new /\ OthersStay(w)
  BY <1>1, <1>3, <1>5 DEF OthersStay
<1>7. /\ alone' \in [Writers -> BOOLEAN]
      /\ \A x \in Writers : alone'[x] => alone[x]
      /\ \A x \in Writers \ {w} : Busy(x) => ~alone'[w] /\ ~alone'[x]
  BY <1>2, <1>3, Zenon
<1> QED BY <1>5, <1>6, <1>7

LEMMA GoesMeans ==
  ASSUME WorkflowTypeOK, NEW w \in Writers, NEW phase \in Phases, Goes(w, phase)
  PROVE  /\ job' \in [Writers -> Job] /\ OthersStay(w)
         /\ job'[w].phase = phase /\ job'[w].kind = job[w].kind /\ job'[w].copy = job[w].copy
         /\ job'[w].next = job[w].next /\ job'[w].dirty = job[w].dirty
BY DEF WorkflowTypeOK, Goes, OthersStay, Job

\* A writer goes on with a number.
LEMMA NumbersMeans ==
  ASSUME WorkflowTypeOK, NEW w \in Writers, NEW phase \in Phases, NEW number \in Nat,
         job' = [job EXCEPT ![w].phase = phase, ![w].next = number]
  PROVE  /\ job' \in [Writers -> Job] /\ OthersStay(w) /\ job'[w].phase = phase
         /\ job'[w].kind = job[w].kind /\ job'[w].copy = job[w].copy
<1> DEFINE new == [job[w] EXCEPT !.phase = phase, !.next = number]
<1>1. job \in [Writers -> Job] /\ job' = [job EXCEPT ![w] = new]
  BY DEF WorkflowTypeOK
<1>2. /\ new \in Job /\ new.phase = phase /\ new.next = number
      /\ new.kind = job[w].kind /\ new.copy = job[w].copy
  BY <1>1 DEF Job
<1> HIDE DEF new
<1>3. job' \in [Writers -> Job] /\ OthersStay(w) /\ job'[w] = new
  BY <1>1, <1>2 DEF OthersStay
<1> QED BY <1>2, <1>3

LEMMA NumberIsHeld ==
  ASSUME WorkflowTypeOK, NEW w \in Writers, NEW phase, NEW number,
         job' = [job EXCEPT ![w].phase = phase, ![w].next = number]
  PROVE  job'[w].next = number
BY DEF WorkflowTypeOK, Job

LEMMA EndsMeans ==
  ASSUME WorkflowTypeOK, NEW w \in Writers, NEW phase \in Phases, Ends(w, phase)
  PROVE  /\ job' \in [Writers -> Job] /\ OthersStay(w)
         /\ job'[w].phase = phase /\ job'[w].kind = job[w].kind
<1> DEFINE empty == NoJob
           new == [empty EXCEPT !.kind = job[w].kind, !.phase = phase]
<1>1. job' = [job EXCEPT ![w] = new] /\ job \in [Writers -> Job]
  BY DEF WorkflowTypeOK, Ends
<1>2. empty \in Job
  BY NoJobIsJob
<1> HIDE DEF empty
<1>3. new \in Job /\ new.kind = job[w].kind /\ new.phase = phase
  BY <1>1, <1>2 DEF Job
<1> HIDE DEF new
<1> QED BY <1>1, <1>3 DEF OthersStay

-------------------------------------------------------------------------------
(* session-fsm.ts *)

\* The events somebody raises lead where SESSION_TRANSITIONS says, and nowhere from archived.
LEMMA TransitionsLead ==
  /\ \A s \in Early : To(s, "user_finalizes") = "draft_ready"
  /\ \A s : Allowed(s, "user_finalizes") => s \in Early
  /\ \A s : Allowed(s, "ai_result_received") => s \in {"processing", "draft_ready"}
  /\ \A s \in {"processing", "draft_ready"} : To(s, "ai_result_received") = "draft_ready"
  /\ To("created", "first_user_message") = "awaiting_input"
  /\ \A s \in {"awaiting_input", "in_elicitation"} : To(s, "ai_task_published") = "processing"
<1> USE DEF Transitions, Rules
<1> DEFINE Fits(s, event) == {t \in Transitions : t[1] = s /\ t[2] = event}
<1>1. ASSUME NEW s \in Early PROVE To(s, "user_finalizes") = "draft_ready"
  <2>1. <<s, "user_finalizes", "draft_ready">> \in Transitions
    OBVIOUS
  <2>2. \A t \in Transitions : t[1] = s /\ t[2] = "user_finalizes" => t[3] = "draft_ready"
    OBVIOUS
  <2>3. \E t \in Transitions : t[1] = s /\ t[2] = "user_finalizes"
    BY <2>1
  <2> HIDE DEF Transitions
  <2> QED BY <2>2, <2>3 DEF To
<1>2. \A s : Allowed(s, "user_finalizes") => s \in Early
  BY DEF Allowed, Early
<1>3. \A s : Allowed(s, "ai_result_received") => s \in {"processing", "draft_ready"}
  BY DEF Allowed
<1>4. ASSUME NEW s \in {"processing", "draft_ready"}
      PROVE  To(s, "ai_result_received") = "draft_ready"
  <2>1. <<s, "ai_result_received", "draft_ready">> \in Transitions
    OBVIOUS
  <2>2. \A t \in Transitions : t[1] = s /\ t[2] = "ai_result_received" => t[3] = "draft_ready"
    OBVIOUS
  <2>3. \E t \in Transitions : t[1] = s /\ t[2] = "ai_result_received"
    BY <2>1
  <2> HIDE DEF Transitions
  <2> QED BY <2>2, <2>3 DEF To
<1>5. To("created", "first_user_message") = "awaiting_input"
  <2>1. <<"created", "first_user_message", "awaiting_input">> \in Transitions
    OBVIOUS
  <2>2. \A t \in Transitions :
          t[1] = "created" /\ t[2] = "first_user_message" => t[3] = "awaiting_input"
    OBVIOUS
  <2>3. \E t \in Transitions : t[1] = "created" /\ t[2] = "first_user_message"
    BY <2>1
  <2> HIDE DEF Transitions
  <2> QED BY <2>2, <2>3 DEF To
<1>6. ASSUME NEW s \in {"awaiting_input", "in_elicitation"}
      PROVE  To(s, "ai_task_published") = "processing"
  <2>1. <<s, "ai_task_published", "processing">> \in Transitions
    OBVIOUS
  <2>2. \A t \in Transitions : t[1] = s /\ t[2] = "ai_task_published" => t[3] = "processing"
    OBVIOUS
  <2>3. \E t \in Transitions : t[1] = s /\ t[2] = "ai_task_published"
    BY <2>1
  <2> HIDE DEF Transitions
  <2> QED BY <2>2, <2>3 DEF To
<1> QED BY <1>1, <1>2, <1>3, <1>4, <1>5, <1>6

-------------------------------------------------------------------------------
(* The versions. *)

\* The numbers a writer holds: the current version of its copy exists, and the number it
\* is to insert is at most the next one, since versions only become more.
WriterOK(w) ==
  /\ job[w].phase \in {"transaction", "insert", "save", "update"} =>
       job[w].copy.current \in 0..Cardinality(versions)
  /\ job[w].phase \in {"create", "insert", "insertResult"} =>
       job[w].next \in 1..(Cardinality(versions) + 1)
  /\ job[w].phase = "create" => job[w].next = 1 /\ job[w].kind = "create"

WorkflowInv ==
  /\ WorkflowTypeOK
  /\ IsFiniteSet(versions) /\ VersionsDense
  /\ \A w \in Writers : WriterOK(w)

LEMMA NewestIsCount ==
  ASSUME IsFiniteSet(versions), VersionsDense
  PROVE  Cardinality(versions) \in Nat /\ Newest = Cardinality(versions)
<1> DEFINE n == Cardinality(versions)
<1>1. n \in Nat
  BY FS_CardinalityType
<1>2. {0} \cup {v.number : v \in versions} = 0..n
  <2>1. {v.number : v \in versions} = 1..n
    BY DEF VersionsDense
  <2> HIDE DEF n
  <2> QED BY <1>1, <2>1
<1> HIDE DEF n
<1>3. Newest = CHOOSE x \in 0..n : \A y \in 0..n : x >= y
  BY <1>2 DEF Newest, Max
<1>4. n \in 0..n /\ \A x \in 0..n : n >= x
  BY <1>1
<1>5. Newest = n
  BY <1>1, <1>3, <1>4
<1> QED BY <1>1, <1>5 DEF n

\* A free number up to the next one is the next one.
LEMMA FreeNumberIsNext ==
  ASSUME IsFiniteSet(versions), VersionsDense, NEW w \in Writers,
         NEW n \in 1..(Cardinality(versions) + 1), NumberFree(n)
  PROVE  LET new == versions \cup {[number |-> n, by |-> w]}
         IN /\ n = Cardinality(versions) + 1
            /\ IsFiniteSet(new) /\ Cardinality(new) = n
            /\ {v.number : v \in new} = 1..n
<1> DEFINE row == [number |-> n, by |-> w]
           new == versions \cup {row}
<1>1. Cardinality(versions) \in Nat
  BY FS_CardinalityType
<1>2. n = Cardinality(versions) + 1
  <2>1. n \notin {v.number : v \in versions}
    BY DEF NumberFree
  <2> QED BY <1>1, <2>1 DEF VersionsDense
<1>3. row \notin versions
  BY DEF NumberFree
<1>4. IsFiniteSet(new) /\ Cardinality(new) = n
  BY <1>2, <1>3, FS_AddElement
<1>5. {v.number : v \in new} = {v.number : v \in versions} \cup {n}
  <2>1. row.number = n
    OBVIOUS
  <2> HIDE DEF row
  <2> QED BY <2>1
<1>6. {v.number : v \in new} = 1..n
  <2>1. {v.number : v \in versions} = 1..Cardinality(versions)
    BY DEF VersionsDense
  <2>2. 1..n = (1..Cardinality(versions)) \cup {n}
    BY <1>1, <1>2
  <2> QED BY <1>5, <2>1, <2>2
<1> QED BY <1>2, <1>4, <1>6

\* A writer moves to another place.
LEMMA WriterMoves ==
  ASSUME WorkflowInv, NEW w \in Writers, job' \in [Writers -> Job], OthersStay(w),
         alone' \in [Writers -> BOOLEAN], faults' \in 0..MaxFaults,
         UNCHANGED <<workflow, versions>>, WriterOK(w)'
  PROVE  WorkflowInv'
<1>1. WorkflowTypeOK'
  BY DEF WorkflowInv, WorkflowTypeOK
<1>2. \A x \in Writers : WriterOK(x)'
  BY DEF WorkflowInv, WriterOK, OthersStay
<1> QED BY <1>1, <1>2 DEF WorkflowInv, VersionsDense

\* A writer begins with a copy of the row, and maybe with the number after the current one.
LEMMA WriterBegins ==
  ASSUME WorkflowInv, NEW w \in Writers, NEW kind \in Kinds \cup Loops,
         NEW phase \in Phases \ {"create", "insertResult"},
         NEW c \in Row, c.current = workflow.current,
         NEW n \in Nat, phase = "insert" => n = workflow.current + 1,
         Begins(w, kind, phase, c, n), UNCHANGED <<workflow, versions, faults>>
  PROVE  WorkflowInv'
<1>1. /\ job' \in [Writers -> Job] /\ alone' \in [Writers -> BOOLEAN] /\ OthersStay(w)
      /\ job'[w].phase = phase /\ job'[w].copy = c /\ job'[w].next = n
  BY BeginsMeans DEF WorkflowInv
<1>2. /\ workflow.current \in 0..Cardinality(versions) /\ Cardinality(versions) \in Nat
      /\ workflow.current + 1 \in 1..(Cardinality(versions) + 1)
  BY FS_CardinalityType DEF WorkflowInv, VersionsDense
<1>3. WriterOK(w)'
  BY <1>1, <1>2 DEF WriterOK
<1>4. faults' \in 0..MaxFaults
  BY DEF WorkflowInv, WorkflowTypeOK
<1> QED BY <1>1, <1>3, <1>4, WriterMoves

\* A writer goes on or ends without a number to insert.
Plain == Phases \ {"create", "transaction", "insert", "save", "update", "insertResult"}

LEMMA WriterGoes ==
  ASSUME WorkflowInv, NEW w \in Writers, NEW phase \in Plain,
         Goes(w, phase) \/ Ends(w, phase),
         UNCHANGED <<workflow, versions, alone>>, faults' \in 0..MaxFaults
  PROVE  WorkflowInv'
<1>1. job' \in [Writers -> Job] /\ OthersStay(w) /\ job'[w].phase = phase
  BY GoesMeans, EndsMeans DEF WorkflowInv, Plain
<1>2. WriterOK(w)'
  BY <1>1 DEF WriterOK, Plain
<1>3. alone' \in [Writers -> BOOLEAN]
  BY DEF WorkflowInv, WorkflowTypeOK
<1> QED BY <1>1, <1>2, <1>3, WriterMoves

\* The row of the workflow is saved from a copy.
LEMMA WorkflowSaved ==
  ASSUME WorkflowInv, NEW w \in Writers, job[w].phase = "update",
         workflow' = Saved(workflow, job[w].copy, job[w].dirty),
         NEW phase \in Plain, Goes(w, phase) \/ Ends(w, phase),
         UNCHANGED <<versions, alone, faults>>
  PROVE  WorkflowInv'
<1>1. job' \in [Writers -> Job] /\ OthersStay(w) /\ job'[w].phase = phase
  BY GoesMeans, EndsMeans DEF WorkflowInv, Plain
<1>2. workflow \in Row /\ job[w].copy \in Row
  BY DEF WorkflowInv, WorkflowTypeOK, Job
<1>3. /\ workflow' \in Row
      /\ workflow'.current \in {job[w].copy.current, workflow.current}
  BY <1>2, SavedRow
<1>4. job[w].copy.current \in 0..Cardinality(versions)
  BY DEF WorkflowInv, WriterOK
<1>5. VersionsDense'
  BY <1>3, <1>4 DEF WorkflowInv, VersionsDense
<1>6. WorkflowTypeOK'
  BY <1>1, <1>3 DEF WorkflowInv, WorkflowTypeOK
<1>7. \A x \in Writers : WriterOK(x)'
  BY <1>1 DEF WorkflowInv, WriterOK, OthersStay, Plain
<1> QED BY <1>5, <1>6, <1>7 DEF WorkflowInv

\* A version is inserted under a free number.
LEMMA VersionInserted ==
  ASSUME WorkflowInv, NEW w \in Writers, job[w].phase \in {"create", "insert", "insertResult"},
         NumberFree(job[w].next), versions' = Inserted(w)
  PROVE  /\ job[w].next = Cardinality(versions) + 1 /\ Cardinality(versions) \in Nat
         /\ IsFiniteSet(versions') /\ Cardinality(versions') = Cardinality(versions) + 1
         /\ {v.number : v \in versions'} = 1..Cardinality(versions')
         /\ versions' \subseteq Version
<1>1. job[w].next \in 1..(Cardinality(versions) + 1)
  BY DEF WorkflowInv, WriterOK
<1>2. /\ job[w].next = Cardinality(versions) + 1
      /\ IsFiniteSet(versions') /\ Cardinality(versions') = job[w].next
      /\ {v.number : v \in versions'} = 1..job[w].next
  BY <1>1, FreeNumberIsNext DEF WorkflowInv, Inserted
<1>3. Cardinality(versions) \in Nat
  BY FS_CardinalityType DEF WorkflowInv
<1>4. versions' \subseteq Version
  BY <1>2, <1>3 DEF WorkflowInv, WorkflowTypeOK, Inserted, Version
<1> QED BY <1>2, <1>3, <1>4

LEMMA WriterDiffs ==
  ASSUME WorkflowInv, NEW w \in Writers, Diff(w)
  PROVE  WorkflowInv'
<1>1. /\ job[w].phase = "save"
      /\ job' = [job EXCEPT ![w].phase = "update",
                            ![w].dirty = Changed(job[w].copy, workflow)]
      /\ UNCHANGED <<workflow, versions, alone, faults>>
  BY DEF Diff
<1>2. workflow \in Row /\ job \in [Writers -> Job] /\ job[w].copy \in Row
  BY DEF WorkflowInv, WorkflowTypeOK, Job
<1>3. Changed(job[w].copy, workflow) \subseteq {"status", "current"}
  BY <1>2, ChangedColumns
<1>4. /\ job' \in [Writers -> Job] /\ OthersStay(w) /\ job'[w].phase = "update"
      /\ job'[w].copy = job[w].copy
  BY <1>1, <1>2, <1>3 DEF OthersStay, Job, Phases
<1>5. WriterOK(w)'
  BY <1>1, <1>4 DEF WorkflowInv, WriterOK
<1>6. alone' \in [Writers -> BOOLEAN] /\ faults' \in 0..MaxFaults
  BY <1>1 DEF WorkflowInv, WorkflowTypeOK
<1> QED BY <1>1, <1>4, <1>5, <1>6, WriterMoves

\* The steps of a request on the workflow alone.
LEMMA WorkflowRequestStep ==
  ASSUME WorkflowInv, NEW q \in Requests, OfWorkflow(q)
  PROVE  WorkflowInv'
<1>1. /\ q \in Writers /\ workflow \in Row /\ faults \in 0..MaxFaults
      /\ job \in [Writers -> Job] /\ alone \in [Writers -> BOOLEAN]
      /\ Cardinality(versions) \in Nat /\ workflow.current \in 0..Cardinality(versions)
  BY WriterNames, FS_CardinalityType DEF WorkflowInv, WorkflowTypeOK, VersionsDense
<1>2. /\ \A s \in PatchStatuses \cup {workflow.status} :
           /\ [workflow EXCEPT !.status = s] \in Row
           /\ [workflow EXCEPT !.status = s].current = workflow.current
      /\ [workflow EXCEPT !.status = "archived"] \in Row
      /\ [workflow EXCEPT !.status = "archived"].current = workflow.current
  BY <1>1, WorkflowsAssumption DEF Row, WorkflowStatus
<1>3. CASE Patch(q)
  <2>1. PICK s \in PatchStatuses \cup {workflow.status} :
          Begins(q, "patch", "transaction", [workflow EXCEPT !.status = s], 0)
    BY <1>3 DEF Patch
  <2>2. "patch" \in Kinds /\ "transaction" \in Phases \ {"create", "insertResult"} /\ 0 \in Nat
    BY <1>3 DEF Patch, Opens, Phases
  <2>3. UNCHANGED <<workflow, versions, faults>>
    BY <1>3 DEF Patch
  <2> QED BY <1>1, <1>2, <2>1, <2>2, <2>3, WriterBegins
<1>4. CASE Edit(q)
  <2>1. PICK s \in PatchStatuses \cup {workflow.status} :
          Begins(q, "edit", "save", [workflow EXCEPT !.status = s], 0)
    BY <1>4 DEF Edit
  <2>2. "edit" \in Kinds /\ "save" \in Phases \ {"create", "insertResult"} /\ 0 \in Nat
    BY <1>4 DEF Edit, Opens, Phases
  <2>3. UNCHANGED <<workflow, versions, faults>>
    BY <1>4 DEF Edit
  <2> QED BY <1>1, <1>2, <2>1, <2>2, <2>3, WriterBegins
<1>5. CASE Archive(q)
  <2>1. Begins(q, "archive", "save", [workflow EXCEPT !.status = "archived"], 0)
    BY <1>5 DEF Archive
  <2>2. "archive" \in Kinds /\ "save" \in Phases \ {"create", "insertResult"} /\ 0 \in Nat
    BY <1>5 DEF Archive, Opens, Phases
  <2>3. UNCHANGED <<workflow, versions, faults>>
    BY <1>5 DEF Archive
  <2> QED BY <1>1, <1>2, <2>1, <2>2, <2>3, WriterBegins
<1>6. CASE CommitCanvas(q)
  <2>1. Begins(q, "commit", "insert", workflow, workflow.current + 1)
    BY <1>6 DEF CommitCanvas
  <2>2. "commit" \in Kinds /\ "insert" \in Phases \ {"create", "insertResult"}
        /\ workflow.current + 1 \in Nat
    BY <1>1, <1>6 DEF CommitCanvas, Opens, Phases
  <2>3. UNCHANGED <<workflow, versions, faults>>
    BY <1>6 DEF CommitCanvas
  <2> QED BY <1>1, <2>1, <2>2, <2>3, WriterBegins
<1>7. CASE ReadCurrent(q)
  <2>1. /\ job' \in [Writers -> Job] /\ OthersStay(q)
        /\ job'[q].phase = "insert" /\ job'[q].next = workflow.current + 1
        /\ job'[q].copy = job[q].copy /\ job[q].phase = "transaction"
    <3>1. /\ job' = [job EXCEPT ![q].phase = "insert", ![q].next = workflow.current + 1]
          /\ job[q].phase = "transaction"
      BY <1>7 DEF ReadCurrent
    <3>2. workflow.current + 1 \in Nat /\ "insert" \in Phases
      BY <1>1 DEF Phases
    <3>3. WorkflowTypeOK /\ q \in Writers
      BY <1>1 DEF WorkflowInv
    <3> QED BY <3>1, <3>2, <3>3, NumbersMeans, NumberIsHeld
  <2>2. UNCHANGED <<workflow, versions, alone, faults>>
    BY <1>7 DEF ReadCurrent
  <2>3. workflow.current + 1 \in 1..(Cardinality(versions) + 1)
    BY <1>1
  <2>4. WriterOK(q)'
    BY <1>1, <2>1, <2>2, <2>3 DEF WorkflowInv, WriterOK
  <2> QED BY <1>1, <2>1, <2>2, <2>4, WriterMoves
<1>8. CASE InsertVersion(q)
  <2>1. /\ job[q].phase = "insert" /\ NumberFree(job[q].next) /\ versions' = Inserted(q)
        /\ workflow' = [workflow EXCEPT !.current = job[q].next]
        /\ UNCHANGED <<alone, faults>>
    BY <1>8 DEF InsertVersion
  <2>2. /\ job[q].next = Cardinality(versions) + 1
        /\ IsFiniteSet(versions') /\ Cardinality(versions') = Cardinality(versions) + 1
        /\ {v.number : v \in versions'} = 1..Cardinality(versions')
        /\ versions' \subseteq Version
    BY <1>1, <2>1, VersionInserted
  <2>3. workflow' \in Row /\ workflow'.current = job[q].next
    BY <1>1, <2>1, <2>2 DEF Row
  <2>4. job[q].copy.current \in 0..Cardinality(versions)
    BY <1>1, <2>1 DEF WorkflowInv, WriterOK
  <2>5. /\ job' \in [Writers -> Job] /\ OthersStay(q)
        /\ \/ /\ job'[q].phase = "save"
              /\ job'[q].copy.current = job[q].copy.current + 1
           \/ job'[q].phase = "ok"
    <3>1. CASE job[q].kind = "patch"
      <4>1. job' = [job EXCEPT ![q].phase = "save", ![q].copy.current = @ + 1]
        BY <1>8, <3>1 DEF InsertVersion
      <4>2. job[q].copy \in Row /\ job[q].copy.current \in Nat
        BY <1>1 DEF Job, Row
      <4>3. job' \in [Writers -> Job]
        BY <1>1, <4>1, <4>2 DEF Job, Row, Phases
      <4>4. OthersStay(q)
        BY <1>1, <4>1, <4>2 DEF Job, Row, OthersStay
      <4>5. job'[q].phase = "save" /\ job'[q].copy.current = job[q].copy.current + 1
        BY <1>1, <4>1, <4>2 DEF Job, Row
      <4> QED BY <4>3, <4>4, <4>5
    <3>2. CASE job[q].kind # "patch"
      <4>1. Ends(q, "ok") /\ "ok" \in Phases
        BY <1>8, <3>2 DEF InsertVersion, Phases, Finished
      <4> QED BY <1>1, <4>1, EndsMeans DEF WorkflowInv
    <3> QED BY <3>1, <3>2
  <2>6. VersionsDense'
    BY <1>1, <2>2, <2>3 DEF VersionsDense
  <2>7. WorkflowTypeOK'
    BY <1>1, <2>1, <2>2, <2>3, <2>5 DEF WorkflowTypeOK
  <2>8. \A x \in Writers : WriterOK(x)'
    BY <1>1, <2>2, <2>4, <2>5 DEF WorkflowInv, WriterOK, OthersStay
  <2> QED BY <2>2, <2>6, <2>7, <2>8 DEF WorkflowInv
<1>9. CASE InsertRefused(q)
  <2>1. Ends(q, "refused") /\ UNCHANGED <<workflow, versions, alone, faults>>
        /\ "refused" \in Plain
    BY <1>9 DEF InsertRefused, Plain, Phases, Finished
  <2> QED BY <1>1, <2>1, WriterGoes
<1>10. CASE Diff(q)
  BY <1>1, <1>10, WriterDiffs
<1>11. CASE Save(q)
  <2>1. /\ job[q].phase = "update" /\ "ok" \in Plain /\ Ends(q, "ok")
        /\ workflow' = Saved(workflow, job[q].copy, job[q].dirty)
        /\ UNCHANGED <<versions, alone, faults>>
    BY <1>11 DEF Save, Plain, Phases, Finished
  <2> QED BY <1>1, <2>1, WorkflowSaved
<1>12. CASE Export(q)
  <2>1. job' \in [Writers -> Job] /\ OthersStay(q) /\ job'[q].phase = "ok"
    BY <1>1, <1>12, EndsMeans DEF WorkflowInv, Export, Phases, Finished
  <2>2. /\ workflow' = [workflow EXCEPT !.status = "exported"]
        /\ UNCHANGED <<versions, alone, faults>>
    BY <1>12 DEF Export
  <2>3. workflow' \in Row /\ workflow'.current = workflow.current
    BY <1>1, <2>2 DEF Row, WorkflowStatus
  <2>4. WorkflowTypeOK' /\ VersionsDense'
    BY <2>1, <2>2, <2>3 DEF WorkflowInv, WorkflowTypeOK, VersionsDense
  <2>5. \A x \in Writers : WriterOK(x)'
    BY <2>1, <2>2 DEF WorkflowInv, WriterOK, OthersStay
  <2> QED BY <2>2, <2>4, <2>5 DEF WorkflowInv
<1>13. CASE CheckExport(q, session.status = "needs_reconciliation")
  <2>1. /\ Begins(q, "export", "exporting", workflow, 0)
        /\ UNCHANGED <<workflow, versions, faults>>
        /\ "export" \in Kinds /\ "exporting" \in Phases \ {"create", "insertResult"} /\ 0 \in Nat
    BY <1>13 DEF CheckExport, Opens, Phases
  <2> QED BY <1>1, <2>1, WriterBegins
<1>14. CASE InsertFirst(q)
  <2>1. /\ job[q].phase = "create" /\ NumberFree(job[q].next) /\ versions' = Inserted(q)
        /\ job' = [job EXCEPT ![q].phase = "save", ![q].copy.current = 1]
        /\ UNCHANGED <<workflow, alone, faults>>
    BY <1>14 DEF InsertFirst
  <2>2. /\ IsFiniteSet(versions') /\ Cardinality(versions') = Cardinality(versions) + 1
        /\ {v.number : v \in versions'} = 1..Cardinality(versions')
        /\ versions' \subseteq Version
    BY <1>1, <2>1, VersionInserted
  <2>3. job[q].copy \in Row /\ job[q] \in Job
    BY <1>1 DEF Job
  <2> DEFINE c == [job[q].copy EXCEPT !.current = 1]
             new == [job[q] EXCEPT !.phase = "save", !.copy = c]
  <2>4. c \in Row /\ c.current = 1
    BY <2>3 DEF Row
  <2>5. job' = [job EXCEPT ![q] = new]
    BY <1>1, <2>1, <2>3 DEF Job
  <2> HIDE DEF c
  <2>6. new \in Job /\ new.phase = "save" /\ new.copy = c
    <3>1. "save" \in Phases
      BY DEF Phases
    <3> QED BY <2>3, <2>4, <3>1 DEF Job
  <2> HIDE DEF new
  <2>11. /\ job' \in [Writers -> Job] /\ OthersStay(q)
         /\ job'[q].phase = "save" /\ job'[q].copy.current = 1
    BY <1>1, <2>4, <2>5, <2>6 DEF OthersStay
  <2>7. VersionsDense'
    BY <1>1, <2>1, <2>2 DEF VersionsDense
  <2>8. WorkflowTypeOK'
    BY <1>1, <2>1, <2>2, <2>11 DEF WorkflowTypeOK
  <2>9. WriterOK(q)'
    BY <1>1, <2>2, <2>11 DEF WriterOK
  <2>10. \A x \in Writers \ {q} : WriterOK(x)'
    BY <1>1, <2>2, <2>11 DEF WorkflowInv, WriterOK, OthersStay
  <2> QED BY <2>2, <2>7, <2>8, <2>9, <2>10 DEF WorkflowInv
<1> QED BY <1>3, <1>4, <1>5, <1>6, <1>7, <1>8, <1>9, <1>10, <1>11, <1>12, <1>13, <1>14
        DEF OfWorkflow, WorkflowRequest

ExecutionsOK == executions \in Seq(Execution)

\* The requests on the session take a copy of the workflow that they never save.
LEMMA SessionRequestKeepsVersions ==
  ASSUME WorkflowInv, ExecutionsOK, NEW q \in Requests, SessionRequest(q)
  PROVE  WorkflowInv'
<1>1. /\ q \in Writers /\ workflow \in Row /\ 0 \in Nat /\ faults \in 0..MaxFaults
      /\ job \in [Writers -> Job] /\ alone \in [Writers -> BOOLEAN]
  BY WriterNames DEF WorkflowInv, WorkflowTypeOK
<1>2. /\ {"saveSession", "posted"} \subseteq Phases \ {"create", "insertResult", "insert"}
      /\ {"published", "updateExecution", "saveSession", "updateSession", "ok"} \subseteq Plain
  BY DEF Phases, Plain, Finished
<1>3. CASE Finalize(q) \/ Delete(q) \/ UpdateMode(q) \/ Override(q) \/ PostMessage(q)
  <2>1. PICK kind \in Kinds, phase \in {"saveSession", "posted"} :
          Begins(q, kind, phase, workflow, 0)
    BY <1>3 DEF Finalize, Delete, UpdateMode, Override, PostMessage, Opens
  <2>2. UNCHANGED <<workflow, versions, faults>>
    BY <1>3 DEF Finalize, Delete, UpdateMode, Override, PostMessage, Untouched
  <2> QED BY <1>1, <1>2, <2>1, <2>2, WriterBegins
<1>4. CASE SaveExecution(q)
  <2>1. /\ job' = [job EXCEPT ![q].phase = "publish", ![q].next = Len(executions) + 1]
        /\ UNCHANGED <<workflow, versions, alone, faults>>
    BY <1>4 DEF SaveExecution
  <2>2. Len(executions) + 1 \in Nat /\ "publish" \in Phases
    BY DEF ExecutionsOK, Phases
  <2>3. job' \in [Writers -> Job] /\ OthersStay(q) /\ job'[q].phase = "publish"
    BY <1>1, <2>1, <2>2, NumbersMeans DEF WorkflowInv
  <2>4. WriterOK(q)'
    BY <2>3 DEF WriterOK
  <2> QED BY <1>1, <2>1, <2>3, <2>4, WriterMoves
<1>5. CASE PublishTask(q)
  BY <1>1, <1>2, <1>5, WriterGoes DEF PublishTask
<1>6. CASE NameExecution(q)
  <2>1. Goes(q, "saveSession") \/ Ends(q, "ok")
    BY <1>6 DEF NameExecution
  <2>2. UNCHANGED <<workflow, versions, alone, faults>>
    BY <1>6 DEF NameExecution
  <2> QED BY <1>1, <1>2, <2>1, <2>2, WriterGoes
<1>7. CASE DiffSession(q)
  BY <1>1, <1>2, <1>7, WriterGoes DEF DiffSession
<1>8. CASE SaveSession(q)
  BY <1>1, <1>2, <1>8, WriterGoes DEF SaveSession
<1>9. CASE DiffExecution(q)
  BY <1>1, <1>2, <1>9, WriterGoes DEF DiffExecution
<1> QED BY <1>3, <1>4, <1>5, <1>6, <1>7, <1>8, <1>9 DEF SessionRequest

\* A loop that gives its message back is free again.
LEMMA LoopIsFree ==
  ASSUME WorkflowInv, NEW l \in Loops, job' = [job EXCEPT ![l] = NoJob],
         UNCHANGED <<workflow, versions, alone>>, faults' \in 0..MaxFaults
  PROVE  WorkflowInv'
<1>1. job' \in [Writers -> Job] /\ OthersStay(l) /\ job'[l].phase = "idle"
  BY WriterNames, NoJobIsJob DEF WorkflowInv, WorkflowTypeOK, OthersStay, NoJob
<1>2. WriterOK(l)'
  BY <1>1 DEF WriterOK
<1>3. l \in Writers /\ alone' \in [Writers -> BOOLEAN]
  BY WriterNames DEF WorkflowInv, WorkflowTypeOK
<1> QED BY <1>1, <1>2, <1>3, WriterMoves

\* The handlers of results and of divergence results.
LEMMA LoopsKeepVersions ==
  ASSUME WorkflowInv,
         \/ \E t \in Tasks : ReceiveResult(t) \/ ReceiveDivergence(t)
         \/ HandleResult \/ DiffSession("divergence") \/ SaveDivergence \/ AckDivergence
  PROVE  WorkflowInv'
<1>1. /\ "result" \in Writers /\ "divergence" \in Writers
      /\ "result" \in Loops /\ "divergence" \in Loops
      /\ workflow \in Row /\ 0 \in Nat /\ faults \in 0..MaxFaults
      /\ job \in [Writers -> Job] /\ alone \in [Writers -> BOOLEAN]
  BY WriterNames DEF WorkflowInv, WorkflowTypeOK
<1>2. /\ {"latest", "saveSession", "reported"}
           \subseteq Phases \ {"create", "insertResult", "insert"}
      /\ {"saveSession", "updateSession", "complete", "updateExecution", "report",
          "reported"} \subseteq Plain
  BY DEF Phases, Plain, Finished
<1>3. ASSUME NEW t \in Tasks, ReceiveResult(t) PROVE WorkflowInv'
  <2>1. /\ Begins("result", "result", "latest", workflow, 0)
        /\ UNCHANGED <<workflow, versions, faults>>
    BY <1>3 DEF ReceiveResult
  <2> QED BY <1>1, <1>2, <2>1, WriterBegins
<1>4. ASSUME NEW t \in Tasks, ReceiveDivergence(t) PROVE WorkflowInv'
  <2>1. PICK phase \in {"saveSession", "reported"} :
          Begins("divergence", "divergence", phase, workflow, 0)
    BY <1>4 DEF ReceiveDivergence
  <2>2. UNCHANGED <<workflow, versions, faults>>
    BY <1>4 DEF ReceiveDivergence
  <2> QED BY <1>1, <1>2, <2>1, <2>2, WriterBegins
<1>5. CASE ReadNewest
  <2> DEFINE n == Newest + 1
  <2>1. /\ job' = [job EXCEPT !["result"].phase = "insertResult", !["result"].next = n]
        /\ UNCHANGED <<workflow, versions, alone, faults>>
    BY <1>5 DEF ReadNewest
  <2>2. n \in Nat /\ n = Cardinality(versions) + 1 /\ n \in 1..(Cardinality(versions) + 1)
    BY NewestIsCount DEF WorkflowInv, VersionsDense
  <2> HIDE DEF n
  <2>3. /\ job' \in [Writers -> Job] /\ OthersStay("result")
        /\ job'["result"].phase = "insertResult" /\ job'["result"].next = n
    <3>1. "insertResult" \in Phases
      BY DEF Phases
    <3>2. WorkflowTypeOK /\ "result" \in Writers
      BY <1>1 DEF WorkflowInv
    <3> QED BY <2>1, <2>2, <3>1, <3>2, NumbersMeans, NumberIsHeld
  <2>4. WriterOK("result")'
    BY <2>1, <2>2, <2>3 DEF WriterOK
  <2> QED BY <1>1, <2>1, <2>3, <2>4, WriterMoves
<1>6. CASE InsertResult
  <2> DEFINE n == job["result"].next
             c == [status |-> "pending_review", current |-> n]
             new == [job["result"] EXCEPT !.phase = "save", !.copy = c]
  <2>1. /\ job["result"].phase = "insertResult" /\ NumberFree(n)
        /\ versions' = Inserted("result") /\ job' = [job EXCEPT !["result"] = new]
        /\ UNCHANGED <<workflow, alone, faults>>
    BY <1>6 DEF InsertResult
  <2>2. /\ n = Cardinality(versions) + 1 /\ Cardinality(versions) \in Nat
        /\ IsFiniteSet(versions') /\ Cardinality(versions') = Cardinality(versions) + 1
        /\ {v.number : v \in versions'} = 1..Cardinality(versions')
        /\ versions' \subseteq Version
    BY <1>1, <2>1, VersionInserted
  <2>3. c \in Row /\ c.current = n
    BY <2>2 DEF Row, WorkflowStatus
  <2> HIDE DEF c
  <2>4. new \in Job /\ new.phase = "save" /\ new.copy = c
    <3>1. "save" \in Phases /\ job["result"] \in Job
      BY <1>1 DEF Phases
    <3> QED BY <2>3, <3>1 DEF Job
  <2> HIDE DEF new
  <2>5. /\ job' \in [Writers -> Job] /\ OthersStay("result")
        /\ job'["result"].phase = "save" /\ job'["result"].copy.current = n
    BY <1>1, <2>1, <2>3, <2>4 DEF OthersStay
  <2>6. WorkflowTypeOK'
    BY <1>1, <2>1, <2>2, <2>5 DEF WorkflowTypeOK
  <2>7. VersionsDense'
    BY <2>1, <2>2 DEF WorkflowInv, VersionsDense
  <2>8. \A x \in Writers : WriterOK(x)'
    BY <1>1, <2>2, <2>5 DEF WorkflowInv, WriterOK, OthersStay
  <2> QED BY <2>2, <2>6, <2>7, <2>8 DEF WorkflowInv
<1>7. CASE InsertResultRefused
  BY <1>1, <1>7, LoopIsFree DEF InsertResultRefused, Throws
<1>8. CASE Diff("result")
  BY <1>1, <1>8, WriterDiffs
<1>9. CASE SaveResult
  BY <1>1, <1>2, <1>9, WorkflowSaved DEF SaveResult
<1>10. CASE SaveResultThenThrow
  <2>1. /\ job["result"].phase = "update" /\ job' = [job EXCEPT !["result"] = NoJob]
        /\ workflow' = Saved(workflow, job["result"].copy, job["result"].dirty)
        /\ UNCHANGED <<versions, alone, faults>>
    BY <1>10 DEF SaveResultThenThrow, Throws
  <2>2. job["result"].copy \in Row
    BY <1>1 DEF Job
  <2>3. /\ workflow' \in Row
        /\ workflow'.current \in {job["result"].copy.current, workflow.current}
    BY <1>1, <2>1, <2>2, SavedRow
  <2>4. job["result"].copy.current \in 0..Cardinality(versions)
    BY <1>1, <2>1 DEF WorkflowInv, WriterOK
  <2>5. job' \in [Writers -> Job] /\ OthersStay("result") /\ job'["result"].phase = "idle"
    BY <1>1, <2>1, NoJobIsJob DEF OthersStay, NoJob
  <2>6. VersionsDense' /\ WorkflowTypeOK'
    BY <2>1, <2>3, <2>4, <2>5 DEF WorkflowInv, WorkflowTypeOK, VersionsDense
  <2>7. \A x \in Writers : WriterOK(x)'
    BY <2>1, <2>5 DEF WorkflowInv, WriterOK, OthersStay
  <2> QED BY <2>1, <2>6, <2>7 DEF WorkflowInv
<1>11. CASE DiffSession("result")
  BY <1>1, <1>2, <1>11, WriterGoes DEF DiffSession
<1>12. CASE SaveSessionOfResult
  BY <1>1, <1>2, <1>12, WriterGoes DEF SaveSessionOfResult
<1>13. CASE CompleteExecution
  BY <1>1, <1>2, <1>13, WriterGoes DEF CompleteExecution
<1>14. CASE Report
  BY <1>1, <1>14, LoopIsFree DEF Report, Acks
<1>15. CASE DiffSession("divergence")
  BY <1>1, <1>2, <1>15, WriterGoes DEF DiffSession
<1>16. CASE SaveDivergence
  BY <1>1, <1>2, <1>16, WriterGoes DEF SaveDivergence
<1>17. CASE AckDivergence
  BY <1>1, <1>17, LoopIsFree DEF AckDivergence, Acks
<1>18. CASE DiffExecution("result")
  BY <1>1, <1>2, <1>18, WriterGoes DEF DiffExecution
<1> QED BY <1>3, <1>4, <1>5, <1>6, <1>7, <1>8, <1>9, <1>10, <1>11, <1>12, <1>13, <1>14,
           <1>15, <1>16, <1>17, <1>18 DEF HandleResult

\* Whatever dies holds no number afterwards.
LEMMA CrashKeepsVersions ==
  ASSUME WorkflowInv, Crash
  PROVE  WorkflowInv'
<1>1. /\ job' = [w \in Writers |-> IF w \in Loops THEN NoJob
                 ELSE IF Busy(w) THEN [NoJob EXCEPT !.phase = "refused"] ELSE job[w]]
      /\ UNCHANGED <<workflow, versions, alone>> /\ faults < MaxFaults /\ faults' = faults + 1
  BY DEF Crash, Fault
<1>2. job \in [Writers -> Job] /\ faults \in 0..MaxFaults
  BY DEF WorkflowInv, WorkflowTypeOK
<1>3. NoJob \in Job /\ NoJob.phase = "idle"
  BY NoJobIsJob DEF NoJob
<1>4. /\ [NoJob EXCEPT !.phase = "refused"] \in Job
      /\ [NoJob EXCEPT !.phase = "refused"].phase = "refused"
  BY <1>3 DEF Job, Phases, Finished
<1>5. /\ job' \in [Writers -> Job]
      /\ \A w \in Writers : job'[w] = job[w] \/ job'[w].phase \in {"idle", "refused"}
  BY <1>1, <1>2, <1>3, <1>4
<1>6. faults' \in 0..MaxFaults
  BY <1>1, <1>2, WorkflowsAssumption
<1>7. WorkflowTypeOK' /\ VersionsDense'
  BY <1>1, <1>5, <1>6 DEF WorkflowInv, WorkflowTypeOK, VersionsDense
<1>8. \A w \in Writers : WriterOK(w)'
  BY <1>1, <1>5 DEF WorkflowInv, WriterOK
<1> QED BY <1>1, <1>7, <1>8 DEF WorkflowInv

LEMMA WorkflowStep == WorkflowInv /\ ExecutionsOK /\ [Next]_vars => WorkflowInv'
<1> SUFFICES ASSUME WorkflowInv, ExecutionsOK, [Next]_vars PROVE WorkflowInv'
  OBVIOUS
<1>1. ASSUME NEW q \in Requests, OfWorkflow(q) PROVE WorkflowInv'
  BY <1>1, WorkflowRequestStep
<1>2. ASSUME NEW q \in Requests, SessionRequest(q) PROVE WorkflowInv'
  BY <1>2, SessionRequestKeepsVersions
<1>3. ASSUME NEW q \in Requests, RequestFails(q) PROVE WorkflowInv'
  <2>1. /\ Ends(q, "refused") /\ UNCHANGED <<workflow, versions, alone>>
        /\ faults < MaxFaults /\ faults' = faults + 1
    BY <1>3 DEF RequestFails, Fault
  <2>2. faults' \in 0..MaxFaults
    BY <2>1, WorkflowsAssumption DEF WorkflowInv, WorkflowTypeOK
  <2>3. q \in Writers /\ "refused" \in Plain
    BY WriterNames DEF Plain, Phases, Finished
  <2> QED BY <2>1, <2>2, <2>3, WriterGoes
<1>4. ASSUME NEW l \in Loops, HandlerFails(l) PROVE WorkflowInv'
  <2>1. /\ job' = [job EXCEPT ![l] = NoJob] /\ UNCHANGED <<workflow, versions, alone>>
        /\ faults < MaxFaults /\ faults' = faults + 1
    BY <1>4 DEF HandlerFails, Fault, Throws
  <2>2. faults' \in 0..MaxFaults
    BY <2>1, WorkflowsAssumption DEF WorkflowInv, WorkflowTypeOK
  <2> QED BY <2>1, <2>2, LoopIsFree
<1>5. CASE \/ UNCHANGED vars \/ \E l \in Loops, t \in Tasks : WorkerAnswers(l, t)
           \/ \E t \in Tasks : SkipResult(t) \/ SkipDivergence(t)
  <2>1. UNCHANGED workflowVars
    BY <1>5 DEF vars, WorkerAnswers, SkipResult, SkipDivergence
  <2> QED BY <2>1 DEF workflowVars, WorkflowInv, WorkflowTypeOK, VersionsDense, WriterOK
<1>6. CASE \/ \E t \in Tasks : ReceiveResult(t) \/ ReceiveDivergence(t)
           \/ HandleResult \/ DiffSession("divergence") \/ SaveDivergence \/ AckDivergence
  BY <1>6, LoopsKeepVersions
<1>7. CASE Crash
  BY <1>7, CrashKeepsVersions
<1> QED BY <1>1, <1>2, <1>3, <1>4, <1>5, <1>6, <1>7 DEF Next

-------------------------------------------------------------------------------
(* Whose turn it is. *)

\* Where a request on the workflow alone can be after a step.
WorkflowPlaces == {"transaction", "insert", "save", "update", "exporting", "ok", "refused"}

LEMMA WorkflowTurns ==
  ASSUME WorkflowInv, NEW q \in Requests, OfWorkflow(q)
  PROVE  OthersStay(q) /\ job'[q].phase \in WorkflowPlaces
<1> USE DEF WorkflowPlaces
<1>1. q \in Writers /\ job \in [Writers -> Job] /\ WorkflowTypeOK
  BY WriterNames DEF WorkflowInv, WorkflowTypeOK
<1>2. ASSUME NEW kind \in Kinds, NEW phase \in Phases, NEW c \in Row, NEW n \in Nat,
             Begins(q, kind, phase, c, n)
      PROVE  OthersStay(q) /\ job'[q].phase = phase
  BY <1>1, <1>2, BeginsMeans
<1>3. ASSUME NEW phase \in Phases, Goes(q, phase) \/ Ends(q, phase)
      PROVE  OthersStay(q) /\ job'[q].phase = phase
  BY <1>1, <1>3, GoesMeans, EndsMeans
<1>4. /\ {"transaction", "save", "update", "insert", "exporting", "ok",
          "refused"} \subseteq Phases
      /\ workflow \in Row /\ 0 \in Nat /\ workflow.current + 1 \in Nat
      /\ \A s \in PatchStatuses \cup {workflow.status} : [workflow EXCEPT !.status = s] \in Row
      /\ [workflow EXCEPT !.status = "archived"] \in Row
  <2>1. workflow \in Row
    BY DEF WorkflowInv, WorkflowTypeOK
  <2> QED BY <2>1, WorkflowsAssumption DEF Row, WorkflowStatus, Phases, Finished
<1>5. CASE Patch(q)
  <2>1. PICK s \in PatchStatuses \cup {workflow.status} :
          Begins(q, "patch", "transaction", [workflow EXCEPT !.status = s], 0)
    BY <1>5 DEF Patch
  <2>2. "patch" \in Kinds
    BY <1>5 DEF Patch, Opens
  <2> QED BY <1>1, <1>2, <1>4, <2>1, <2>2
<1>6. CASE Edit(q)
  <2>1. PICK s \in PatchStatuses \cup {workflow.status} :
          Begins(q, "edit", "save", [workflow EXCEPT !.status = s], 0)
    BY <1>6 DEF Edit
  <2>2. "edit" \in Kinds
    BY <1>6 DEF Edit, Opens
  <2> QED BY <1>1, <1>2, <1>4, <2>1, <2>2
<1>7. CASE Archive(q)
  <2>1. /\ Begins(q, "archive", "save", [workflow EXCEPT !.status = "archived"], 0)
        /\ "archive" \in Kinds
    BY <1>7 DEF Archive, Opens
  <2> QED BY <1>1, <1>2, <1>4, <2>1
<1>8. CASE CommitCanvas(q)
  <2>1. Begins(q, "commit", "insert", workflow, workflow.current + 1) /\ "commit" \in Kinds
    BY <1>8 DEF CommitCanvas, Opens
  <2> QED BY <1>1, <1>2, <1>4, <2>1
<1>9. CASE CheckExport(q, session.status = "needs_reconciliation")
  <2>1. Begins(q, "export", "exporting", workflow, 0) /\ "export" \in Kinds
    BY <1>9 DEF CheckExport, Opens
  <2> QED BY <1>1, <1>2, <1>4, <2>1
<1>10. CASE ReadCurrent(q)
  <2>1. OthersStay(q) /\ job'[q].phase = "insert"
    BY <1>1, <1>10 DEF ReadCurrent, OthersStay, Job
  <2> QED BY <1>1, <2>1
<1>11. CASE InsertVersion(q)
  <2>1. CASE job[q].kind = "patch"
    <3>1. job' = [job EXCEPT ![q].phase = "save", ![q].copy.current = @ + 1]
      BY <1>11, <2>1 DEF InsertVersion
    <3>2. OthersStay(q) /\ job'[q].phase = "save"
      BY <1>1, <3>1 DEF OthersStay, Job
    <3> QED BY <1>1, <3>2
  <2>2. CASE job[q].kind # "patch"
    BY <1>1, <1>3, <1>4, <1>11, <2>2 DEF InsertVersion
  <2> QED BY <2>1, <2>2
<1>12. CASE InsertRefused(q)
  BY <1>1, <1>3, <1>4, <1>12 DEF InsertRefused
<1>13. CASE Diff(q)
  <2>1. OthersStay(q) /\ job'[q].phase = "update"
    BY <1>1, <1>13 DEF Diff, OthersStay, Job
  <2> QED BY <1>1, <2>1
<1>14. CASE Save(q)
  BY <1>1, <1>3, <1>4, <1>14 DEF Save
<1>15. CASE Export(q)
  BY <1>1, <1>3, <1>4, <1>15 DEF Export
<1>16. CASE InsertFirst(q)
  <2>1. job' = [job EXCEPT ![q].phase = "save", ![q].copy.current = 1]
    BY <1>16 DEF InsertFirst
  <2>2. OthersStay(q) /\ job'[q].phase = "save"
    BY <1>1, <2>1 DEF OthersStay, Job
  <2> QED BY <1>1, <2>2
<1> QED BY <1>5, <1>6, <1>7, <1>8, <1>9, <1>10, <1>11, <1>12, <1>13, <1>14, <1>15, <1>16
        DEF OfWorkflow, WorkflowRequest

\* What the steps of a request leave alone: the other writers and the queues.
LEMMA RequestTurns ==
  ASSUME WorkflowInv, ExecutionsOK, NEW q \in Requests,
         (OfWorkflow(q) /\ UNCHANGED sessionVars) \/ SessionRequest(q) \/ RequestFails(q)
  PROVE  /\ q \in Writers /\ OthersStay(q) /\ UNCHANGED <<queues, crashed>>
         /\ PostMessage(q) \/ SaveExecution(q) \/ job'[q].phase \notin {"posted", "publish"}
         /\ \/ SaveExecution(q) \/ PublishTask(q) \/ DiffExecution(q)
            \/ job'[q].phase \notin {"publish", "published", "updateExecution"}
<1>1. q \in Writers /\ job \in [Writers -> Job] /\ WorkflowTypeOK
  BY WriterNames DEF WorkflowInv, WorkflowTypeOK
<1>2. ASSUME NEW kind \in Kinds, NEW phase \in Phases, NEW c \in Row, NEW n \in Nat,
             Begins(q, kind, phase, c, n)
      PROVE  OthersStay(q) /\ job'[q].phase = phase
  BY <1>1, <1>2, BeginsMeans
<1>3. ASSUME NEW phase \in Phases, Goes(q, phase) \/ Ends(q, phase)
      PROVE  OthersStay(q) /\ job'[q].phase = phase
  BY <1>1, <1>3, GoesMeans, EndsMeans
<1>4. /\ {"posted", "publish", "published", "updateExecution", "saveSession", "updateSession",
          "ok", "refused"} \subseteq Phases
      /\ workflow \in Row /\ 0 \in Nat
  BY <1>1 DEF Phases, Finished, WorkflowTypeOK
<1>5. CASE OfWorkflow(q) /\ UNCHANGED sessionVars
  <2>1. UNCHANGED <<queues, crashed>>
    BY <1>5 DEF sessionVars
  <2> QED BY <1>1, <1>5, <2>1, WorkflowTurns DEF WorkflowPlaces
<1>6. CASE SessionRequest(q)
  <2>1. CASE Finalize(q) \/ Delete(q) \/ UpdateMode(q) \/ Override(q)
    <3>1. PICK kind \in Kinds : Begins(q, kind, "saveSession", workflow, 0)
      BY <2>1 DEF Finalize, Delete, UpdateMode, Override, Opens
    <3>2. UNCHANGED <<queues, crashed>>
      BY <2>1 DEF Finalize, Delete, UpdateMode, Override, Rest
    <3> QED BY <1>1, <1>2, <1>4, <3>1, <3>2
  <2>2. CASE PostMessage(q)
    <3>1. Begins(q, "dispatch", "posted", workflow, 0) /\ "dispatch" \in Kinds
      BY <2>2 DEF PostMessage, Opens
    <3>2. UNCHANGED <<queues, crashed>>
      BY <2>2 DEF PostMessage
    <3> QED BY <1>1, <1>2, <1>4, <2>2, <3>1, <3>2
  <2>3. CASE SaveExecution(q)
    <3>1. OthersStay(q) /\ UNCHANGED <<queues, crashed>>
      BY <1>1, <2>3 DEF SaveExecution, OthersStay
    <3> QED BY <1>1, <2>3, <3>1
  <2>4. CASE PublishTask(q)
    BY <1>1, <1>3, <1>4, <2>4 DEF PublishTask
  <2>5. CASE NameExecution(q)
    <3>1. Goes(q, "saveSession") \/ Ends(q, "ok")
      BY <2>5 DEF NameExecution
    <3>2. UNCHANGED <<queues, crashed>>
      BY <2>5 DEF NameExecution
    <3> QED BY <1>1, <1>3, <1>4, <3>1, <3>2
  <2>6. CASE DiffSession(q)
    BY <1>1, <1>3, <1>4, <2>6 DEF DiffSession
  <2>7. CASE SaveSession(q)
    BY <1>1, <1>3, <1>4, <2>7 DEF SaveSession
  <2>8. CASE DiffExecution(q)
    BY <1>1, <1>3, <1>4, <2>8 DEF DiffExecution
  <2> QED BY <1>6, <2>1, <2>2, <2>3, <2>4, <2>5, <2>6, <2>7, <2>8 DEF SessionRequest
<1>7. CASE RequestFails(q)
  <2>1. Ends(q, "refused") /\ UNCHANGED <<queues, crashed>>
    BY <1>7 DEF RequestFails, sessionVars
  <2> QED BY <1>1, <1>3, <1>4, <2>1
<1> QED BY <1>5, <1>6, <1>7

\* The steps of the handler of results: nobody else's place changes.
LEMMA ResultTurns ==
  ASSUME WorkflowInv, HandleResult
  PROVE  /\ OthersStay("result") /\ Busy("result")
         /\ job'["result"].phase \notin {"posted", "publish"}
<1>1. "result" \in Writers /\ job \in [Writers -> Job] /\ WorkflowTypeOK
  BY WriterNames DEF WorkflowInv, WorkflowTypeOK
<1>2. ASSUME NEW phase \in Phases, Goes("result", phase)
      PROVE  OthersStay("result") /\ job'["result"].phase = phase
  BY <1>1, <1>2, GoesMeans
<1>3. {"saveSession", "updateSession", "complete", "updateExecution", "report"} \subseteq Phases
  BY DEF Phases
<1>4. ASSUME job' = [job EXCEPT !["result"] = NoJob]
      PROVE  OthersStay("result") /\ job'["result"].phase = "idle"
  BY <1>1, <1>4 DEF OthersStay, NoJob
<1>5. Busy("result")
  BY DEF HandleResult, ReadNewest, InsertResult, InsertResultRefused, Diff, SaveResult,
         SaveResultThenThrow, DiffSession, SaveSessionOfResult, DiffExecution, CompleteExecution,
         ExecutionSaved, Report, Busy, Finished
<1>6. CASE ReadNewest
  <2>1. OthersStay("result") /\ job'["result"].phase = "insertResult"
    BY <1>1, <1>6 DEF ReadNewest, OthersStay, Job
  <2> QED BY <1>5, <2>1
<1>7. CASE InsertResult
  <2>1. OthersStay("result") /\ job'["result"].phase = "save"
    BY <1>1, <1>7 DEF InsertResult, OthersStay, Job
  <2> QED BY <1>5, <2>1
<1>8. CASE Diff("result")
  <2>1. OthersStay("result") /\ job'["result"].phase = "update"
    BY <1>1, <1>8 DEF Diff, OthersStay, Job
  <2> QED BY <1>5, <2>1
<1>9. CASE InsertResultRefused \/ SaveResultThenThrow \/ Report
  BY <1>4, <1>5, <1>9 DEF InsertResultRefused, SaveResultThenThrow, Report, Throws, Acks
<1>10. CASE \/ SaveResult \/ DiffSession("result") \/ SaveSessionOfResult
             \/ DiffExecution("result") \/ CompleteExecution
  <2>1. PICK phase \in {"saveSession", "updateSession", "complete", "updateExecution", "report"} :
          Goes("result", phase)
    BY <1>10 DEF SaveResult, DiffSession, SaveSessionOfResult, DiffExecution, CompleteExecution
  <2> QED BY <1>2, <1>3, <1>5, <2>1
<1> QED BY <1>6, <1>7, <1>8, <1>9, <1>10 DEF HandleResult

\* The steps of the handler of divergence results.
LEMMA DivergenceTurns ==
  ASSUME WorkflowInv, DiffSession("divergence") \/ SaveDivergence \/ AckDivergence
  PROVE  /\ OthersStay("divergence") /\ Busy("divergence")
         /\ job'["divergence"].phase \notin {"posted", "publish"}
<1>1. "divergence" \in Writers /\ job \in [Writers -> Job] /\ WorkflowTypeOK
  BY WriterNames DEF WorkflowInv, WorkflowTypeOK
<1>2. {"updateSession", "reported"} \subseteq Phases
  BY DEF Phases
<1>3. Busy("divergence")
  BY DEF DiffSession, SaveDivergence, AckDivergence, Busy, Finished
<1>4. CASE DiffSession("divergence")
  BY <1>1, <1>2, <1>3, <1>4, GoesMeans DEF DiffSession
<1>5. CASE SaveDivergence
  BY <1>1, <1>2, <1>3, <1>5, GoesMeans DEF SaveDivergence
<1>6. CASE AckDivergence
  <2>1. job' = [job EXCEPT !["divergence"] = NoJob]
    BY <1>6 DEF AckDivergence, Acks
  <2>2. OthersStay("divergence") /\ job'["divergence"].phase = "idle"
    BY <1>1, <2>1 DEF OthersStay, NoJob
  <2> QED BY <1>3, <2>2
<1> QED BY <1>4, <1>5, <1>6

\* A loop takes a message.
LEMMA ReceiveTurns ==
  ASSUME WorkflowInv, NEW t \in Tasks, NEW l \in Loops,
         \/ l = "result" /\ ReceiveResult(t)
         \/ l = "divergence" /\ ReceiveDivergence(t)
  PROVE  /\ OthersStay(l) /\ ~Busy(l) /\ job'[l].kind = l
         /\ job'[l].phase \in {"latest", "saveSession", "reported"}
<1>1. l \in Writers /\ WorkflowTypeOK /\ l \in Kinds \cup Loops /\ workflow \in Row /\ 0 \in Nat
  BY WriterNames DEF WorkflowInv, WorkflowTypeOK
<1>2. {"latest", "saveSession", "reported"} \subseteq Phases
  BY DEF Phases
<1>3. ~Busy(l)
  BY DEF ReceiveResult, ReceiveDivergence, Takes
<1>4. PICK phase \in {"latest", "saveSession", "reported"} : Begins(l, l, phase, workflow, 0)
  BY DEF ReceiveResult, ReceiveDivergence
<1> QED BY <1>1, <1>2, <1>3, <1>4, BeginsMeans

-------------------------------------------------------------------------------
(* The worker's answers. *)

\* A queued answer can still be delivered; a result is acknowledged only if some result
\* was applied; a message is given up with a dead letter, or the process died once.
MessageOK(l, t) ==
  /\ msg[l][t].state \in {"none", "queued"} => msg[l][t].deliveries < MaxDeliver
  /\ l = "result" /\ msg[l][t].state = "done" => applied # {}
  /\ msg[l][t].state = "dead" => crashed \/ <<l, t>> \in deadLetters

QueueTypes ==
  /\ msg \in [Loops -> [Tasks -> Message]]
  /\ subject \in [Loops -> 0..MaxExecutions]
  /\ target \in 0..MaxExecutions /\ key \in 0..MaxExecutions
  /\ handled \subseteq Tasks
  /\ deadLetters \subseteq Loops \X Tasks
  /\ applied \subseteq Tasks /\ dropped \in [Tasks -> 0..MaxExecutions]
  /\ correlation \in [Tasks -> 0..MaxExecutions] /\ compared \subseteq Tasks
  /\ crashed \in BOOLEAN

QueuesInv ==
  /\ QueueTypes
  /\ \A l \in Loops, t \in Tasks : MessageOK(l, t)
  /\ \A l \in Loops : Busy(l) => subject[l] \in Tasks
  /\ handled # {} => applied # {}

\* The state of a message changes, and its deliveries do not.
LEMMA StateChanges ==
  ASSUME QueueTypes, NEW l \in Loops, NEW t \in Tasks,
         NEW s \in {"none", "queued", "inflight", "done", "dead"},
         msg' = [msg EXCEPT ![l][t].state = s]
  PROVE  /\ msg' \in [Loops -> [Tasks -> Message]]
         /\ msg'[l][t].state = s /\ msg'[l][t].deliveries = msg[l][t].deliveries
         /\ \A x \in Loops, y \in Tasks : <<x, y>> # <<l, t>> => msg'[x][y] = msg[x][y]
<1> DEFINE m == [msg[l][t] EXCEPT !.state = s]
<1>1. msg \in [Loops -> [Tasks -> Message]]
  BY DEF QueueTypes
<1>2. msg[l][t] \in Message
  BY <1>1
<1>3. m \in Message /\ m.state = s /\ m.deliveries = msg[l][t].deliveries
  BY <1>2 DEF Message
<1>4. msg' = [msg EXCEPT ![l][t] = m]
  BY <1>1
<1> HIDE DEF m
<1> QED BY <1>1, <1>3, <1>4

\* A queued message is delivered.
LEMMA DeliveryCounts ==
  ASSUME QueuesInv, NEW l \in Loops, NEW t \in Tasks, msg[l][t].state = "queued",
         NEW s \in {"inflight", "done"}, Delivered(l, t, s)
  PROVE  /\ msg' \in [Loops -> [Tasks -> Message]] /\ msg'[l][t].state = s
         /\ \A x \in Loops, y \in Tasks : <<x, y>> # <<l, t>> => msg'[x][y] = msg[x][y]
<1> DEFINE m == [state |-> s, deliveries |-> msg[l][t].deliveries + 1]
<1>1. msg \in [Loops -> [Tasks -> Message]]
  BY DEF QueuesInv, QueueTypes
<1>2. msg[l][t].deliveries \in 0..MaxDeliver /\ msg[l][t].deliveries < MaxDeliver
  BY <1>1 DEF QueuesInv, MessageOK, Message
<1>3. m \in Message /\ m.state = s
  BY <1>2, SessionsAssumption DEF Message
<1>4. msg' = [msg EXCEPT ![l][t] = m]
  BY <1>1 DEF Delivered
<1> HIDE DEF m
<1> QED BY <1>1, <1>3, <1>4

\* The id of the latest execution, for what arrives now.
LEMMA KeyIsTask ==
  ASSUME ExecutionsOK, Len(executions) <= MaxExecutions
  PROVE  Latest \in 0..MaxExecutions /\ Key \in 0..MaxExecutions
<1>1. Latest \in 0..MaxExecutions
  BY SessionsAssumption DEF ExecutionsOK, Latest
<1> QED BY <1>1, SessionsAssumption DEF Key

\* A handler throws: its message is queued again or dead, with a letter.
LEMMA ThrowKeepsQueues ==
  ASSUME QueuesInv, WorkflowInv, NEW l \in Loops, Busy(l), Throws(l),
         UNCHANGED <<target, key, handled, applied, dropped, correlation, compared, crashed>>
  PROVE  QueuesInv'
<1> DEFINE t == subject[l]
           last == msg[l][t].deliveries >= MaxDeliver
           s == IF last THEN "dead" ELSE "queued"
<1>1. t \in Tasks /\ msg[l][t].deliveries \in 0..MaxDeliver
  BY DEF QueuesInv, QueueTypes, Message
<1>2. /\ msg' = [msg EXCEPT ![l][t].state = s]
      /\ deadLetters' = IF last THEN deadLetters \cup {<<l, t>>} ELSE deadLetters
      /\ job' = [job EXCEPT ![l] = NoJob] /\ subject' = [subject EXCEPT ![l] = 0]
  BY DEF Throws
<1>3. /\ msg' \in [Loops -> [Tasks -> Message]]
      /\ msg'[l][t].state = s /\ msg'[l][t].deliveries = msg[l][t].deliveries
      /\ \A x \in Loops, y \in Tasks : <<x, y>> # <<l, t>> => msg'[x][y] = msg[x][y]
  <2> DEFINE m == [msg[l][t] EXCEPT !.state = s]
  <2>1. msg \in [Loops -> [Tasks -> Message]] /\ msg[l][t] \in Message /\ s \in {"dead", "queued"}
    BY <1>1 DEF QueuesInv, QueueTypes
  <2> HIDE DEF s, t
  <2>2. m \in Message /\ m.state = s /\ m.deliveries = msg[l][t].deliveries
    BY <2>1 DEF Message
  <2>3. msg' = [msg EXCEPT ![l][t] = m]
    BY <1>1, <1>2, <2>1
  <2> HIDE DEF m
  <2> QED BY <1>1, <2>1, <2>2, <2>3
<1>4. QueueTypes'
  <2>1. deadLetters' \subseteq Loops \X Tasks
    BY <1>1, <1>2 DEF QueuesInv, QueueTypes
  <2>2. subject' \in [Loops -> 0..MaxExecutions]
    BY <1>2, SessionsAssumption DEF QueuesInv, QueueTypes
  <2> QED BY <1>3, <2>1, <2>2 DEF QueuesInv, QueueTypes
<1>5. ASSUME NEW x \in Loops, NEW y \in Tasks PROVE MessageOK(x, y)'
  <2>1. CASE <<x, y>> = <<l, t>>
    <3>1. x = l /\ y = t
      BY <2>1
    <3>2. s = "dead" => <<l, t>> \in deadLetters'
      BY <1>2
    <3>3. s # "dead" => msg'[l][t].deliveries < MaxDeliver
      BY <1>1, <1>3, SessionsAssumption
    <3>4. s \in {"dead", "queued"}
      OBVIOUS
    <3> HIDE DEF s, t
    <3> QED BY <1>3, <3>1, <3>2, <3>3, <3>4 DEF MessageOK
  <2>2. CASE <<x, y>> # <<l, t>>
    <3>1. msg'[x][y] = msg[x][y] /\ deadLetters \subseteq deadLetters' /\ MessageOK(x, y)
      BY <1>2, <1>3, <2>2 DEF QueuesInv
    <3> QED BY <3>1 DEF MessageOK
  <2> QED BY <2>1, <2>2
<1>6. ASSUME NEW x \in Loops, Busy(x)' PROVE subject'[x] \in Tasks
  <2>1. job \in [Writers -> Job] /\ l \in Writers /\ x \in Writers
    BY WriterNames DEF WorkflowInv, WorkflowTypeOK
  <2>2. x # l
    BY <1>2, <1>6, <2>1 DEF Busy, NoJob
  <2>3. Busy(x) /\ subject'[x] = subject[x]
    BY <1>2, <1>6, <2>1, <2>2 DEF Busy, QueuesInv, QueueTypes
  <2> QED BY <2>3 DEF QueuesInv
<1> QED BY <1>4, <1>5, <1>6 DEF QueuesInv

\* A handler comes to its end: its message is acknowledged.
LEMMA AckKeepsQueues ==
  ASSUME QueuesInv, WorkflowInv, NEW l \in Loops, Busy(l), Acks(l),
         l = "result" => applied' # {}, applied \subseteq applied', applied' \subseteq Tasks,
         handled' \subseteq Tasks, handled' # {} => applied' # {},
         correlation' \in [Tasks -> 0..MaxExecutions], compared' \subseteq Tasks,
         UNCHANGED <<target, key, deadLetters, dropped, crashed>>
  PROVE  QueuesInv'
<1> DEFINE t == subject[l]
<1>1. t \in Tasks /\ msg \in [Loops -> [Tasks -> Message]]
  BY DEF QueuesInv, QueueTypes
<1>2. /\ msg' = [msg EXCEPT ![l][t].state = "done"]
      /\ job' = [job EXCEPT ![l] = NoJob] /\ subject' = [subject EXCEPT ![l] = 0]
  BY DEF Acks
<1>3. /\ msg' \in [Loops -> [Tasks -> Message]] /\ msg'[l][t].state = "done"
      /\ \A x \in Loops, y \in Tasks : <<x, y>> # <<l, t>> => msg'[x][y] = msg[x][y]
  <2> DEFINE m == [msg[l][t] EXCEPT !.state = "done"]
  <2>1. msg[l][t] \in Message
    BY <1>1
  <2> HIDE DEF t
  <2>2. m \in Message /\ m.state = "done"
    BY <2>1 DEF Message
  <2>3. msg' = [msg EXCEPT ![l][t] = m]
    BY <1>1, <1>2
  <2> HIDE DEF m
  <2> QED BY <1>1, <2>1, <2>2, <2>3
<1>4. QueueTypes'
  <2>1. subject' \in [Loops -> 0..MaxExecutions]
    BY <1>2, SessionsAssumption DEF QueuesInv, QueueTypes
  <2> QED BY <1>3, <2>1 DEF QueuesInv, QueueTypes
<1>5. ASSUME NEW x \in Loops, NEW y \in Tasks PROVE MessageOK(x, y)'
  <2>1. CASE x = l /\ y = t
    BY <1>3, <2>1 DEF MessageOK
  <2>2. CASE ~(x = l /\ y = t)
    <3>1. msg'[x][y] = msg[x][y] /\ MessageOK(x, y)
      BY <1>3, <2>2 DEF QueuesInv
    <3>2. applied # {} => applied' # {}
      OBVIOUS
    <3> QED BY <3>1, <3>2 DEF MessageOK
  <2> QED BY <2>1, <2>2
<1>6. ASSUME NEW x \in Loops, Busy(x)' PROVE subject'[x] \in Tasks
  <2>1. job \in [Writers -> Job] /\ l \in Writers /\ x \in Writers
    BY WriterNames DEF WorkflowInv, WorkflowTypeOK
  <2>2. x # l
    BY <1>2, <1>6, <2>1 DEF Busy, NoJob
  <2>3. Busy(x) /\ subject'[x] = subject[x]
    BY <1>2, <1>6, <2>1, <2>2 DEF Busy, QueuesInv, QueueTypes
  <2> QED BY <2>3 DEF QueuesInv
<1> QED BY <1>4, <1>5, <1>6 DEF QueuesInv

\* A loop takes a queued message.
LEMMA TakeKeepsQueues ==
  ASSUME QueuesInv, NEW l \in Loops, NEW t \in Tasks, Takes(l, t), Delivered(l, t, "inflight"),
         OthersStay(l), target' \in 0..MaxExecutions, key' \in 0..MaxExecutions,
         UNCHANGED <<handled, deadLetters, applied, dropped, correlation, compared, crashed>>
  PROVE  QueuesInv'
<1>1. /\ msg' \in [Loops -> [Tasks -> Message]] /\ msg'[l][t].state = "inflight"
      /\ \A x \in Loops, y \in Tasks : <<x, y>> # <<l, t>> => msg'[x][y] = msg[x][y]
  BY DeliveryCounts DEF Takes
<1>2. subject' = [subject EXCEPT ![l] = t]
  BY DEF Takes
<1>3. QueueTypes'
  <2>1. t \in 0..MaxExecutions
    BY SessionsAssumption DEF Tasks
  <2>2. subject' \in [Loops -> 0..MaxExecutions]
    BY <1>2, <2>1 DEF QueuesInv, QueueTypes
  <2> QED BY <1>1, <2>2 DEF QueuesInv, QueueTypes
<1>4. ASSUME NEW x \in Loops, NEW y \in Tasks PROVE MessageOK(x, y)'
  <2>1. CASE x = l /\ y = t
    BY <1>1, <2>1 DEF MessageOK
  <2>2. CASE ~(x = l /\ y = t)
    <3>1. msg'[x][y] = msg[x][y] /\ MessageOK(x, y)
      BY <1>1, <2>2 DEF QueuesInv
    <3> QED BY <3>1 DEF MessageOK
  <2> QED BY <2>1, <2>2
<1>5. ASSUME NEW x \in Loops, Busy(x)' PROVE subject'[x] \in Tasks
  <2>1. CASE x = l
    BY <1>2, <2>1 DEF QueuesInv, QueueTypes
  <2>2. CASE x # l
    <3>1. Busy(x) /\ subject'[x] = subject[x]
      BY <1>2, <1>5, <2>2, WriterNames DEF Busy, OthersStay, QueuesInv, QueueTypes
    <3> QED BY <3>1 DEF QueuesInv
  <2> QED BY <2>1, <2>2
<1> QED BY <1>3, <1>4, <1>5 DEF QueuesInv

\* A message is acknowledged without a handler, or published by the worker.
LEMMA AnswerKeepsQueues ==
  ASSUME QueuesInv, NEW l \in Loops, NEW t \in Tasks, msg' \in [Loops -> [Tasks -> Message]],
         \/ msg'[l][t].state = "done" /\ (l = "result" => applied # {})
         \/ msg'[l][t].state = "queued" /\ msg'[l][t].deliveries < MaxDeliver,
         \A x \in Loops, y \in Tasks : <<x, y>> # <<l, t>> => msg'[x][y] = msg[x][y],
         dropped' \in [Tasks -> 0..MaxExecutions],
         UNCHANGED <<job, subject, target, key, handled, deadLetters, applied, correlation,
                     compared, crashed>>
  PROVE  QueuesInv'
<1>1. QueueTypes'
  BY DEF QueuesInv, QueueTypes
<1>2. ASSUME NEW x \in Loops, NEW y \in Tasks PROVE MessageOK(x, y)'
  <2>1. CASE x = l /\ y = t
    BY <2>1 DEF MessageOK
  <2>2. CASE ~(x = l /\ y = t)
    <3>1. msg'[x][y] = msg[x][y] /\ MessageOK(x, y)
      BY <2>2 DEF QueuesInv
    <3> QED BY <3>1 DEF MessageOK
  <2> QED BY <2>1, <2>2
<1>3. \A x \in Loops : Busy(x)' => subject'[x] \in Tasks
  BY DEF QueuesInv, Busy
<1> QED BY <1>1, <1>2, <1>3 DEF QueuesInv

\* A writer moves that is no loop, or a loop that has its message already.
LEMMA MoveKeepsQueues ==
  ASSUME QueuesInv, NEW w \in Writers, OthersStay(w), w \in Loops => Busy(w),
         UNCHANGED <<queues, crashed>>
  PROVE  QueuesInv'
<1>1. QueueTypes' /\ (handled' # {} => applied' # {})
  BY DEF QueuesInv, QueueTypes, queues
<1>2. \A x \in Loops, y \in Tasks : MessageOK(x, y)'
  BY DEF QueuesInv, MessageOK, queues
<1>3. ASSUME NEW x \in Loops, Busy(x)' PROVE subject'[x] \in Tasks
  <2>1. Busy(x)
    BY <1>3, WriterNames DEF Busy, OthersStay
  <2> QED BY <2>1 DEF QueuesInv, queues
<1> QED BY <1>1, <1>2, <1>3 DEF QueuesInv

\* The process dies: what was in flight is queued again or dead.
LEMMA CrashKeepsQueues ==
  ASSUME QueuesInv, WorkflowInv, Crash
  PROVE  QueuesInv'
<1>1. /\ crashed' = TRUE /\ handled' = {} /\ compared' = {}
      /\ subject' = [l \in Loops |-> 0]
      /\ UNCHANGED <<target, key, deadLetters, applied, dropped, correlation>>
  BY DEF Crash
<1>2. ASSUME NEW l \in Loops, NEW t \in Tasks
      PROVE  /\ msg[l][t] \in Message /\ msg'[l][t] \in Message
             /\ msg'[l][t].deliveries = msg[l][t].deliveries
             /\ \/ msg'[l][t].state = msg[l][t].state /\ msg[l][t].state # "inflight"
                \/ msg'[l][t].state = "dead"
                \/ msg'[l][t].state = "queued" /\ msg[l][t].deliveries < MaxDeliver
  <2> DEFINE m == msg[l][t]
             s == IF m.deliveries >= MaxDeliver THEN "dead" ELSE "queued"
  <2>1. m \in Message
    BY DEF QueuesInv, QueueTypes
  <2>2. msg'[l][t] = IF m.state # "inflight" THEN m ELSE [m EXCEPT !.state = s]
    BY DEF Crash
  <2>3. s \in {"dead", "queued"} /\ (s = "queued" => m.deliveries < MaxDeliver)
    BY <2>1, SessionsAssumption DEF Message
  <2> HIDE DEF m, s
  <2>4. CASE m.state # "inflight"
    BY <2>1, <2>2, <2>4 DEF m
  <2>5. CASE m.state = "inflight"
    <3>1. /\ [m EXCEPT !.state = s] \in Message /\ [m EXCEPT !.state = s].state = s
          /\ [m EXCEPT !.state = s].deliveries = m.deliveries
      BY <2>1, <2>3 DEF Message
    <3> QED BY <2>1, <2>2, <2>3, <2>5, <3>1 DEF m
  <2> QED BY <2>4, <2>5
<1>3. msg' \in [Loops -> [Tasks -> Message]]
  <2>1. msg' = [l \in Loops |-> [t \in Tasks |-> msg'[l][t]]]
    BY DEF Crash
  <2> QED BY <1>2, <2>1
<1>4. QueueTypes'
  BY <1>1, <1>3, SessionsAssumption DEF QueuesInv, QueueTypes
<1>5. ASSUME NEW l \in Loops, NEW t \in Tasks PROVE MessageOK(l, t)'
  <2>1. MessageOK(l, t)
    BY DEF QueuesInv
  <2> QED BY <1>1, <1>2, <2>1 DEF MessageOK
<1>6. \A l \in Loops : ~Busy(l)'
  <2>1. \A l \in Loops : job'[l] = NoJob
    BY WriterNames DEF Crash
  <2> QED BY <2>1 DEF Busy, NoJob
<1> QED BY <1>1, <1>4, <1>5, <1>6 DEF QueuesInv

LEMMA QueuesStep ==
  QueuesInv /\ WorkflowInv /\ ExecutionsOK /\ Len(executions) <= MaxExecutions /\ [Next]_vars
    => QueuesInv'
<1> SUFFICES ASSUME QueuesInv, WorkflowInv, ExecutionsOK, Len(executions) <= MaxExecutions,
                    [Next]_vars
             PROVE  QueuesInv'
  OBVIOUS
<1>1. /\ "result" \in Loops /\ "divergence" \in Loops
      /\ "result" \in Writers /\ "divergence" \in Writers /\ "result" # "divergence"
  BY WriterNames
<1>2. QueueTypes
  BY DEF QueuesInv
<1>3. ASSUME NEW q \in Requests,
             (OfWorkflow(q) /\ UNCHANGED sessionVars) \/ SessionRequest(q) \/ RequestFails(q)
      PROVE  QueuesInv'
  <2>1. q \in Writers /\ OthersStay(q) /\ UNCHANGED <<queues, crashed>>
    BY <1>3, RequestTurns
  <2>2. q \notin Loops
    BY WorkflowsAssumption
  <2> QED BY <2>1, <2>2, MoveKeepsQueues
<1>4. ASSUME NEW l \in Loops, NEW t \in Tasks, WorkerAnswers(l, t) PROVE QueuesInv'
  <2>1. /\ msg[l][t].state = "none" /\ msg' = [msg EXCEPT ![l][t].state = "queued"]
        /\ UNCHANGED <<job, subject, target, key, handled, deadLetters, applied, dropped,
                       correlation, compared, crashed>>
    BY <1>4 DEF WorkerAnswers, workflowVars
  <2>2. msg[l][t].deliveries < MaxDeliver
    BY <2>1 DEF QueuesInv, MessageOK
  <2>3. /\ msg' \in [Loops -> [Tasks -> Message]] /\ msg'[l][t].state = "queued"
        /\ msg'[l][t].deliveries = msg[l][t].deliveries
        /\ \A x \in Loops, y \in Tasks : <<x, y>> # <<l, t>> => msg'[x][y] = msg[x][y]
    BY <1>2, <2>1, StateChanges
  <2>4. dropped' \in [Tasks -> 0..MaxExecutions]
    BY <1>2, <2>1 DEF QueueTypes
  <2> QED BY <2>1, <2>2, <2>3, <2>4, AnswerKeepsQueues
<1>5. ASSUME NEW t \in Tasks, NEW l \in Loops,
             \/ l = "result" /\ SkipResult(t)
             \/ l = "divergence" /\ SkipDivergence(t)
      PROVE  QueuesInv'
  <2>1. /\ msg[l][t].state = "queued" /\ Delivered(l, t, "done")
        /\ UNCHANGED <<job, subject, target, key, handled, deadLetters, applied, correlation,
                       compared, crashed>>
    BY <1>1, <1>5 DEF SkipResult, SkipDivergence, workflowVars
  <2>2. l = "result" => applied # {}
    BY <1>1, <1>5 DEF SkipResult, QueuesInv
  <2>3. /\ msg' \in [Loops -> [Tasks -> Message]] /\ msg'[l][t].state = "done"
        /\ \A x \in Loops, y \in Tasks : <<x, y>> # <<l, t>> => msg'[x][y] = msg[x][y]
    BY <2>1, DeliveryCounts
  <2>4. dropped' \in [Tasks -> 0..MaxExecutions]
    <3>1. dropped' = [dropped EXCEPT ![t] = Key] \/ dropped' = dropped
      BY <1>5 DEF SkipResult, SkipDivergence
    <3> QED BY <1>2, <3>1, KeyIsTask DEF QueueTypes
  <2> QED BY <2>1, <2>2, <2>3, <2>4, AnswerKeepsQueues
<1>6. ASSUME NEW t \in Tasks, NEW l \in Loops,
             \/ l = "result" /\ ReceiveResult(t)
             \/ l = "divergence" /\ ReceiveDivergence(t)
      PROVE  QueuesInv'
  <2>1. Takes(l, t) /\ Delivered(l, t, "inflight")
    BY <1>6 DEF ReceiveResult, ReceiveDivergence
  <2>2. UNCHANGED <<handled, deadLetters, applied, dropped, correlation, compared, crashed>>
    BY <1>6 DEF ReceiveResult, ReceiveDivergence
  <2>3. target' \in 0..MaxExecutions /\ key' \in 0..MaxExecutions
    <3>1. Latest \in 0..MaxExecutions /\ Key \in 0..MaxExecutions
      BY KeyIsTask
    <3>2. (target' = Latest /\ key' = Key) \/ UNCHANGED <<target, key>>
      BY <1>6 DEF ReceiveResult, ReceiveDivergence
    <3> QED BY <1>2, <3>1, <3>2 DEF QueueTypes
  <2>4. OthersStay(l)
    BY <1>6, ReceiveTurns
  <2> QED BY <2>1, <2>2, <2>3, <2>4, TakeKeepsQueues
<1>7. CASE HandleResult
  <2>1. OthersStay("result") /\ Busy("result")
    BY <1>7, ResultTurns
  <2>2. CASE InsertResultRefused \/ SaveResultThenThrow
    <3>1. /\ Throws("result")
          /\ UNCHANGED <<target, key, handled, applied, dropped, correlation, compared, crashed>>
      BY <2>2 DEF InsertResultRefused, SaveResultThenThrow
    <3> QED BY <1>1, <2>1, <3>1, ThrowKeepsQueues
  <2>3. CASE Report
    <3> DEFINE t == subject["result"]
    <3>1. t \in Tasks
      BY <1>1, <2>1 DEF QueuesInv
    <3>2. /\ applied' = applied \cup {t} /\ correlation' = [correlation EXCEPT ![t] = key]
          /\ handled' = handled \cup ({key} \ {0}) /\ Acks("result")
          /\ UNCHANGED <<target, key, deadLetters, dropped, compared, crashed>>
      BY <2>3 DEF Report
    <3> HIDE DEF t
    <3>3. applied' # {} /\ applied \subseteq applied' /\ applied' \subseteq Tasks
      BY <1>2, <3>1, <3>2 DEF QueueTypes
    <3>4. key \in 0..MaxExecutions /\ {key} \ {0} \subseteq Tasks
      BY <1>2, SessionsAssumption DEF QueueTypes, Tasks
    <3>5. /\ handled' \subseteq Tasks /\ correlation' \in [Tasks -> 0..MaxExecutions]
          /\ compared' \subseteq Tasks
      BY <1>2, <3>2, <3>4 DEF QueueTypes
    <3> QED BY <1>1, <2>1, <3>2, <3>3, <3>5, AckKeepsQueues
  <2>4. CASE \/ ReadNewest \/ InsertResult \/ (Diff("result") /\ UNCHANGED sessionVars)
             \/ SaveResult \/ DiffSession("result") \/ SaveSessionOfResult
             \/ DiffExecution("result") \/ CompleteExecution
    <3>1. UNCHANGED <<queues, crashed>>
      BY <2>4 DEF ReadNewest, InsertResult, SaveResult, DiffSession, SaveSessionOfResult,
                  DiffExecution, CompleteExecution, sessionVars
    <3> QED BY <1>1, <2>1, <3>1, MoveKeepsQueues
  <2> QED BY <1>7, <2>2, <2>3, <2>4 DEF HandleResult
<1>8. CASE DiffSession("divergence") \/ SaveDivergence
  <2>1. OthersStay("divergence") /\ Busy("divergence")
    BY <1>8, DivergenceTurns
  <2>2. UNCHANGED <<queues, crashed>>
    BY <1>8 DEF DiffSession, SaveDivergence
  <2> QED BY <1>1, <2>1, <2>2, MoveKeepsQueues
<1>9. CASE AckDivergence
  <2> DEFINE t == subject["divergence"]
  <2>1. Busy("divergence") /\ t \in Tasks
    BY <1>1, <1>9, DivergenceTurns DEF QueuesInv
  <2>2. /\ compared' = compared \cup ({correlation[t]} \ {0}) /\ Acks("divergence")
        /\ UNCHANGED <<target, key, handled, deadLetters, applied, dropped, correlation, crashed>>
    BY <1>9 DEF AckDivergence
  <2> HIDE DEF t
  <2>3. correlation[t] \in 0..MaxExecutions
    BY <1>2, <2>1 DEF QueueTypes
  <2>4. {correlation[t]} \ {0} \subseteq Tasks
    BY <2>3, SessionsAssumption DEF Tasks
  <2>5. /\ compared' \subseteq Tasks /\ applied \subseteq applied' /\ applied' \subseteq Tasks
        /\ handled' \subseteq Tasks /\ (handled' # {} => applied' # {})
        /\ correlation' \in [Tasks -> 0..MaxExecutions]
    BY <1>2, <2>2, <2>4 DEF QueueTypes, QueuesInv
  <2> QED BY <1>1, <2>1, <2>2, <2>5, AckKeepsQueues
<1>10. ASSUME NEW l \in Loops, HandlerFails(l) PROVE QueuesInv'
  <2>1. /\ Busy(l) /\ Throws(l)
        /\ UNCHANGED <<target, key, handled, applied, dropped, correlation, compared, crashed>>
    BY <1>10 DEF HandlerFails
  <2> QED BY <2>1, ThrowKeepsQueues
<1>11. CASE Crash
  BY <1>11, CrashKeepsQueues
<1>12. CASE UNCHANGED vars
  <2>1. UNCHANGED <<job, queues, crashed>>
    BY <1>12 DEF vars, workflowVars, sessionVars
  <2>2. OthersStay("result") /\ UNCHANGED <<subject, job>>
    BY <2>1 DEF OthersStay, queues
  <2>3. \A l \in Loops : Busy(l)' => subject'[l] \in Tasks
    BY <2>2 DEF Busy, QueuesInv
  <2>4. QueueTypes' /\ (handled' # {} => applied' # {})
        /\ \A x \in Loops, y \in Tasks : MessageOK(x, y)'
    BY <2>1 DEF QueuesInv, QueueTypes, MessageOK, queues
  <2> QED BY <2>3, <2>4 DEF QueuesInv
<1>13. ASSUME NEW t \in Tasks,
             SkipResult(t) \/ ReceiveResult(t) \/ SkipDivergence(t) \/ ReceiveDivergence(t)
      PROVE  QueuesInv'
  BY <1>1, <1>5, <1>6, <1>13
<1> QED BY <1>3, <1>4, <1>7, <1>8, <1>9, <1>10, <1>11, <1>12, <1>13 DEF Next

-------------------------------------------------------------------------------
(* The tasks. *)

\* An execution is left for every posted message, so that a request that publishes a task
\* holds the id of one.
TasksInv ==
  /\ ExecutionsOK
  /\ Len(executions) + Cardinality(Posted) <= MaxExecutions
  /\ published \subseteq Tasks
  /\ \A q \in Requests : job[q].phase = "publish" => job[q].next \in Tasks

LEMMA PostedIsFinite ==
  /\ IsFiniteSet(Posted) /\ Cardinality(Posted) \in Nat
  /\ IsFiniteSet(Posted)' /\ (Cardinality(Posted) \in Nat)'
<1>1. IsFiniteSet(Requests) /\ Posted \subseteq Requests /\ Posted' \subseteq Requests
  BY WorkflowsAssumption DEF Posted
<1>2. IsFiniteSet(Posted) /\ IsFiniteSet(Posted')
  BY <1>1, FS_Subset
<1> QED BY <1>2, FS_CardinalityType

LEMMA TasksAreBounded ==
  ASSUME TasksInv
  PROVE  Len(executions) \in Nat /\ Len(executions) <= MaxExecutions
<1>1. Len(executions) \in Nat /\ Cardinality(Posted) \in Nat
  BY PostedIsFinite DEF TasksInv, ExecutionsOK
<1> QED BY <1>1, SessionsAssumption DEF TasksInv

\* No step but those of dispatchAiTask() posts or publishes.
LEMMA TurnKeepsTasks ==
  ASSUME TasksInv, ExecutionsOK', Len(executions') = Len(executions), published' \subseteq Tasks,
         \A q \in Requests : job'[q] = job[q] \/ job'[q].phase \notin {"posted", "publish"}
  PROVE  TasksInv'
<1>1. Posted' \subseteq Posted
  BY DEF Posted
<1>2. Cardinality(Posted') <= Cardinality(Posted)
  BY <1>1, PostedIsFinite, FS_Subset
<1>3. /\ Cardinality(Posted) \in Nat /\ (Cardinality(Posted) \in Nat)'
      /\ Len(executions) \in Nat /\ MaxExecutions \in Nat
  BY PostedIsFinite, SessionsAssumption DEF TasksInv, ExecutionsOK
<1>4. (Len(executions) + Cardinality(Posted) <= MaxExecutions)'
  BY <1>2, <1>3 DEF TasksInv
<1> QED BY <1>4 DEF TasksInv

\* An execution is saved: no other row changes, and the columns that were dirty.
LEMMA ExecutionMarked ==
  ASSUME ExecutionsOK, NEW w, ExecutionSaved(w)
  PROVE  /\ ExecutionsOK' /\ Len(executions') = Len(executions)
         /\ \A j \in 1..Len(executions) : j # Held(w) => executions'[j] = executions[j]
         /\ Held(w) \in 1..Len(executions) =>
              executions'[Held(w)] = Saved(executions[Held(w)], ExecutionCopy(w), dirty[w])
<1> DEFINE i == Held(w)
           e == Saved(executions[i], ExecutionCopy(w), dirty[w])
<1>1. executions \in Seq(Execution) /\ executions \in [1..Len(executions) -> Execution]
  <2>1. executions \in Seq(Execution)
    BY DEF ExecutionsOK
  <2> QED BY <2>1, SeqDef
<1>2. executions' = [executions EXCEPT ![i] = e]
  BY DEF ExecutionSaved
<1>3. CASE i \in 1..Len(executions)
  <2>1. e \in Execution
    BY <1>1, <1>3, SavedExecution, CopyOfExecution
  <2> HIDE DEF e, i
  <2>2. executions' \in Seq(Execution) /\ Len(executions') = Len(executions)
    BY <1>1, <1>2, <1>3, <2>1, ExceptSeq
  <2>3. /\ executions'[i] = e
        /\ \A j \in 1..Len(executions) : j # i => executions'[j] = executions[j]
    BY <1>1, <1>2, <1>3
  <2> QED BY <2>2, <2>3 DEF ExecutionsOK, e, i
<1>4. CASE i \notin 1..Len(executions)
  <2> HIDE DEF e, i
  <2>1. executions' = executions
    BY <1>1, <1>2, <1>4
  <2> QED BY <1>4, <2>1 DEF ExecutionsOK, i
<1> QED BY <1>3, <1>4

LEMMA RequestKeepsTasks ==
  ASSUME TasksInv, WorkflowInv, NEW q \in Requests,
         (OfWorkflow(q) /\ UNCHANGED sessionVars) \/ SessionRequest(q) \/ RequestFails(q)
  PROVE  TasksInv'
<1>1. /\ q \in Writers /\ OthersStay(q) /\ WorkflowTypeOK /\ ExecutionsOK
      /\ PostMessage(q) \/ SaveExecution(q) \/ job'[q].phase \notin {"posted", "publish"}
  BY RequestTurns DEF WorkflowInv, TasksInv
<1>2. \A x \in Requests \ {q} : job'[x] = job[x]
  BY <1>1, WriterNames DEF OthersStay
<1>3. /\ Cardinality(Posted) \in Nat /\ (Cardinality(Posted) \in Nat)'
      /\ Len(executions) \in Nat /\ MaxExecutions \in Nat
  BY <1>1, PostedIsFinite, SessionsAssumption DEF ExecutionsOK
<1>4. CASE PostMessage(q)
  <2>1. /\ job[q].phase = "idle" /\ executions' = executions /\ published' = published
        /\ Begins(q, "dispatch", "posted", workflow, 0) /\ "dispatch" \in Kinds
        /\ Len(executions) + Cardinality(Posted) < MaxExecutions
    BY <1>4 DEF PostMessage, Opens, Posted
  <2>2. job'[q].phase = "posted"
    <3>1. workflow \in Row /\ 0 \in Nat /\ "posted" \in Phases /\ "dispatch" \in Kinds \cup Loops
      BY <1>1, <2>1 DEF WorkflowTypeOK, Phases
    <3> QED BY <1>1, <2>1, <3>1, BeginsMeans
  <2>3. q \notin Posted /\ Posted' = Posted \cup {q}
    BY <1>2, <2>1, <2>2 DEF Posted
  <2>4. Cardinality(Posted') = Cardinality(Posted) + 1
    BY <2>3, PostedIsFinite, FS_AddElement
  <2>5. (Len(executions) + Cardinality(Posted) <= MaxExecutions)'
    BY <1>3, <2>1, <2>4
  <2> QED BY <1>2, <2>1, <2>2, <2>5 DEF TasksInv, ExecutionsOK
<1>5. CASE SaveExecution(q)
  <2> DEFINE new == [status |-> "pending", named |-> FALSE]
             n == Len(executions) + 1
  <2>1. /\ job[q].phase = "posted" /\ executions' = Append(executions, new)
        /\ job' = [job EXCEPT ![q].phase = "publish", ![q].next = n]
        /\ published' = published
    BY <1>5 DEF SaveExecution
  <2>2. job'[q].phase = "publish" /\ job'[q].next = n
    <3>1. n \in Nat /\ "publish" \in Phases
      BY <1>3 DEF Phases
    <3> HIDE DEF n
    <3> QED BY <1>1, <2>1, <3>1, NumbersMeans, NumberIsHeld
  <2>3. ExecutionsOK' /\ Len(executions') = Len(executions) + 1
    <3>1. new \in Execution
      BY DEF Execution
    <3> HIDE DEF new
    <3> QED BY <1>1, <2>1, <3>1 DEF ExecutionsOK
  <2>4. q \in Posted /\ Posted' = Posted \ {q}
    BY <1>2, <2>1, <2>2 DEF Posted
  <2>5. Cardinality(Posted') = Cardinality(Posted) - 1
    BY <2>4, PostedIsFinite, FS_RemoveElement
  <2>6. (Len(executions) + Cardinality(Posted) <= MaxExecutions)'
    BY <1>3, <2>3, <2>5 DEF TasksInv
  <2>7. n \in Tasks
    BY <1>3, <2>3, <2>6 DEF Tasks
  <2> HIDE DEF n
  <2> QED BY <1>2, <2>1, <2>2, <2>3, <2>6, <2>7 DEF TasksInv
<1>6. CASE job'[q].phase \notin {"posted", "publish"}
  <2>1. ASSUME ~PostMessage(q), ~SaveExecution(q)
        PROVE  /\ ExecutionsOK' /\ Len(executions') = Len(executions)
               /\ published' \subseteq Tasks
    <3>1. CASE NameExecution(q)
      <4>1. ExecutionSaved(q) /\ published' = published
        BY <3>1 DEF NameExecution
      <4> QED BY <1>1, <4>1, ExecutionMarked DEF TasksInv
    <3>2. CASE PublishTask(q)
      <4>1. executions' = executions /\ published' = published \cup {job[q].next}
        BY <3>2 DEF PublishTask
      <4>2. job[q].next \in Tasks
        BY <3>2 DEF PublishTask, TasksInv
      <4> QED BY <4>1, <4>2 DEF TasksInv, ExecutionsOK
    <3>3. CASE ~NameExecution(q) /\ ~PublishTask(q)
      <4>1. executions' = executions /\ published' = published
        BY <2>1, <3>3 DEF SessionRequest, RequestFails, sessionVars, Finalize, Delete, UpdateMode,
                          Override, DiffExecution, DiffSession, SaveSession, Rest
      <4> QED BY <4>1 DEF TasksInv, ExecutionsOK
    <3> QED BY <3>1, <3>2, <3>3
  <2> QED BY <1>1, <1>2, <1>4, <1>5, <1>6, <2>1, TurnKeepsTasks
<1> QED BY <1>1, <1>4, <1>5, <1>6

LEMMA TasksStep == TasksInv /\ WorkflowInv /\ [Next]_vars => TasksInv'
<1> SUFFICES ASSUME TasksInv, WorkflowInv, [Next]_vars PROVE TasksInv'
  OBVIOUS
<1>1. /\ "result" \notin Requests /\ "divergence" \notin Requests /\ Requests \subseteq Writers
      /\ Requests \cap Loops = {} /\ ExecutionsOK
  BY WriterNames, WorkflowsAssumption DEF TasksInv
<1>2. ASSUME NEW q \in Requests,
             (OfWorkflow(q) /\ UNCHANGED sessionVars) \/ SessionRequest(q) \/ RequestFails(q)
      PROVE  TasksInv'
  BY <1>2, RequestKeepsTasks
<1>3. ASSUME UNCHANGED <<executions, published>>,
             \A q \in Requests : job'[q] = job[q] \/ job'[q].phase \notin {"posted", "publish"}
      PROVE  TasksInv'
  <2>1. ExecutionsOK' /\ Len(executions') = Len(executions) /\ published' \subseteq Tasks
    BY <1>3 DEF TasksInv, ExecutionsOK
  <2> QED BY <1>3, <2>1, TurnKeepsTasks
<1>4. CASE \/ UNCHANGED vars \/ \E l \in Loops, t \in Tasks : WorkerAnswers(l, t)
           \/ \E t \in Tasks : SkipResult(t) \/ SkipDivergence(t)
  <2>1. UNCHANGED <<job, executions, published>>
    BY <1>4 DEF vars, workflowVars, sessionVars, WorkerAnswers, SkipResult, SkipDivergence
  <2> QED BY <1>3, <2>1
<1>5. ASSUME NEW t \in Tasks, NEW l \in Loops,
             \/ l = "result" /\ ReceiveResult(t)
             \/ l = "divergence" /\ ReceiveDivergence(t)
      PROVE  TasksInv'
  <2>1. OthersStay(l) /\ l \notin Requests
    BY <1>1, <1>5, ReceiveTurns
  <2>2. UNCHANGED <<executions, published>>
    BY <1>5 DEF ReceiveResult, ReceiveDivergence
  <2> QED BY <1>1, <1>3, <2>1, <2>2 DEF OthersStay
<1>6. CASE HandleResult
  <2>1. \A q \in Requests : job'[q] = job[q]
    BY <1>1, <1>6, ResultTurns DEF OthersStay
  <2>2. CASE CompleteExecution
    <3>1. ExecutionSaved("result") /\ published' = published
      BY <2>2 DEF CompleteExecution
    <3>2. ExecutionsOK' /\ Len(executions') = Len(executions)
      BY <1>1, <3>1, ExecutionMarked
    <3> QED BY <2>1, <3>1, <3>2, TurnKeepsTasks DEF TasksInv
  <2>3. CASE ~CompleteExecution
    <3>1. UNCHANGED <<executions, published>>
      BY <1>6, <2>3 DEF HandleResult, ReadNewest, InsertResult, InsertResultRefused, SaveResult,
                        SaveResultThenThrow, DiffSession, SaveSessionOfResult, DiffExecution,
                        Report, sessionVars
    <3> QED BY <1>3, <2>1, <3>1
  <2> QED BY <2>2, <2>3
<1>7. CASE DiffSession("divergence") \/ SaveDivergence \/ AckDivergence
  <2>1. \A q \in Requests : job'[q] = job[q]
    BY <1>1, <1>7, DivergenceTurns DEF OthersStay
  <2>2. UNCHANGED <<executions, published>>
    BY <1>7 DEF DiffSession, SaveDivergence, AckDivergence
  <2> QED BY <1>3, <2>1, <2>2
<1>8. ASSUME NEW l \in Loops, HandlerFails(l) PROVE TasksInv'
  <2>1. job' = [job EXCEPT ![l] = NoJob] /\ UNCHANGED <<executions, published>>
    BY <1>8 DEF HandlerFails, Throws
  <2>2. \A q \in Requests : job'[q] = job[q]
    BY <1>1, <2>1 DEF WorkflowInv, WorkflowTypeOK
  <2> QED BY <1>3, <2>1, <2>2
<1>9. CASE Crash
  <2>1. UNCHANGED <<executions, published>>
    BY <1>9 DEF Crash
  <2>2. ASSUME NEW q \in Requests
        PROVE  job'[q] = job[q] \/ job'[q].phase \notin {"posted", "publish"}
    <3>1. job'[q] = IF Busy(q) THEN [NoJob EXCEPT !.phase = "refused"] ELSE job[q]
      BY <1>1, <1>9 DEF Crash
    <3>2. [NoJob EXCEPT !.phase = "refused"].phase = "refused"
      BY DEF NoJob
    <3> QED BY <3>1, <3>2
  <2> QED BY <1>3, <2>1, <2>2
<1>10. "result" \in Loops /\ "divergence" \in Loops
  BY WriterNames
<1>11. ASSUME NEW t \in Tasks, ReceiveResult(t) \/ ReceiveDivergence(t) PROVE TasksInv'
  BY <1>5, <1>10, <1>11
<1> QED BY <1>2, <1>4, <1>6, <1>7, <1>8, <1>9, <1>11 DEF Next

-------------------------------------------------------------------------------
(* What became of the results. *)

\* A request that dispatches a task holds an execution of its own, without an id yet.
Dispatching(q) == job[q].phase \in {"publish", "published", "updateExecution"}

DispatchInv ==
  /\ published \subseteq 1..Len(executions)
  /\ \A q \in Requests : Dispatching(q) =>
       job[q].next \in 1..Len(executions) /\ ~executions[job[q].next].named
  /\ \A q, r \in Requests :
       Dispatching(q) /\ Dispatching(r) /\ job[q].next = job[r].next => q = r

\* The result at work: its execution has the id it is handled under, and no result was handled
\* under an id that it does not see; when it reports, the execution is completed.
CurrentInv ==
  Busy("result") =>
    /\ msg["result"][subject["result"]].state = "inflight"
    /\ target \in 1..Len(executions) /\ subject["result"] <= target
    /\ key \in {0, target}
    /\ key # 0 => executions[target].named
    /\ key = 0 => \A u \in applied : correlation[u] # target
    /\ key # 0 /\ job["result"].phase = "updateExecution" =>
         "status" \in dirty["result"] \/ executions[target].status = "completed"
    /\ key # 0 /\ job["result"].phase = "report" => executions[target].status = "completed"

\* The id that result t was dropped for is one a result was handled under.
DroppedFor(t) ==
  dropped[t] >= t /\ \E u \in applied : correlation[u] = dropped[t] /\ dropped[t] >= u

\* The results that came to their end, or were dropped.
AnswersInv ==
  /\ \A t \in Tasks : msg["result"][t].state # "none" => t \in published
  /\ \A t \in Tasks : msg["result"][t].state = "done" /\ t \notin applied => DroppedFor(t)
  /\ \A u \in applied :
       /\ msg["result"][u].state = "done"
       /\ correlation[u] # 0 => /\ u <= correlation[u] /\ correlation[u] <= Len(executions)
                                /\ executions[correlation[u]].status = "completed"
                                /\ executions[correlation[u]].named
  /\ \A h \in handled : \E u \in applied : correlation[u] = h

LedgerInv == DispatchInv /\ CurrentInv /\ AnswersInv

LEMMA LedgerAccounts ==
  ASSUME QueuesInv, LedgerInv
  PROVE  ResultsAccountedFor
<1>1. \A l \in Loops, t \in Tasks : msg[l][t].state = "dead" => crashed \/ <<l, t>> \in deadLetters
  BY DEF QueuesInv, MessageOK
<1>2. \A t \in Tasks : msg["result"][t].state = "done" /\ t \notin applied => DroppedFor(t)
  BY DEF LedgerInv, AnswersInv
<1>3. \A u \in applied : correlation[u] # 0 => executions[correlation[u]].status = "completed"
  BY DEF LedgerInv, AnswersInv
<1> QED BY <1>1, <1>2, <1>3 DEF ResultsAccountedFor, DroppedFor

\* What a writer holds when it saves an execution.
LEMMA RowIsHeld ==
  ASSUME LedgerInv, NEW w \in Requests \cup {"result"},
         DiffExecution(w) \/ ExecutionSaved(w)
  PROVE  Held(w) \in 1..Len(executions)
<1>1. CASE w = "result"
  <2>1. Busy("result")
    BY <1>1 DEF DiffExecution, ExecutionSaved, Busy, Finished
  <2> QED BY <1>1, <2>1 DEF LedgerInv, CurrentInv, Held
<1>2. CASE w # "result"
  <2>1. w \in Requests /\ Dispatching(w)
    BY <1>2 DEF DiffExecution, ExecutionSaved, Dispatching
  <2> QED BY <1>2, <2>1 DEF LedgerInv, DispatchInv, Held
<1> QED BY <1>1, <1>2

\* A writer moves and no row, answer or id changes.
LEMMA LedgerMoves ==
  ASSUME LedgerInv,
         UNCHANGED <<executions, published, target, key, handled, applied, dropped, correlation>>,
         msg'["result"] = msg["result"], subject'["result"] = subject["result"],
         \A q \in Requests : Dispatching(q)' => Dispatching(q) /\ job'[q].next = job[q].next,
         Busy("result")' => Busy("result"),
         \/ job'["result"].phase \notin {"updateExecution", "report"}
         \/ job'["result"].phase = job["result"].phase /\ dirty'["result"] = dirty["result"]
  PROVE  LedgerInv'
<1>1. DispatchInv'
  BY DEF LedgerInv, DispatchInv
<1>2. CurrentInv'
  BY DEF LedgerInv, CurrentInv
<1>3. AnswersInv'
  BY DEF LedgerInv, AnswersInv, DroppedFor
<1> QED BY <1>1, <1>2, <1>3 DEF LedgerInv

\* A handler gives its message back, or drops what it was at: nothing of it was counted.
LEMMA LedgerThrows ==
  ASSUME LedgerInv, QueuesInv, NEW l \in Loops, Busy(l), Throws(l), WorkflowInv,
         UNCHANGED <<executions, published, dirty, target, key, handled, applied, dropped,
                     correlation>>
  PROVE  LedgerInv'
<1> DEFINE t == subject[l]
           s == IF msg[l][t].deliveries >= MaxDeliver THEN "dead" ELSE "queued"
<1>1. /\ msg' = [msg EXCEPT ![l][t].state = s] /\ job' = [job EXCEPT ![l] = NoJob]
      /\ subject' = [subject EXCEPT ![l] = 0] /\ s \in {"dead", "queued"}
  BY DEF Throws
<1>2. /\ job \in [Writers -> Job] /\ l \in Writers /\ "result" \in Writers /\ "result" \in Loops
      /\ Requests \subseteq Writers /\ l \notin Requests /\ NoJob.phase = "idle"
      /\ t \in Tasks /\ QueueTypes
  BY WriterNames, WorkflowsAssumption DEF WorkflowInv, WorkflowTypeOK, NoJob, QueuesInv
<1>3. \A q \in Requests : job'[q] = job[q]
  BY <1>1, <1>2
<1> HIDE DEF s, t
<1>4. CASE l # "result"
  <2>1. msg'["result"] = msg["result"] /\ subject'["result"] = subject["result"]
    BY <1>1, <1>2, <1>4 DEF QueueTypes
  <2>2. job'["result"] = job["result"]
    BY <1>1, <1>2, <1>4
  <2> QED BY <1>3, <2>1, <2>2, LedgerMoves DEF Dispatching, Busy
<1>5. CASE l = "result"
  <2>1. ~Busy("result")'
    BY <1>1, <1>2, <1>5 DEF Busy
  <2>2. /\ msg'["result"][t].state = s /\ msg["result"][t].state = "inflight"
        /\ \A y \in Tasks : y # t => msg'["result"][y] = msg["result"][y]
    <3>1. msg["result"][t].state = "inflight"
      BY <1>5 DEF LedgerInv, CurrentInv, t
    <3>2. /\ msg'["result"][t].state = s
          /\ \A y \in Tasks : y # t => msg'["result"][y] = msg["result"][y]
      <4> DEFINE m == [msg[l][t] EXCEPT !.state = s]
      <4>1. msg \in [Loops -> [Tasks -> Message]] /\ msg[l][t] \in Message
        BY <1>2 DEF QueueTypes
      <4>2. m.state = s
        BY <4>1 DEF Message
      <4>3. msg' = [msg EXCEPT ![l][t] = m]
        BY <1>1, <1>2, <4>1
      <4> HIDE DEF m
      <4> QED BY <1>2, <1>5, <4>1, <4>2, <4>3
    <3> QED BY <3>1, <3>2
  <2>3. t \in published /\ t \notin applied
    BY <1>2, <2>2 DEF LedgerInv, AnswersInv
  <2>4. AnswersInv'
    <3>1. \A y \in Tasks : msg'["result"][y].state # "none" => y \in published'
      BY <2>2, <2>3 DEF LedgerInv, AnswersInv
    <3>2. ASSUME NEW y \in Tasks, msg'["result"][y].state = "done", y \notin applied
          PROVE  DroppedFor(y)'
      <4>1. y # t /\ msg["result"][y].state = "done"
        BY <1>1, <2>2, <3>2
      <4>2. DroppedFor(y)
        BY <3>2, <4>1 DEF LedgerInv, AnswersInv
      <4> QED BY <4>2 DEF DroppedFor
    <3>3. applied \subseteq Tasks
      BY <1>2 DEF QueueTypes
    <3> QED BY <2>2, <2>3, <3>1, <3>2, <3>3 DEF LedgerInv, AnswersInv
  <2>5. DispatchInv'
    BY <1>3 DEF LedgerInv, DispatchInv, Dispatching
  <2> QED BY <2>1, <2>4, <2>5 DEF LedgerInv, CurrentInv
<1> QED BY <1>4, <1>5

-------------------------------------------------------------------------------
(* The session. *)

SessionTypes ==
  /\ session \in SessionRow
  /\ copy \in [Writers -> SessionRow]
  /\ dirty \in [Writers -> SUBSET {"status", "mode", "archived", "named"}]
  /\ stale \subseteq Writers

\* A writer has a copy of the session that it may still save.
HasCopy(w) ==
  \/ job[w].phase \in {"publish", "published", "saveSession", "updateSession"}
  \/ w # "result" /\ job[w].phase = "updateExecution"
  \/ w = "result" /\ job[w].phase \in {"latest", "insertResult", "save", "update"}

\* Whoever read the session after it was archived, and heeds the FSM, holds an archived copy.
ArchivedOK(w) ==
  HasCopy(w) /\ w \notin stale /\ job[w].kind \notin {"override", "divergence"}
    /\ session.status = "archived" => copy[w].status = "archived"

SessionInv ==
  /\ SessionTypes
  /\ \A w \in Writers : ArchivedOK(w)

\* A writer moves and leaves the row alone.
LEMMA MoveKeepsSession ==
  ASSUME SessionInv, NEW w \in Writers, OthersStay(w), SessionTypes', session' = session,
         \A x \in Writers \ {w} : copy'[x] = copy[x] /\ (x \in stale <=> x \in stale'),
         ArchivedOK(w)'
  PROVE  SessionInv'
<1>1. ASSUME NEW x \in Writers PROVE ArchivedOK(x)'
  <2>1. CASE x = w
    BY <2>1
  <2>2. CASE x # w
    <3>1. job'[x] = job[x] /\ ArchivedOK(x)
      BY <2>2 DEF OthersStay, SessionInv
    <3> QED BY <2>2, <3>1 DEF ArchivedOK, HasCopy
  <2> QED BY <2>1, <2>2
<1> QED BY <1>1 DEF SessionInv

\* A writer moves and holds no copy afterwards, or holds the copy and the kind it had.
LEMMA PlaceKeepsSession ==
  ASSUME SessionInv, NEW w \in Writers, OthersStay(w),
         UNCHANGED <<session, copy, stale>>,
         dirty' \in [Writers -> SUBSET {"status", "mode", "archived", "named"}],
         HasCopy(w)' => HasCopy(w) /\ job'[w].kind = job[w].kind
  PROVE  SessionInv'
<1>1. SessionTypes'
  BY DEF SessionInv, SessionTypes
<1>2. ArchivedOK(w)'
  BY DEF SessionInv, ArchivedOK
<1> QED BY <1>1, <1>2, MoveKeepsSession

\* A writer reads the session.
LEMMA CopyKeepsSession ==
  ASSUME SessionInv, NEW w \in Writers, OthersStay(w), NEW row \in SessionRow, Copies(w, row),
         UNCHANGED <<session, dirty>>,
         \/ job'[w].kind \in {"override", "divergence"}
         \/ session.status = "archived" => row.status = "archived"
  PROVE  SessionInv'
<1>1. copy' = [copy EXCEPT ![w] = row] /\ stale' = stale \ {w}
  BY DEF Copies
<1>2. SessionTypes' /\ copy'[w] = row
  BY <1>1 DEF SessionInv, SessionTypes
<1>3. \A x \in Writers \ {w} : copy'[x] = copy[x] /\ (x \in stale <=> x \in stale')
  BY <1>1 DEF SessionInv, SessionTypes
<1>4. ArchivedOK(w)'
  BY <1>2 DEF ArchivedOK
<1> QED BY <1>2, <1>3, <1>4, MoveKeepsSession

\* The FSM admits an event: the copy of a writer that heeds it was not archived.
LEMMA StatusKeepsSession ==
  ASSUME SessionInv, NEW w \in Writers, OthersStay(w), NEW s \in SessionStatus,
         copy' = [copy EXCEPT ![w].status = s], UNCHANGED <<session, dirty, stale>>,
         HasCopy(w), copy[w].status # "archived", job'[w].kind = job[w].kind
  PROVE  SessionInv'
<1>1. copy \in [Writers -> SessionRow]
  BY DEF SessionInv, SessionTypes
<1>2. copy' \in [Writers -> SessionRow] /\ \A x \in Writers \ {w} : copy'[x] = copy[x]
  BY <1>1 DEF SessionRow
<1>3. SessionTypes'
  BY <1>2 DEF SessionInv, SessionTypes
<1>4. ArchivedOK(w)'
  BY DEF SessionInv, ArchivedOK
<1> QED BY <1>2, <1>3, <1>4, MoveKeepsSession

\* A writer saves the columns of its copy: it leaves an archived session archived, unless it
\* was at work before or does not heed the FSM.
LEMMA UpdateMeans ==
  ASSUME SessionInv, NEW w \in Writers, Updated(w), job[w].phase = "updateSession"
  PROVE  /\ session' \in SessionRow
         /\ session.status = "archived" /\ session'.status # "archived" =>
              w \in stale \/ job[w].kind \in {"override", "divergence"}
<1>1. /\ session \in SessionRow /\ copy[w] \in SessionRow
      /\ session' = Saved(session, copy[w], dirty[w])
  BY DEF SessionInv, SessionTypes, Updated
<1>2. /\ session' \in SessionRow
      /\ session'.status = IF "status" \in dirty[w] THEN copy[w].status ELSE session.status
  BY <1>1, SavedSession
<1>3. HasCopy(w) /\ ArchivedOK(w)
  BY DEF HasCopy, SessionInv
<1> QED BY <1>2, <1>3 DEF ArchivedOK

LEMMA UpdateKeepsSession ==
  ASSUME SessionInv, NEW w \in Writers, Updated(w), job[w].phase = "updateSession",
         OthersStay(w), ~HasCopy(w)', UNCHANGED <<copy, dirty>>
  PROVE  SessionInv'
<1>1. session' \in SessionRow
  BY UpdateMeans
<1>2. stale' = IF session'.status = "archived" /\ session.status # "archived"
               THEN {x \in Writers : x # w /\ Busy(x)} ELSE stale \ {w}
  BY DEF Updated
<1>3. SessionTypes'
  BY <1>1, <1>2 DEF SessionInv, SessionTypes
<1>4. ASSUME NEW x \in Writers PROVE ArchivedOK(x)'
  <2>1. CASE x = w
    BY <2>1 DEF ArchivedOK
  <2>2. CASE x # w
    <3>1. job'[x] = job[x] /\ ArchivedOK(x) /\ copy'[x] = copy[x]
      BY <2>2 DEF OthersStay, SessionInv
    <3>2. HasCopy(x) => Busy(x)
      BY DEF HasCopy, Busy, Finished
    <3>3. HasCopy(x)' <=> HasCopy(x)
      BY <3>1 DEF HasCopy
    <3>4. CASE session'.status = "archived" /\ session.status # "archived"
      BY <1>2, <2>2, <3>2, <3>3, <3>4 DEF ArchivedOK
    <3>5. CASE ~(session'.status = "archived" /\ session.status # "archived")
      BY <1>2, <2>2, <3>1, <3>3, <3>5 DEF ArchivedOK
    <3> QED BY <3>4, <3>5
  <2> QED BY <2>1, <2>2
<1> QED BY <1>3, <1>4 DEF SessionInv

\* save() of the session: the SELECT.
LEMMA DiffKeepsSession ==
  ASSUME SessionInv, WorkflowInv, NEW w \in Writers, DiffSession(w)
  PROVE  SessionInv'
<1>1. /\ job[w].phase = "saveSession" /\ Goes(w, "updateSession")
      /\ dirty' = [dirty EXCEPT ![w] = Changed(copy[w], session)]
      /\ UNCHANGED <<session, copy, stale>>
  BY DEF DiffSession
<1>2. session \in SessionRow /\ copy[w] \in SessionRow
  BY DEF SessionInv, SessionTypes
<1>3. Changed(copy[w], session) \in SUBSET {"status", "mode", "archived", "named"}
  BY <1>2, ChangedColumns
<1>4. dirty' \in [Writers -> SUBSET {"status", "mode", "archived", "named"}]
  BY <1>1, <1>3 DEF SessionInv, SessionTypes
<1>5. OthersStay(w) /\ job'[w].kind = job[w].kind
  BY <1>1, GoesMeans DEF WorkflowInv, Phases
<1>6. HasCopy(w)
  BY <1>1 DEF HasCopy
<1> QED BY <1>1, <1>4, <1>5, <1>6, PlaceKeepsSession

\* save() of the execution: the SELECT.
LEMMA DiffKeepsExecution ==
  ASSUME SessionInv, WorkflowInv, ExecutionsOK, NEW w \in Writers, DiffExecution(w),
         Held(w) \in 1..Len(executions)
  PROVE  SessionInv'
<1>1. /\ Goes(w, "updateExecution") /\ UNCHANGED <<session, copy, stale>>
      /\ dirty' = [dirty EXCEPT ![w] = Changed(ExecutionCopy(w), executions[Held(w)])]
      /\ w # "result" => job[w].phase = "published"
  BY DEF DiffExecution
<1>2. executions[Held(w)] \in Execution
  BY DEF ExecutionsOK
<1>3. Changed(ExecutionCopy(w), executions[Held(w)]) \in SUBSET {"status", "named"}
  BY <1>2, CopyOfExecution, ChangedColumns
<1>4. dirty' \in [Writers -> SUBSET {"status", "mode", "archived", "named"}]
  BY <1>1, <1>3 DEF SessionInv, SessionTypes
<1>5. OthersStay(w) /\ job'[w].kind = job[w].kind /\ job'[w].phase = "updateExecution"
  BY <1>1, GoesMeans DEF WorkflowInv, Phases
<1>6. HasCopy(w)' => HasCopy(w)
  BY <1>1, <1>5 DEF HasCopy
<1> QED BY <1>1, <1>4, <1>5, <1>6, PlaceKeepsSession

LEMMA RequestKeepsSession ==
  ASSUME SessionInv, WorkflowInv, ExecutionsOK, LedgerInv, NEW q \in Requests,
         (OfWorkflow(q) /\ UNCHANGED sessionVars) \/ SessionRequest(q) \/ RequestFails(q)
  PROVE  SessionInv'
<1>1. /\ q \in Writers /\ OthersStay(q) /\ q # "result" /\ WorkflowTypeOK /\ workflow \in Row
      /\ job \in [Writers -> Job] /\ 0 \in Nat /\ {"saveSession", "posted", "published", "ok",
                                                   "refused", "updateSession"} \subseteq Phases
  BY RequestTurns, WriterNames DEF WorkflowInv, WorkflowTypeOK, Phases, Finished
<1>2. /\ session \in SessionRow /\ copy \in [Writers -> SessionRow]
      /\ dirty \in [Writers -> SUBSET {"status", "mode", "archived", "named"}]
      /\ stale \subseteq Writers
  BY DEF SessionInv, SessionTypes
<1>3. ASSUME UNCHANGED <<session, copy, dirty, stale>>,
             job'[q].phase \notin {"publish", "published", "updateExecution", "saveSession",
                                   "updateSession"}
      PROVE  SessionInv'
  <2>1. ~HasCopy(q)' /\ dirty' \in [Writers -> SUBSET {"status", "mode", "archived", "named"}]
    BY <1>1, <1>2, <1>3 DEF HasCopy
  <2> QED BY <1>1, <1>3, <2>1, PlaceKeepsSession
<1>4. CASE OfWorkflow(q) /\ UNCHANGED sessionVars
  <2>1. job'[q].phase \in WorkflowPlaces
    BY <1>4, WorkflowTurns
  <2> QED BY <1>3, <1>4, <2>1 DEF sessionVars, WorkflowPlaces
<1>5. CASE RequestFails(q)
  <2>1. job'[q].phase = "refused"
    BY <1>1, <1>5, EndsMeans DEF RequestFails
  <2> QED BY <1>3, <1>5, <2>1 DEF RequestFails, sessionVars
<1>6. ASSUME NEW kind \in Kinds, Begins(q, kind, "saveSession", workflow, 0)
      PROVE  job'[q].kind = kind
  BY <1>1, <1>6, BeginsMeans
<1>7. CASE Finalize(q)
  <2> DEFINE row == [session EXCEPT !.status = To(session.status, "user_finalizes")]
  <2>1. /\ Allowed(session.status, "user_finalizes") /\ Copies(q, row)
        /\ UNCHANGED <<session, dirty>>
    BY <1>7 DEF Finalize, Rest
  <2>2. session.status # "archived" /\ To(session.status, "user_finalizes") = "draft_ready"
    BY <2>1, TransitionsLead DEF Early
  <2>3. row \in SessionRow
    BY <1>2, <2>2 DEF SessionRow, SessionStatus
  <2> HIDE DEF row
  <2> QED BY <1>1, <2>1, <2>2, <2>3, CopyKeepsSession
<1>8. CASE Delete(q)
  <2> DEFINE row == [session EXCEPT !.status = "archived", !.archived = TRUE]
  <2>1. Copies(q, row) /\ UNCHANGED <<session, dirty>>
    BY <1>8 DEF Delete, Rest
  <2>2. row \in SessionRow /\ row.status = "archived"
    BY <1>2 DEF SessionRow, SessionStatus
  <2> HIDE DEF row
  <2> QED BY <1>1, <2>1, <2>2, CopyKeepsSession
<1>9. CASE UpdateMode(q)
  <2> DEFINE row == [session EXCEPT !.mode = "interactive"]
  <2>1. Copies(q, row) /\ UNCHANGED <<session, dirty>>
    BY <1>9 DEF UpdateMode, Rest
  <2>2. row \in SessionRow /\ row.status = session.status
    BY <1>2 DEF SessionRow
  <2> HIDE DEF row
  <2> QED BY <1>1, <2>1, <2>2, CopyKeepsSession
<1>10. CASE Override(q)
  <2>1. PICK s \in Overrides :
          Copies(q, [session EXCEPT !.status = s, !.archived = @ \/ s = "archived"])
    BY <1>10 DEF Override
  <2> DEFINE row == [session EXCEPT !.status = s, !.archived = @ \/ s = "archived"]
  <2>2. UNCHANGED <<session, dirty>> /\ job'[q].kind = "override"
    BY <1>6, <1>10 DEF Override, Rest, Opens
  <2>3. s \in SessionStatus
    BY SessionsAssumption
  <2>4. row \in SessionRow
    <3>1. (session.archived \/ s = "archived") \in BOOLEAN
      OBVIOUS
    <3> QED BY <1>2, <2>3 DEF SessionRow
  <2>5. Copies(q, row)
    BY <2>1
  <2> HIDE DEF row
  <2> QED BY <1>1, <2>2, <2>4, <2>5, CopyKeepsSession
<1>11. CASE PostMessage(q)
  <2>1. Begins(q, "dispatch", "posted", workflow, 0) /\ "dispatch" \in Kinds \cup Loops
    BY <1>11 DEF PostMessage, Opens
  <2>2. job'[q].phase = "posted"
    BY <1>1, <2>1, BeginsMeans
  <2> QED BY <1>3, <1>11, <2>2 DEF PostMessage
<1>12. CASE SaveExecution(q)
  BY <1>1, <1>2, <1>12, CopyKeepsSession DEF SaveExecution
<1>13. CASE PublishTask(q)
  <2>1. /\ job[q].phase = "publish" /\ Goes(q, "published")
        /\ UNCHANGED <<session, copy, dirty, stale>>
    BY <1>13 DEF PublishTask
  <2>2. job'[q].kind = job[q].kind /\ HasCopy(q)
    BY <1>1, <2>1, GoesMeans DEF HasCopy
  <2> QED BY <1>1, <1>2, <2>1, <2>2, PlaceKeepsSession
<1>14. CASE NameExecution(q)
  <2>1. job[q].phase = "updateExecution" /\ UNCHANGED <<session, dirty, stale>>
    BY <1>14 DEF NameExecution, ExecutionSaved
  <2>2. CASE copy[q].status \in {"created", "awaiting_input", "in_elicitation"}
    <3> DEFINE s == To(IF copy[q].status = "created" THEN To(copy[q].status, "first_user_message")
                       ELSE copy[q].status, "ai_task_published")
    <3>1. copy' = [copy EXCEPT ![q].status = s] /\ Goes(q, "saveSession")
      BY <1>2, <1>14, <2>2 DEF NameExecution
    <3>2. s = "processing"
      <4>1. CASE copy[q].status = "created"
        BY <4>1, TransitionsLead
      <4>2. CASE copy[q].status # "created"
        BY <2>2, <4>2, TransitionsLead
      <4> QED BY <4>1, <4>2
    <3> HIDE DEF s
    <3>3. s \in SessionStatus /\ copy[q].status # "archived" /\ HasCopy(q)
      BY <1>1, <2>1, <2>2, <3>2 DEF SessionStatus, HasCopy
    <3>4. job'[q].kind = job[q].kind
      BY <1>1, <3>1, GoesMeans
    <3> QED BY <1>1, <2>1, <3>1, <3>3, <3>4, StatusKeepsSession
  <2>3. CASE copy[q].status \notin {"created", "awaiting_input", "in_elicitation"}
    <3>1. Ends(q, "ok") /\ copy' = copy
      BY <1>14, <2>3 DEF NameExecution
    <3>2. job'[q].phase = "ok"
      BY <1>1, <3>1, EndsMeans
    <3> QED BY <1>3, <2>1, <3>1, <3>2
  <2> QED BY <2>2, <2>3
<1>15. CASE DiffSession(q)
  BY <1>1, <1>15, DiffKeepsSession
<1>16. CASE SaveSession(q)
  <2>1. /\ job[q].phase = "updateSession" /\ Updated(q) /\ Ends(q, "ok")
        /\ UNCHANGED <<copy, dirty>>
    BY <1>16 DEF SaveSession
  <2>2. ~HasCopy(q)'
    BY <1>1, <2>1, EndsMeans DEF HasCopy
  <2> QED BY <1>1, <2>1, <2>2, UpdateKeepsSession
<1>17. CASE DiffExecution(q)
  BY <1>1, <1>17, RowIsHeld, DiffKeepsExecution
<1> QED BY <1>4, <1>5, <1>7, <1>8, <1>9, <1>10, <1>11, <1>12, <1>13, <1>14, <1>15, <1>16, <1>17
        DEF SessionRequest

LEMMA LoopsKeepSession ==
  ASSUME SessionInv, WorkflowInv, ExecutionsOK, LedgerInv,
         \/ \E t \in Tasks : ReceiveResult(t) \/ ReceiveDivergence(t)
         \/ HandleResult \/ DiffSession("divergence") \/ SaveDivergence \/ AckDivergence
  PROVE  SessionInv'
<1>1. /\ "result" \in Writers /\ "divergence" \in Writers /\ "result" # "divergence"
      /\ "result" \in Loops /\ "divergence" \in Loops /\ WorkflowTypeOK
      /\ job \in [Writers -> Job]
      /\ {"saveSession", "updateSession", "complete", "report", "reported"} \subseteq Phases
  BY WriterNames DEF WorkflowInv, WorkflowTypeOK, Phases
<1>2. /\ session \in SessionRow /\ copy \in [Writers -> SessionRow]
      /\ dirty \in [Writers -> SUBSET {"status", "mode", "archived", "named"}]
      /\ stale \subseteq Writers
  BY DEF SessionInv, SessionTypes
<1>3. ASSUME NEW l \in Loops, OthersStay(l), UNCHANGED <<session, copy, dirty, stale>>,
             HasCopy(l)' => HasCopy(l) /\ job'[l].kind = job[l].kind
      PROVE  SessionInv'
  BY <1>2, <1>3, WriterNames, PlaceKeepsSession
<1>4. ASSUME NEW l \in Loops, job' = [job EXCEPT ![l] = NoJob] PROVE ~HasCopy(l)'
  <2>1. job'[l].phase = "idle"
    BY <1>1, <1>4, WriterNames DEF NoJob
  <2> QED BY <2>1 DEF HasCopy
<1>5. ASSUME NEW t \in Tasks, ReceiveResult(t) PROVE SessionInv'
  <2>1. OthersStay("result")
    BY <1>1, <1>5, ReceiveTurns
  <2> QED BY <1>1, <1>2, <1>5, <2>1, CopyKeepsSession DEF ReceiveResult
<1>6. ASSUME NEW t \in Tasks, ReceiveDivergence(t) PROVE SessionInv'
  <2>1. OthersStay("divergence") /\ job'["divergence"].kind = "divergence"
    BY <1>1, <1>6, ReceiveTurns
  <2>2. PICK low \in BOOLEAN :
          Copies("divergence", [session EXCEPT !.status = IF low THEN "needs_reconciliation" ELSE @])
    BY <1>6 DEF ReceiveDivergence
  <2> DEFINE row == [session EXCEPT !.status = IF low THEN "needs_reconciliation" ELSE @]
  <2>3. row \in SessionRow /\ Copies("divergence", row)
    BY <1>2, <2>2 DEF SessionRow, SessionStatus
  <2>4. UNCHANGED <<session, dirty>>
    BY <1>6 DEF ReceiveDivergence
  <2> HIDE DEF row
  <2> QED BY <1>1, <2>1, <2>3, <2>4, CopyKeepsSession
<1>7. CASE HandleResult
  <2>1. OthersStay("result")
    BY <1>7, ResultTurns
  <2>2. CASE ReadNewest
    <3>1. HasCopy("result") /\ UNCHANGED <<session, copy, dirty, stale>>
      BY <2>2 DEF ReadNewest, HasCopy, sessionVars
    <3>2. job'["result"].kind = job["result"].kind
      BY <1>1, <2>2 DEF ReadNewest, Job
    <3> QED BY <1>1, <1>3, <2>1, <3>1, <3>2
  <2>3. CASE InsertResult
    <3>1. HasCopy("result") /\ UNCHANGED <<session, copy, dirty, stale>>
      BY <2>3 DEF InsertResult, HasCopy, sessionVars
    <3>2. job'["result"].kind = job["result"].kind
      BY <1>1, <2>3 DEF InsertResult, Job
    <3> QED BY <1>1, <1>3, <2>1, <3>1, <3>2
  <2>4. CASE Diff("result") /\ UNCHANGED sessionVars
    <3>1. HasCopy("result") /\ UNCHANGED <<session, copy, dirty, stale>>
      BY <2>4 DEF Diff, HasCopy, sessionVars
    <3>2. job'["result"].kind = job["result"].kind
      BY <1>1, <2>4 DEF Diff, Job
    <3> QED BY <1>1, <1>3, <2>1, <3>1, <3>2
  <2>5. CASE InsertResultRefused \/ SaveResultThenThrow \/ Report
    <3>1. job' = [job EXCEPT !["result"] = NoJob] /\ UNCHANGED <<session, copy, dirty, stale>>
      BY <2>5 DEF InsertResultRefused, SaveResultThenThrow, Report, Throws, Acks
    <3> QED BY <1>1, <1>3, <1>4, <2>1, <3>1
  <2>6. CASE SaveResult
    <3> DEFINE s == To(copy["result"].status, "ai_result_received")
    <3>1. /\ job["result"].phase = "update" /\ Goes("result", "saveSession")
          /\ Allowed(copy["result"].status, "ai_result_received")
          /\ copy' = [copy EXCEPT !["result"].status = s] /\ UNCHANGED <<session, dirty, stale>>
      BY <1>2, <2>6 DEF SaveResult
    <3>2. copy["result"].status \in {"processing", "draft_ready"} /\ s = "draft_ready"
      BY <3>1, TransitionsLead
    <3> HIDE DEF s
    <3>3. s \in SessionStatus /\ copy["result"].status # "archived" /\ HasCopy("result")
      BY <3>1, <3>2 DEF SessionStatus, HasCopy
    <3>4. job'["result"].kind = job["result"].kind
      BY <1>1, <3>1, GoesMeans
    <3> QED BY <1>1, <2>1, <3>1, <3>3, <3>4, StatusKeepsSession
  <2>7. CASE DiffSession("result")
    BY <1>1, <2>7, DiffKeepsSession
  <2>8. CASE SaveSessionOfResult
    <3>1. /\ job["result"].phase = "updateSession" /\ Updated("result")
          /\ Goes("result", "complete") /\ UNCHANGED <<copy, dirty>>
      BY <2>8 DEF SaveSessionOfResult
    <3>2. ~HasCopy("result")'
      BY <1>1, <3>1, GoesMeans DEF HasCopy
    <3> QED BY <1>1, <2>1, <3>1, <3>2, UpdateKeepsSession
  <2>9. CASE CompleteExecution
    <3>1. Goes("result", "report") /\ UNCHANGED <<session, copy, dirty, stale>>
      BY <2>9 DEF CompleteExecution
    <3>2. ~HasCopy("result")'
      BY <1>1, <3>1, GoesMeans DEF HasCopy
    <3> QED BY <1>1, <1>3, <2>1, <3>1, <3>2
  <2>10. CASE DiffExecution("result")
    BY <1>1, <2>10, RowIsHeld, DiffKeepsExecution
  <2> QED BY <1>7, <2>2, <2>3, <2>4, <2>5, <2>6, <2>7, <2>8, <2>9, <2>10 DEF HandleResult
<1>8. CASE DiffSession("divergence")
  BY <1>1, <1>8, DiffKeepsSession
<1>9. CASE SaveDivergence
  <2>1. /\ job["divergence"].phase = "updateSession" /\ Updated("divergence")
        /\ Goes("divergence", "reported") /\ UNCHANGED <<copy, dirty>>
    BY <1>9 DEF SaveDivergence
  <2>2. ~HasCopy("divergence")' /\ OthersStay("divergence")
    BY <1>1, <2>1, GoesMeans DEF HasCopy
  <2> QED BY <1>1, <2>1, <2>2, UpdateKeepsSession
<1>10. CASE AckDivergence
  <2>1. job' = [job EXCEPT !["divergence"] = NoJob] /\ UNCHANGED <<session, copy, dirty, stale>>
    BY <1>10 DEF AckDivergence, Acks
  <2>2. OthersStay("divergence")
    BY <1>10, DivergenceTurns
  <2> QED BY <1>1, <1>3, <1>4, <2>1, <2>2
<1> QED BY <1>5, <1>6, <1>7, <1>8, <1>9, <1>10

LEMMA SessionStep ==
  SessionInv /\ WorkflowInv /\ ExecutionsOK /\ LedgerInv /\ [Next]_vars => SessionInv'
<1> SUFFICES ASSUME SessionInv, WorkflowInv, ExecutionsOK, LedgerInv, [Next]_vars PROVE SessionInv'
  OBVIOUS
<1>1. ASSUME NEW q \in Requests,
             (OfWorkflow(q) /\ UNCHANGED sessionVars) \/ SessionRequest(q) \/ RequestFails(q)
      PROVE  SessionInv'
  BY <1>1, RequestKeepsSession
<1>2. CASE \/ UNCHANGED vars \/ \E l \in Loops, t \in Tasks : WorkerAnswers(l, t)
           \/ \E t \in Tasks : SkipResult(t) \/ SkipDivergence(t)
  <2>1. UNCHANGED <<job, session, copy, dirty, stale>>
    BY <1>2 DEF vars, workflowVars, sessionVars, WorkerAnswers, SkipResult, SkipDivergence
  <2> QED BY <2>1 DEF SessionInv, SessionTypes, ArchivedOK, HasCopy
<1>3. CASE \/ \E t \in Tasks : ReceiveResult(t) \/ ReceiveDivergence(t)
           \/ HandleResult \/ DiffSession("divergence") \/ SaveDivergence \/ AckDivergence
  BY <1>3, LoopsKeepSession
<1>4. ASSUME UNCHANGED <<session, copy, dirty, stale>>,
             \A w \in Writers : job'[w] = job[w] \/ job'[w].phase \in {"idle", "refused"}
      PROVE  SessionInv'
  <2>1. ASSUME NEW w \in Writers PROVE ArchivedOK(w)'
    <3>1. ArchivedOK(w)
      BY DEF SessionInv
    <3> QED BY <1>4, <3>1 DEF ArchivedOK, HasCopy
  <2> QED BY <1>4, <2>1 DEF SessionInv, SessionTypes
<1>5. job \in [Writers -> Job] /\ Loops \subseteq Writers
  BY WriterNames DEF WorkflowInv, WorkflowTypeOK
<1>6. ASSUME NEW l \in Loops, HandlerFails(l) PROVE SessionInv'
  <2>1. job' = [job EXCEPT ![l] = NoJob] /\ UNCHANGED <<session, copy, dirty, stale>>
    BY <1>6 DEF HandlerFails, Throws
  <2>2. \A w \in Writers : job'[w] = job[w] \/ job'[w].phase \in {"idle", "refused"}
    BY <1>5, <2>1 DEF NoJob
  <2> QED BY <1>4, <2>1, <2>2
<1>7. CASE Crash
  <2>1. UNCHANGED <<session, copy, dirty, stale>>
    BY <1>7 DEF Crash
  <2>2. ASSUME NEW w \in Writers
        PROVE  job'[w] = job[w] \/ job'[w].phase \in {"idle", "refused"}
    <3>1. job'[w] = IF w \in Loops THEN NoJob
                    ELSE IF Busy(w) THEN [NoJob EXCEPT !.phase = "refused"] ELSE job[w]
      BY <1>7 DEF Crash
    <3>2. NoJob.phase = "idle" /\ [NoJob EXCEPT !.phase = "refused"].phase = "refused"
      BY DEF NoJob
    <3> QED BY <3>1, <3>2
  <2> QED BY <1>4, <2>1, <2>2
<1> QED BY <1>1, <1>2, <1>3, <1>6, <1>7 DEF Next

-------------------------------------------------------------------------------
(* The steps that the results depend on. *)

\* publishAiTask(): a new execution, its task, and the id saved in the row.
LEMMA LedgerDispatch ==
  ASSUME LedgerInv, QueuesInv, WorkflowInv, ExecutionsOK, NEW q \in Requests, OthersStay(q),
         SaveExecution(q) \/ PublishTask(q) \/ DiffExecution(q) \/ NameExecution(q)
  PROVE  LedgerInv'
<1>1. /\ q \in Writers /\ q # "result" /\ "result" \in Writers /\ Requests \subseteq Writers
      /\ job \in [Writers -> Job] /\ WorkflowTypeOK /\ Len(executions) \in Nat
      /\ {"published", "updateExecution", "saveSession", "ok"} \subseteq Phases
  BY WriterNames DEF WorkflowInv, WorkflowTypeOK, ExecutionsOK, Phases, Finished
<1>2. /\ \A r \in Requests \ {q} : job'[r] = job[r]
      /\ job'["result"] = job["result"] /\ (Busy("result")' => Busy("result"))
  BY <1>1 DEF OthersStay, Busy
<1>3. UNCHANGED <<msg, subject, target, key, handled, applied, dropped, correlation>>
  BY DEF SaveExecution, PublishTask, DiffExecution, NameExecution, queues
<1>4. CASE SaveExecution(q)
  <2> DEFINE n == Len(executions) + 1
             new == [status |-> "pending", named |-> FALSE]
  <2>1. /\ executions' = Append(executions, new)
        /\ job' = [job EXCEPT ![q].phase = "publish", ![q].next = n]
        /\ UNCHANGED <<published, dirty>>
    BY <1>4 DEF SaveExecution
  <2>2. n \in Nat /\ "publish" \in Phases
    BY <1>1 DEF Phases
  <2>3. job'[q].next = n
    <3> HIDE DEF n
    <3> QED BY <1>1, <2>1, <2>2, NumberIsHeld
  <2>4. /\ Len(executions') = n /\ executions'[n] = new
        /\ \A i \in 1..Len(executions) : executions'[i] = executions[i]
    BY <1>1, <2>1 DEF ExecutionsOK
  <2>5. ~new.named
    OBVIOUS
  <2>6. \A i \in 1..Len(executions) : i \in 1..Len(executions') /\ i # n
    BY <1>1, <2>4
  <2>7. n \in 1..Len(executions')
    BY <1>1, <2>4
  <2> HIDE DEF n, new
  <2>8. ASSUME NEW r \in Requests, Dispatching(r)'
        PROVE  /\ job'[r].next \in 1..Len(executions') /\ ~executions'[job'[r].next].named
               /\ r # q => Dispatching(r) /\ job'[r].next # n /\ job'[r].next = job[r].next
    <3>1. CASE r = q
      BY <2>3, <2>4, <2>5, <2>7, <3>1
    <3>2. CASE r # q
      <4>1. Dispatching(r) /\ job'[r].next = job[r].next
        BY <1>2, <2>8, <3>2 DEF Dispatching
      <4>2. job[r].next \in 1..Len(executions) /\ ~executions[job[r].next].named
        BY <4>1 DEF LedgerInv, DispatchInv
      <4> QED BY <2>4, <2>6, <4>1, <4>2
    <3> QED BY <3>1, <3>2
  <2>9. published' \subseteq 1..Len(executions')
    BY <2>1, <2>6 DEF LedgerInv, DispatchInv
  <2>10. ASSUME NEW r \in Requests, NEW x \in Requests, Dispatching(r)', Dispatching(x)',
                job'[r].next = job'[x].next
         PROVE  r = x
    BY <2>3, <2>8, <2>10 DEF LedgerInv, DispatchInv
  <2>11. DispatchInv'
    BY <2>8, <2>9, <2>10 DEF DispatchInv
  <2>12. CurrentInv'
    BY <1>2, <1>3, <2>1, <2>4, <2>6 DEF LedgerInv, CurrentInv
  <2>13. AnswersInv'
    <3>1. \A u \in applied : correlation[u] # 0 => correlation[u] \in 1..Len(executions)
      <4>1. \A u \in applied : correlation[u] \in 0..MaxExecutions
        BY DEF QueuesInv, QueueTypes
      <4> QED BY <1>1, <4>1, SessionsAssumption DEF LedgerInv, AnswersInv
    <3>2. \A u \in applied : correlation[u] # 0 => correlation[u] <= Len(executions')
      BY <1>1, <2>6, <3>1
    <3> QED BY <1>3, <2>1, <2>4, <3>1, <3>2 DEF LedgerInv, AnswersInv, DroppedFor
  <2> QED BY <2>11, <2>12, <2>13 DEF LedgerInv
<1>5. CASE PublishTask(q)
  <2>1. /\ Goes(q, "published") /\ published' = published \cup {job[q].next}
        /\ job[q].phase = "publish" /\ UNCHANGED <<executions, dirty>>
    BY <1>5 DEF PublishTask
  <2>2. job'[q].next = job[q].next /\ Dispatching(q)
    BY <1>1, <2>1, GoesMeans DEF Dispatching
  <2>3. \A r \in Requests : Dispatching(r)' => Dispatching(r) /\ job'[r].next = job[r].next
    BY <1>2, <2>2 DEF Dispatching
  <2>6. job[q].next \in 1..Len(executions)
    BY <2>2 DEF LedgerInv, DispatchInv
  <2>7. DispatchInv'
    BY <2>1, <2>3, <2>6 DEF LedgerInv, DispatchInv
  <2>4. CurrentInv'
    BY <1>2, <1>3, <2>1 DEF LedgerInv, CurrentInv
  <2>5. AnswersInv'
    BY <1>3, <2>1 DEF LedgerInv, AnswersInv, DroppedFor
  <2> QED BY <2>4, <2>5, <2>7 DEF LedgerInv
<1>6. CASE DiffExecution(q)
  <2>1. /\ Goes(q, "updateExecution") /\ job[q].phase = "published"
        /\ UNCHANGED <<executions, published>>
        /\ dirty' = [dirty EXCEPT ![q] = Changed(ExecutionCopy(q), executions[Held(q)])]
    BY <1>1, <1>6 DEF DiffExecution
  <2>2. job'[q].next = job[q].next /\ Dispatching(q) /\ dirty'["result"] = dirty["result"]
    BY <1>1, <2>1, GoesMeans DEF Dispatching
  <2>3. \A r \in Requests : Dispatching(r)' => Dispatching(r) /\ job'[r].next = job[r].next
    BY <1>2, <2>2 DEF Dispatching
  <2> QED BY <1>2, <1>3, <2>1, <2>2, <2>3, LedgerMoves
<1>7. CASE NameExecution(q)
  <2> DEFINE n == job[q].next
  <2>1. /\ ExecutionSaved(q) /\ UNCHANGED <<published, dirty>> /\ Held(q) = n
        /\ Goes(q, "saveSession") \/ Ends(q, "ok")
    BY <1>1, <1>7 DEF NameExecution, Held
  <2>2. Dispatching(q)
    BY <2>1 DEF ExecutionSaved, Dispatching
  <2>3. ~Dispatching(q)'
    BY <1>1, <2>1, GoesMeans, EndsMeans DEF Dispatching
  <2>4. /\ Len(executions') = Len(executions)
        /\ \A j \in 1..Len(executions) : j # n => executions'[j] = executions[j]
    BY <2>1, ExecutionMarked
  <2>5. n \in 1..Len(executions) /\ ~executions[n].named
    BY <2>2 DEF LedgerInv, DispatchInv
  <2>6. \A r \in Requests :
          Dispatching(r)' => Dispatching(r) /\ job[r].next # n /\ job'[r].next = job[r].next
    <3>1. ASSUME NEW r \in Requests, Dispatching(r)'
          PROVE  Dispatching(r) /\ job[r].next # n /\ job'[r].next = job[r].next
      <4>1. r # q
        BY <2>3, <3>1
      <4>2. job'[r] = job[r]
        BY <1>2, <4>1
      <4>3. Dispatching(r)
        BY <3>1, <4>2 DEF Dispatching
      <4> QED BY <2>2, <4>1, <4>2, <4>3 DEF LedgerInv, DispatchInv
    <3> QED BY <3>1
  <2> HIDE DEF n
  <2>7. DispatchInv'
    <3>1. ASSUME NEW r \in Requests, Dispatching(r)'
          PROVE  job'[r].next \in 1..Len(executions') /\ ~executions'[job'[r].next].named
      <4>1. /\ job[r].next \in 1..Len(executions) /\ ~executions[job[r].next].named
            /\ job[r].next # n /\ job'[r].next = job[r].next
        BY <2>6, <3>1 DEF LedgerInv, DispatchInv
      <4> QED BY <2>4, <4>1
    <3>2. published' \subseteq 1..Len(executions')
      BY <2>1, <2>4 DEF LedgerInv, DispatchInv
    <3>3. \A r, x \in Requests :
            Dispatching(r)' /\ Dispatching(x)' /\ job'[r].next = job'[x].next => r = x
      BY <2>6 DEF LedgerInv, DispatchInv
    <3> QED BY <3>1, <3>2, <3>3 DEF DispatchInv
  <2>8. CurrentInv'
    <3>1. Busy("result") /\ key # 0 => target # n
      BY <2>5 DEF LedgerInv, CurrentInv
    <3> QED BY <1>2, <1>3, <2>1, <2>4, <3>1 DEF LedgerInv, CurrentInv
  <2>9. AnswersInv'
    <3>1. ASSUME NEW u \in applied, correlation[u] # 0
          PROVE  correlation[u] \in 1..Len(executions) /\ correlation[u] # n
      <4>1. correlation[u] \in 0..MaxExecutions
        BY <3>1 DEF QueuesInv, QueueTypes
      <4> QED BY <1>1, <2>5, <3>1, <4>1, SessionsAssumption DEF LedgerInv, AnswersInv
    <3> QED BY <1>3, <2>1, <2>4, <3>1 DEF LedgerInv, AnswersInv, DroppedFor
  <2> QED BY <2>7, <2>8, <2>9 DEF LedgerInv
<1> QED BY <1>4, <1>5, <1>6, <1>7

\* The handler of a result: the row of its execution, and the report.
LEMMA LedgerResult ==
  ASSUME LedgerInv, QueuesInv, WorkflowInv, ExecutionsOK, SessionInv, HandleResult
  PROVE  LedgerInv'
<1>1. /\ "result" \in Writers /\ "result" \in Loops /\ Requests \subseteq Writers
      /\ "result" \notin Requests
      /\ job \in [Writers -> Job] /\ WorkflowTypeOK /\ QueueTypes
      /\ {"saveSession", "updateSession", "complete", "updateExecution", "report"} \subseteq Phases
  BY WriterNames DEF WorkflowInv, WorkflowTypeOK, QueuesInv, Phases
<1>2. Busy("result") /\ \A q \in Requests : job'[q] = job[q]
  BY <1>1, ResultTurns DEF OthersStay
<1>3. \A q \in Requests : Dispatching(q)' => Dispatching(q) /\ job'[q].next = job[q].next
  BY <1>2 DEF Dispatching
<1>4. CASE InsertResultRefused \/ SaveResultThenThrow
  BY <1>1, <1>2, <1>4, LedgerThrows DEF InsertResultRefused, SaveResultThenThrow
<1>5. CASE \/ ReadNewest \/ InsertResult \/ (Diff("result") /\ UNCHANGED sessionVars)
           \/ SaveResult \/ DiffSession("result") \/ SaveSessionOfResult
  <2>1. /\ UNCHANGED <<executions, published, msg, subject, target, key, handled, applied, dropped,
                       correlation>>
    BY <1>5 DEF ReadNewest, InsertResult, SaveResult, DiffSession, SaveSessionOfResult, sessionVars,
                queues
  <2>2. job'["result"].phase \notin {"updateExecution", "report"}
    <3>1. CASE ReadNewest \/ InsertResult \/ Diff("result")
      <4>1. job'["result"].phase \in {"insertResult", "save", "update"}
        BY <1>1, <3>1 DEF ReadNewest, InsertResult, Diff, Job
      <4> QED BY <4>1
    <3>2. CASE SaveResult \/ DiffSession("result") \/ SaveSessionOfResult
      <4>1. PICK phase \in {"saveSession", "updateSession", "complete"} : Goes("result", phase)
        BY <3>2 DEF SaveResult, DiffSession, SaveSessionOfResult
      <4> QED BY <1>1, <4>1, GoesMeans
    <3> QED BY <1>5, <3>1, <3>2
  <2> QED BY <1>2, <1>3, <2>1, <2>2, LedgerMoves
<1>6. CASE DiffExecution("result")
  <2>1. /\ Goes("result", "updateExecution") /\ UNCHANGED <<executions, published, queues>>
        /\ dirty' = [dirty EXCEPT !["result"] =
                       Changed(ExecutionCopy("result"), executions[target])]
    BY <1>6 DEF DiffExecution, Held
  <2>2. job'["result"].phase = "updateExecution"
    BY <1>1, <2>1, GoesMeans
  <2>3. target \in 1..Len(executions)
    BY <1>2 DEF LedgerInv, CurrentInv
  <2>4. "status" \in dirty'["result"] \/ executions[target].status = "completed"
    <3>1. executions[target] \in Execution
      BY <2>3 DEF ExecutionsOK
    <3>2. dirty'["result"] = Changed(ExecutionCopy("result"), executions[target])
      BY <1>1, <2>1 DEF SessionInv, SessionTypes
    <3> QED BY <3>1, <3>2, CopyOfExecution, ChangedColumns
  <2>5. CurrentInv'
    BY <1>2, <2>1, <2>2, <2>4 DEF LedgerInv, CurrentInv, queues
  <2>6. DispatchInv'
    BY <1>3, <2>1 DEF LedgerInv, DispatchInv
  <2>7. AnswersInv'
    BY <2>1 DEF LedgerInv, AnswersInv, DroppedFor, queues
  <2> QED BY <2>5, <2>6, <2>7 DEF LedgerInv
<1>7. CASE CompleteExecution
  <2>1. /\ ExecutionSaved("result") /\ Goes("result", "report") /\ UNCHANGED <<published, queues>>
        /\ Held("result") = target /\ job["result"].phase = "updateExecution"
    BY <1>7 DEF CompleteExecution, ExecutionSaved, Held
  <2>2. target \in 1..Len(executions) /\ key \in {0, target}
    BY <1>2 DEF LedgerInv, CurrentInv
  <2>3. /\ Len(executions') = Len(executions) /\ Len(executions) \in Nat
        /\ \A j \in 1..Len(executions) : j # target => executions'[j] = executions[j]
        /\ executions'[target] = Saved(executions[target], ExecutionCopy("result"), dirty["result"])
    BY <2>1, <2>2, ExecutionMarked DEF ExecutionsOK
  <2>4. executions[target] \in Execution
    BY <2>2 DEF ExecutionsOK
  <2>5. /\ executions'[target].status = IF "status" \in dirty["result"] THEN "completed"
                                        ELSE executions[target].status
        /\ executions'[target].named = IF "named" \in dirty["result"] THEN key # 0
                                       ELSE executions[target].named
    <3>1. /\ executions'[target].status = IF "status" \in dirty["result"]
               THEN ExecutionCopy("result").status ELSE executions[target].status
          /\ executions'[target].named = IF "named" \in dirty["result"]
               THEN ExecutionCopy("result").named ELSE executions[target].named
      BY <2>3, <2>4, SavedExecution, CopyOfExecution
    <3>2. ExecutionCopy("result").status = "completed" /\ ExecutionCopy("result").named = (key # 0)
      BY DEF ExecutionCopy
    <3> QED BY <3>1, <3>2
  <2>6. key # 0 => executions'[target].status = "completed" /\ executions'[target].named
    BY <1>2, <2>1, <2>5 DEF LedgerInv, CurrentInv
  <2>7. ~executions[target].named => ~executions'[target].named
    BY <1>2, <2>5 DEF LedgerInv, CurrentInv
  <2>8. DispatchInv'
    <3>1. ASSUME NEW q \in Requests, Dispatching(q)'
          PROVE  job'[q].next \in 1..Len(executions') /\ ~executions'[job'[q].next].named
      <4>1. /\ job[q].next \in 1..Len(executions) /\ ~executions[job[q].next].named
            /\ job'[q].next = job[q].next
        BY <1>3, <3>1 DEF LedgerInv, DispatchInv
      <4> QED BY <2>3, <2>7, <4>1
    <3>2. published' \subseteq 1..Len(executions')
      BY <2>1, <2>3 DEF LedgerInv, DispatchInv
    <3>3. \A r, x \in Requests :
            Dispatching(r)' /\ Dispatching(x)' /\ job'[r].next = job'[x].next => r = x
      BY <1>3 DEF LedgerInv, DispatchInv
    <3> QED BY <3>1, <3>2, <3>3 DEF DispatchInv
  <2>9. job'["result"].phase = "report"
    BY <1>1, <2>1, GoesMeans
  <2>10. CurrentInv'
    BY <1>2, <2>1, <2>3, <2>6, <2>9 DEF LedgerInv, CurrentInv, queues
  <2>11. AnswersInv'
    <3>1. ASSUME NEW u \in applied, correlation[u] # 0
          PROVE  /\ correlation[u] <= Len(executions')
                 /\ executions'[correlation[u]].status = "completed"
                 /\ executions'[correlation[u]].named
      <4>1. correlation[u] \in 0..MaxExecutions
        BY <1>1, <3>1 DEF QueueTypes
      <4>2. /\ correlation[u] \in 1..Len(executions) /\ executions[correlation[u]].named
            /\ executions[correlation[u]].status = "completed"
        BY <2>3, <3>1, <4>1, SessionsAssumption DEF LedgerInv, AnswersInv
      <4>3. CASE correlation[u] = target
        <5>1. key # 0
          BY <1>2, <3>1, <4>3 DEF LedgerInv, CurrentInv
        <5> QED BY <2>3, <2>6, <4>2, <4>3, <5>1
      <4>4. CASE correlation[u] # target
        BY <2>3, <4>2, <4>4
      <4> QED BY <4>3, <4>4
    <3> QED BY <2>1, <3>1 DEF LedgerInv, AnswersInv, DroppedFor, queues
  <2> QED BY <2>8, <2>10, <2>11 DEF LedgerInv
<1>8. CASE Report
  <2> DEFINE t == subject["result"]
  <2>1. /\ job["result"].phase = "report" /\ applied' = applied \cup {t}
        /\ correlation' = [correlation EXCEPT ![t] = key] /\ handled' = handled \cup ({key} \ {0})
        /\ msg' = [msg EXCEPT !["result"][t].state = "done"]
        /\ job' = [job EXCEPT !["result"] = NoJob]
        /\ UNCHANGED <<executions, published, dropped>>
    BY <1>8 DEF Report, Acks
  <2>2. /\ t \in Tasks /\ msg["result"][t].state = "inflight" /\ t <= target
        /\ target \in 1..Len(executions) /\ key \in {0, target}
        /\ key # 0 => executions[target].status = "completed" /\ executions[target].named
    BY <1>1, <1>2, <2>1 DEF LedgerInv, CurrentInv, QueuesInv
  <2> HIDE DEF t
  <2>3. /\ msg'["result"][t].state = "done"
        /\ \A y \in Tasks : y # t => msg'["result"][y] = msg["result"][y]
    <3>1. /\ msg'["result"][t].state = "done"
          /\ \A x \in Loops, y \in Tasks : <<x, y>> # <<"result", t>> => msg'[x][y] = msg[x][y]
      BY <1>1, <2>1, <2>2, StateChanges
    <3> QED BY <1>1, <3>1
  <2>4. t \in published /\ t \notin applied /\ applied \subseteq Tasks
    BY <1>1, <2>2 DEF LedgerInv, AnswersInv, QueueTypes
  <2>5. /\ correlation'[t] = key /\ \A u \in applied : correlation'[u] = correlation[u]
    BY <1>1, <2>1, <2>2, <2>4 DEF QueueTypes
  <2>6. ASSUME NEW y \in Tasks, msg'["result"][y].state = "done", y \notin applied'
        PROVE  DroppedFor(y)'
    <3>1. y # t /\ y \notin applied /\ msg["result"][y].state = "done"
      BY <2>1, <2>3, <2>6
    <3>2. DroppedFor(y)
      BY <3>1 DEF LedgerInv, AnswersInv
    <3> QED BY <2>1, <2>5, <3>2 DEF DroppedFor
  <2>7. ASSUME NEW u \in applied'
        PROVE  /\ msg'["result"][u].state = "done"
               /\ correlation'[u] # 0 => /\ u <= correlation'[u]
                                         /\ correlation'[u] <= Len(executions)
                                         /\ executions[correlation'[u]].status = "completed"
                                         /\ executions[correlation'[u]].named
    <3>1. CASE u = t
      <4>1. Len(executions) \in Nat
        BY DEF ExecutionsOK
      <4> QED BY <2>2, <2>3, <2>5, <3>1, <4>1
    <3>2. CASE u # t
      <4>1. u \in applied /\ u \in Tasks
        BY <2>1, <2>4, <3>2
      <4> QED BY <2>3, <2>5, <3>2, <4>1 DEF LedgerInv, AnswersInv
    <3> QED BY <3>1, <3>2
  <2>8. ASSUME NEW h \in handled' PROVE \E u \in applied' : correlation'[u] = h
    <3>1. CASE h = key
      BY <2>1, <2>5, <3>1
    <3>2. CASE h # key
      <4>1. h \in handled
        BY <2>1, <2>8, <3>2
      <4>2. PICK u \in applied : correlation[u] = h
        BY <4>1 DEF LedgerInv, AnswersInv
      <4> QED BY <2>1, <2>5, <4>2
    <3> QED BY <3>1, <3>2
  <2>9. \A y \in Tasks : msg'["result"][y].state # "none" => y \in published'
    BY <2>1, <2>3, <2>4 DEF LedgerInv, AnswersInv
  <2>10. AnswersInv'
    BY <2>1, <2>6, <2>7, <2>8, <2>9 DEF AnswersInv
  <2>11. ~Busy("result")'
    BY <1>1, <2>1 DEF Busy, NoJob
  <2>12. DispatchInv'
    BY <1>3, <2>1 DEF LedgerInv, DispatchInv
  <2> QED BY <2>10, <2>11, <2>12 DEF LedgerInv, CurrentInv
<1> QED BY <1>4, <1>5, <1>6, <1>7, <1>8 DEF HandleResult

\* The worker answers a task, and a result is taken, or dropped for the id it is attributed to.
LEMMA LedgerTakes ==
  ASSUME LedgerInv, QueuesInv, WorkflowInv, ExecutionsOK, Len(executions) <= MaxExecutions,
         NEW t \in Tasks,
         WorkerAnswers("result", t) \/ SkipResult(t) \/ ReceiveResult(t)
  PROVE  LedgerInv'
<1>1. /\ "result" \in Writers /\ "result" \in Loops /\ Requests \subseteq Writers
      /\ "result" \notin Requests /\ QueueTypes /\ Len(executions) \in Nat
      /\ job \in [Writers -> Job] /\ applied \subseteq Tasks
  BY WriterNames DEF WorkflowInv, WorkflowTypeOK, QueuesInv, QueueTypes, ExecutionsOK
<1>2. CASE WorkerAnswers("result", t)
  <2>1. /\ msg["result"][t].state = "none" /\ t \in published
        /\ msg' = [msg EXCEPT !["result"][t].state = "queued"]
        /\ UNCHANGED <<job, dirty, executions, published, subject, target, key, handled, applied,
                       dropped, correlation>>
    BY <1>2 DEF WorkerAnswers, workflowVars
  <2>2. /\ msg'["result"][t].state = "queued"
        /\ \A y \in Tasks : y # t => msg'["result"][y] = msg["result"][y]
    <3>1. /\ msg'["result"][t].state = "queued"
          /\ \A x \in Loops, y \in Tasks : <<x, y>> # <<"result", t>> => msg'[x][y] = msg[x][y]
      BY <1>1, <2>1, StateChanges
    <3> QED BY <1>1, <3>1
  <2>3. t \notin applied
    BY <2>1 DEF LedgerInv, AnswersInv
  <2>4. AnswersInv'
    <3>1. ASSUME NEW y \in Tasks, msg'["result"][y].state = "done", y \notin applied'
          PROVE  DroppedFor(y)'
      <4>1. DroppedFor(y)
        BY <2>1, <2>2, <3>1 DEF LedgerInv, AnswersInv
      <4> QED BY <2>1, <4>1 DEF DroppedFor
    <3> QED BY <1>1, <2>1, <2>2, <2>3, <3>1 DEF LedgerInv, AnswersInv
  <2>5. CurrentInv'
    <3>1. Busy("result") => subject["result"] \in Tasks /\ subject["result"] # t
      BY <1>1, <2>1 DEF LedgerInv, CurrentInv, QueuesInv
    <3> QED BY <2>1, <2>2, <3>1 DEF LedgerInv, CurrentInv, Busy
  <2>6. DispatchInv'
    BY <2>1 DEF LedgerInv, DispatchInv, Dispatching
  <2> QED BY <2>4, <2>5, <2>6 DEF LedgerInv
<1>3. msg["result"][t].state = "queued" => t \in published /\ t \notin applied /\ t <= Latest
  <2>1. msg["result"][t].state = "queued" => t \in published /\ t \notin applied
    BY DEF LedgerInv, AnswersInv
  <2>2. t \in published => t <= Latest
    BY <1>1 DEF LedgerInv, DispatchInv, Latest
  <2> QED BY <2>1, <2>2
<1>4. Key \in {0, Latest} /\ (Key # 0 => executions[Latest].named)
      /\ (Key = 0 => Latest = 0 \/ ~executions[Latest].named)
  BY DEF Key
<1>5. CASE SkipResult(t)
  <2>1. /\ msg["result"][t].state = "queued" /\ ~Busy("result") /\ Key \in handled
        /\ Delivered("result", t, "done") /\ dropped' = [dropped EXCEPT ![t] = Key]
        /\ UNCHANGED <<job, executions, published, handled, applied, correlation>>
    BY <1>5 DEF SkipResult, workflowVars
  <2>2. /\ msg'["result"][t].state = "done"
        /\ \A y \in Tasks : y # t => msg'["result"][y] = msg["result"][y]
    BY <1>1, <2>1, DeliveryCounts
  <2>3. /\ dropped'[t] = Key /\ \A y \in Tasks : y # t => dropped'[y] = dropped[y]
    BY <1>1, <2>1 DEF QueueTypes
  <2>4. DroppedFor(t)'
    <3>1. PICK u \in applied : correlation[u] = Key
      BY <2>1 DEF LedgerInv, AnswersInv
    <3>2. Key # 0
      BY <1>1, <2>1 DEF QueueTypes, Tasks
    <3>3. u <= Key /\ t <= Key /\ u \in Nat /\ t \in Nat /\ Key \in Nat
      <4>1. u \in Tasks /\ u <= correlation[u]
        BY <1>1, <3>1, <3>2 DEF LedgerInv, AnswersInv
      <4>2. t <= Key
        BY <1>3, <1>4, <2>1, <3>2
      <4>3. Key \in Nat
        BY <1>1, <1>4 DEF Latest
      <4> QED BY <3>1, <4>1, <4>2, <4>3 DEF Tasks
    <3> HIDE DEF Key
    <3>4. \E x \in applied' : correlation'[x] = dropped'[t] /\ dropped'[t] >= x
      BY <2>1, <2>3, <3>1, <3>3
    <3> QED BY <2>3, <3>3, <3>4 DEF DroppedFor
  <2>5. ASSUME NEW y \in Tasks, y # t, msg'["result"][y].state = "done", y \notin applied'
        PROVE  DroppedFor(y)'
    <3>1. DroppedFor(y)
      BY <2>1, <2>2, <2>5 DEF LedgerInv, AnswersInv
    <3> QED BY <2>1, <2>3, <2>5, <3>1 DEF DroppedFor
  <2>6. AnswersInv'
    <3>1. \A y \in Tasks : msg'["result"][y].state # "none" => y \in published'
      BY <1>3, <2>1, <2>2 DEF LedgerInv, AnswersInv
    <3>2. \A u \in applied : msg'["result"][u].state = "done"
      BY <1>1, <2>2 DEF LedgerInv, AnswersInv
    <3>3. \A y \in Tasks : msg'["result"][y].state = "done" /\ y \notin applied' => DroppedFor(y)'
      BY <2>4, <2>5
    <3> QED BY <2>1, <3>1, <3>2, <3>3 DEF LedgerInv, AnswersInv
  <2>7. ~Busy("result")' /\ DispatchInv'
    BY <2>1 DEF LedgerInv, DispatchInv, Dispatching, Busy
  <2> QED BY <2>6, <2>7 DEF LedgerInv, CurrentInv
<1>6. CASE ReceiveResult(t)
  <2>1. /\ Takes("result", t) /\ Delivered("result", t, "inflight")
        /\ target' = Latest /\ key' = Key /\ subject' = [subject EXCEPT !["result"] = t]
        /\ UNCHANGED <<executions, published, handled, applied, dropped, correlation>>
        /\ msg["result"][t].state = "queued" /\ Key \notin handled
    BY <1>6 DEF ReceiveResult, Takes
  <2>2. /\ msg'["result"][t].state = "inflight"
        /\ \A y \in Tasks : y # t => msg'["result"][y] = msg["result"][y]
    BY <1>1, <2>1, DeliveryCounts
  <2>3. OthersStay("result") /\ job'["result"].phase \in {"latest", "saveSession", "reported"}
    BY <1>1, <1>6, ReceiveTurns
  <2>4. subject'["result"] = t
    BY <1>1, <2>1 DEF QueueTypes
  <2>5. AnswersInv'
    <3>1. \A y \in Tasks : msg'["result"][y].state # "none" => y \in published'
      BY <1>3, <2>1, <2>2 DEF LedgerInv, AnswersInv
    <3>2. \A u \in applied : msg'["result"][u].state = "done"
      BY <1>1, <1>3, <2>1, <2>2 DEF LedgerInv, AnswersInv
    <3>3. ASSUME NEW y \in Tasks, msg'["result"][y].state = "done", y \notin applied'
          PROVE  DroppedFor(y)'
      <4>1. DroppedFor(y)
        BY <2>1, <2>2, <3>3 DEF LedgerInv, AnswersInv
      <4> QED BY <2>1, <4>1 DEF DroppedFor
    <3> QED BY <2>1, <3>1, <3>2, <3>3 DEF LedgerInv, AnswersInv
  <2>6. DispatchInv'
    BY <1>1, <2>1, <2>3 DEF LedgerInv, DispatchInv, Dispatching, OthersStay
  <2>7. CurrentInv'
    <3>1. target' \in 1..Len(executions') /\ t <= target'
      <4>1. t <= Latest /\ t >= 1
        BY <1>3, <2>1 DEF Tasks
      <4> QED BY <1>1, <2>1, <4>1, SessionsAssumption DEF Latest, Tasks
    <3>2. key' \in {0, target'} /\ (key' # 0 => executions'[target'].named)
      BY <1>4, <2>1
    <3>3. key' = 0 => \A u \in applied' : correlation'[u] # target'
      <4>1. key' = 0 => ~executions[Latest].named /\ Latest # 0
        BY <1>1, <1>4, <2>1, <3>1 DEF Latest
      <4> QED BY <2>1, <4>1 DEF LedgerInv, AnswersInv
    <3> QED BY <2>2, <2>3, <2>4, <3>1, <3>2, <3>3 DEF CurrentInv
  <2> QED BY <2>5, <2>6, <2>7 DEF LedgerInv
<1> QED BY <1>2, <1>5, <1>6

\* Neither a crash nor a report of the divergence agent touches what was counted.
LEMMA LedgerElsewhere ==
  ASSUME LedgerInv, QueuesInv, WorkflowInv, SessionInv,
         \/ Crash
         \/ \E t \in Tasks : \/ WorkerAnswers("divergence", t)
                             \/ SkipDivergence(t) \/ ReceiveDivergence(t)
         \/ DiffSession("divergence") \/ SaveDivergence \/ AckDivergence
  PROVE  LedgerInv'
<1>1. /\ "result" \in Writers /\ "divergence" \in Writers /\ "result" # "divergence"
      /\ "result" \in Loops /\ "divergence" \in Loops /\ Requests \subseteq Writers
      /\ "divergence" \notin Requests /\ Requests \cap Loops = {}
      /\ job \in [Writers -> Job] /\ QueueTypes /\ applied \subseteq Tasks
  BY WriterNames, WorkflowsAssumption DEF WorkflowInv, WorkflowTypeOK, QueuesInv, QueueTypes
<1>2. ASSUME NEW m, NEW n, msg' = [msg EXCEPT !["divergence"] = m],
             subject' = [subject EXCEPT !["divergence"] = n]
      PROVE  msg'["result"] = msg["result"] /\ subject'["result"] = subject["result"]
  BY <1>1, <1>2 DEF QueueTypes
<1>3. ASSUME NEW t \in Tasks, WorkerAnswers("divergence", t) \/ SkipDivergence(t)
      PROVE  LedgerInv'
  <2>1. /\ UNCHANGED <<job, dirty, executions, published, subject, target, key, handled, applied,
                       dropped, correlation>>
        /\ \E m : msg' = [msg EXCEPT !["divergence"] = m]
    BY <1>3 DEF WorkerAnswers, SkipDivergence, workflowVars, Delivered
  <2>2. msg'["result"] = msg["result"]
    BY <1>1, <2>1 DEF QueueTypes
  <2> QED BY <2>1, <2>2, LedgerMoves DEF Dispatching, Busy
<1>4. ASSUME NEW t \in Tasks, ReceiveDivergence(t) PROVE LedgerInv'
  <2>1. /\ UNCHANGED <<dirty, executions, published, target, key, handled, applied, dropped,
                       correlation>>
        /\ \E m : msg' = [msg EXCEPT !["divergence"] = m]
        /\ subject' = [subject EXCEPT !["divergence"] = t]
    BY <1>4 DEF ReceiveDivergence, Takes, Delivered
  <2>2. msg'["result"] = msg["result"] /\ subject'["result"] = subject["result"]
    BY <1>1, <2>1 DEF QueueTypes
  <2>3. OthersStay("divergence")
    BY <1>1, <1>4, ReceiveTurns
  <2> QED BY <1>1, <2>1, <2>2, <2>3, LedgerMoves DEF Dispatching, Busy, OthersStay
<1>5. CASE DiffSession("divergence") \/ SaveDivergence \/ AckDivergence
  <2>1. OthersStay("divergence")
    BY <1>5, DivergenceTurns
  <2>2. /\ UNCHANGED <<executions, published, target, key, handled, applied, dropped, correlation>>
        /\ msg'["result"] = msg["result"] /\ subject'["result"] = subject["result"]
    <3>1. CASE AckDivergence
      <4>1. /\ UNCHANGED <<executions, published, target, key, handled, applied, dropped,
                           correlation>>
            /\ \E m : msg' = [msg EXCEPT !["divergence"] = m]
            /\ subject' = [subject EXCEPT !["divergence"] = 0]
        BY <3>1 DEF AckDivergence, Acks
      <4> QED BY <1>1, <4>1 DEF QueueTypes
    <3>2. CASE DiffSession("divergence") \/ SaveDivergence
      BY <3>2 DEF DiffSession, SaveDivergence, queues
    <3> QED BY <1>5, <3>1, <3>2
  <2>3. job'["result"] = job["result"] /\ \A q \in Requests : job'[q] = job[q]
    BY <1>1, <2>1 DEF OthersStay
  <2>4. dirty'["result"] = dirty["result"]
    BY <1>1, <1>5 DEF DiffSession, SaveDivergence, AckDivergence, SessionInv, SessionTypes
  <2> QED BY <2>2, <2>3, <2>4, LedgerMoves DEF Dispatching, Busy
<1>6. CASE Crash
  <2>1. /\ handled' = {} /\ UNCHANGED <<executions, published, applied, dropped, correlation>>
    BY <1>6 DEF Crash
  <2>2. ASSUME NEW y \in Tasks
        PROVE  /\ msg'["result"][y].state = "none" => msg["result"][y].state = "none"
               /\ msg["result"][y].state = "none" => msg'["result"][y].state = "none"
               /\ msg'["result"][y].state = "done" <=> msg["result"][y].state = "done"
    <3> DEFINE m == msg["result"][y]
               s == IF m.deliveries >= MaxDeliver THEN "dead" ELSE "queued"
    <3>1. m \in Message
      BY <1>1 DEF QueueTypes
    <3>2. msg'["result"][y] = IF m.state # "inflight" THEN m ELSE [m EXCEPT !.state = s]
      BY <1>1, <1>6 DEF Crash
    <3>3. s \in {"dead", "queued"}
      OBVIOUS
    <3> HIDE DEF m, s
    <3>4. m.state = "inflight" => [m EXCEPT !.state = s].state = s
      BY <3>1 DEF Message
    <3>5. msg'["result"][y] = m \/ (m.state = "inflight" /\ msg'["result"][y].state = s)
      BY <3>2, <3>4
    <3> QED BY <3>3, <3>5 DEF m
  <2>3. AnswersInv'
    BY <1>1, <2>1, <2>2 DEF LedgerInv, AnswersInv, DroppedFor
  <2>4. job'["result"] = NoJob /\ ~Busy("result")'
    BY <1>1, <1>6 DEF Crash, Busy, NoJob
  <2>5. ASSUME NEW q \in Requests, Dispatching(q)'
        PROVE  Dispatching(q) /\ job'[q].next = job[q].next
    <3>1. job'[q] = IF Busy(q) THEN [NoJob EXCEPT !.phase = "refused"] ELSE job[q]
      BY <1>1, <1>6 DEF Crash
    <3>2. [NoJob EXCEPT !.phase = "refused"].phase = "refused"
      BY DEF NoJob
    <3> QED BY <2>5, <3>1, <3>2 DEF Dispatching
  <2>6. DispatchInv'
    BY <2>1, <2>5 DEF LedgerInv, DispatchInv
  <2> QED BY <2>3, <2>4, <2>6 DEF LedgerInv, CurrentInv
<1> QED BY <1>3, <1>4, <1>5, <1>6

LEMMA LedgerStep ==
  LedgerInv /\ QueuesInv /\ WorkflowInv /\ ExecutionsOK /\ Len(executions) <= MaxExecutions
    /\ SessionInv /\ [Next]_vars => LedgerInv'
<1> SUFFICES ASSUME LedgerInv, QueuesInv, WorkflowInv, ExecutionsOK,
                    Len(executions) <= MaxExecutions, SessionInv, [Next]_vars
             PROVE  LedgerInv'
  OBVIOUS
<1>1. "result" \notin Requests /\ Loops = {"result", "divergence"} /\ Requests \subseteq Writers
      /\ "result" \in Writers
  BY WriterNames
<1>2. ASSUME NEW q \in Requests,
             (OfWorkflow(q) /\ UNCHANGED sessionVars) \/ SessionRequest(q) \/ RequestFails(q)
      PROVE  LedgerInv'
  <2>1. /\ q \in Writers /\ OthersStay(q) /\ UNCHANGED queues
        /\ \/ SaveExecution(q) \/ PublishTask(q) \/ DiffExecution(q)
           \/ job'[q].phase \notin {"publish", "published", "updateExecution"}
    BY <1>2, RequestTurns
  <2>2. CASE SaveExecution(q) \/ PublishTask(q) \/ DiffExecution(q) \/ NameExecution(q)
    BY <2>1, <2>2, LedgerDispatch
  <2>3. CASE ~(SaveExecution(q) \/ PublishTask(q) \/ DiffExecution(q) \/ NameExecution(q))
    <3>1. UNCHANGED <<executions, published>>
      BY <1>2, <2>3 DEF SessionRequest, RequestFails, sessionVars, Finalize, Delete, UpdateMode,
                        Override, PostMessage, DiffSession, SaveSession, Rest
    <3>2. dirty'["result"] = dirty["result"]
      BY <1>1, <1>2, <2>3 DEF SessionRequest, RequestFails, sessionVars, Finalize, Delete,
           UpdateMode, Override, PostMessage, DiffSession, SaveSession, Rest, SessionInv,
           SessionTypes
    <3>3. /\ job'["result"] = job["result"] /\ ~Dispatching(q)'
          /\ \A r \in Requests : r # q => job'[r] = job[r]
      BY <1>1, <2>1, <2>3 DEF OthersStay, Dispatching
    <3>4. \A r \in Requests : Dispatching(r)' => Dispatching(r) /\ job'[r].next = job[r].next
      BY <3>3 DEF Dispatching
    <3> QED BY <2>1, <3>1, <3>2, <3>3, <3>4, LedgerMoves DEF queues, Busy
  <2> QED BY <2>2, <2>3
<1>3. ASSUME NEW l \in Loops, HandlerFails(l) PROVE LedgerInv'
  BY <1>3, LedgerThrows DEF HandlerFails
<1>4. CASE HandleResult
  BY <1>4, LedgerResult
<1>5. ASSUME NEW l \in Loops, NEW t \in Tasks, WorkerAnswers(l, t) PROVE LedgerInv'
  BY <1>1, <1>5, LedgerTakes, LedgerElsewhere
<1>6. ASSUME NEW t \in Tasks, SkipResult(t) \/ ReceiveResult(t) PROVE LedgerInv'
  BY <1>6, LedgerTakes
<1>7. CASE \/ Crash
           \/ \E t \in Tasks : SkipDivergence(t) \/ ReceiveDivergence(t)
           \/ DiffSession("divergence") \/ SaveDivergence \/ AckDivergence
  BY <1>7, LedgerElsewhere
<1>8. CASE UNCHANGED vars
  <2>1. UNCHANGED <<job, dirty, executions, published, queues>>
    BY <1>8 DEF vars, workflowVars, sessionVars
  <2> QED BY <2>1, LedgerMoves DEF queues, Dispatching, Busy
<1> QED BY <1>2, <1>3, <1>4, <1>5, <1>6, <1>7, <1>8 DEF Next

-------------------------------------------------------------------------------
(* Writers that do not overlap. *)

\* Nobody overlapped with anybody so far, and nothing failed.
Quiet == (\A w \in Writers : alone[w]) /\ faults = 0

\* The copy that a writer is to save has the newest number, and so has the row unless the
\* UPDATE brings it; the number that a writer is to insert is the next one.
Numbers(w) ==
  /\ job[w].phase \in {"transaction", "insert", "save", "update"} =>
       job[w].copy.current = Cardinality(versions)
  /\ job[w].phase \in {"create", "insert", "insertResult"} =>
       job[w].next = Cardinality(versions) + 1
  /\ job[w].phase = "update" =>
       "current" \in job[w].dirty \/ workflow.current = Cardinality(versions)

\* create() and the handler of a result insert the version before they save the workflow.
Ahead(w) == job[w].phase \in {"save", "update"} /\ (w = "result" \/ job[w].kind = "create")

UpToDate(w) ==
  /\ Ahead(w) \/ workflow.current = Cardinality(versions)
  /\ job[w].phase = "create" \/ versions # {}

QuietInv ==
  Quiet => /\ \A w \in Writers : /\ Numbers(w)
                                 /\ Busy(w) => \A v \in Writers : Busy(v) => v = w
           /\ \E w \in Writers : UpToDate(w)

\* Who is not at work has nothing to bring.
LEMMA RestIsUpToDate ==
  ASSUME NEW w \in Writers, UpToDate(w), ~Busy(w)
  PROVE  workflow.current = Cardinality(versions) /\ versions # {}
BY DEF UpToDate, Ahead, Busy, Finished

LEMMA QuietMeansNewest ==
  ASSUME QuietInv, WorkflowInv
  PROVE  CurrentIsNewest
<1> SUFFICES ASSUME \A w \in Writers : alone[w] /\ ~Busy(w), faults = 0
             PROVE  workflow.current = Newest /\ versions # {}
  BY DEF CurrentIsNewest
<1>1. PICK w \in Writers : UpToDate(w) /\ ~Busy(w)
  BY DEF QuietInv, Quiet
<1>2. workflow.current = Cardinality(versions) /\ versions # {}
  BY <1>1, RestIsUpToDate
<1> QED BY <1>2, NewestIsCount DEF WorkflowInv

\* A writer at work goes on; the others are not at work.
LEMMA QuietMoves ==
  ASSUME QuietInv, NEW w \in Writers, Busy(w), OthersStay(w), UNCHANGED <<alone, faults>>,
         Quiet /\ Numbers(w) /\ UpToDate(w) => Numbers(w)' /\ UpToDate(w)'
  PROVE  QuietInv'
<1> SUFFICES ASSUME Quiet'
             PROVE  /\ \A x \in Writers : /\ Numbers(x)'
                                          /\ Busy(x)' => \A v \in Writers : Busy(v)' => v = x
                    /\ \E x \in Writers : UpToDate(x)'
  BY DEF QuietInv
<1>1. Quiet
  BY DEF Quiet
<1>2. ASSUME NEW x \in Writers, x # w PROVE ~Busy(x) /\ job'[x] = job[x]
  BY <1>1, <1>2 DEF QuietInv, OthersStay
<1>3. Numbers(w) /\ UpToDate(w)
  <2>1. PICK x \in Writers : UpToDate(x)
    BY <1>1 DEF QuietInv
  <2>2. CASE x # w
    BY <1>1, <1>2, <2>1, <2>2, RestIsUpToDate DEF QuietInv, UpToDate
  <2> QED BY <1>1, <2>1, <2>2 DEF QuietInv
<1>4. Numbers(w)' /\ UpToDate(w)'
  BY <1>1, <1>3
<1>5. ASSUME NEW x \in Writers, x # w PROVE ~Busy(x)' /\ Numbers(x)'
  <2>1. ~Busy(x) /\ job'[x] = job[x]
    BY <1>2, <1>5
  <2> QED BY <2>1 DEF Numbers, Busy, Finished
<1> QED BY <1>4, <1>5

\* A writer goes on or ends with nothing to insert or to save.
Special == {"create", "transaction", "insert", "save", "update", "insertResult"}

LEMMA QuietPlain ==
  ASSUME QuietInv, NEW w \in Writers, Busy(w), OthersStay(w),
         UNCHANGED <<workflow, versions, alone, faults>>, job'[w].phase \notin Special,
         job[w].phase \notin {"create", "save", "update"}
  PROVE  QuietInv'
<1>1. Numbers(w)'
  BY DEF Numbers, Special
<1>2. UpToDate(w) => UpToDate(w)'
  BY DEF UpToDate, Ahead
<1> QED BY <1>1, <1>2, QuietMoves

\* A writer saves its copy of the workflow.
LEMMA QuietSaves ==
  ASSUME QuietInv, WorkflowInv, NEW w \in Writers, job[w].phase = "update", OthersStay(w),
         workflow' = Saved(workflow, job[w].copy, job[w].dirty),
         UNCHANGED <<versions, alone, faults>>, job'[w].phase \notin Special
  PROVE  QuietInv'
<1>1. Numbers(w)' /\ Busy(w)
  BY DEF Numbers, Special, Busy, Finished
<1>2. workflow \in Row /\ job[w].copy \in Row
  BY DEF WorkflowInv, WorkflowTypeOK, Job
<1>3. workflow'.current = IF "current" \in job[w].dirty THEN job[w].copy.current
                          ELSE workflow.current
  BY <1>2, SavedRow
<1>4. Numbers(w) /\ UpToDate(w) => UpToDate(w)'
  BY <1>3 DEF Numbers, UpToDate
<1> QED BY <1>1, <1>4, QuietMoves

\* A writer finds the columns that it is to save.
LEMMA QuietDiffs ==
  ASSUME QuietInv, WorkflowInv, NEW w \in Writers, Diff(w)
  PROVE  QuietInv'
<1>1. /\ job[w].phase = "save" /\ UNCHANGED <<workflow, versions, alone, faults>>
      /\ job' = [job EXCEPT ![w].phase = "update",
                            ![w].dirty = Changed(job[w].copy, workflow)]
  BY DEF Diff
<1>2. workflow \in Row /\ job \in [Writers -> Job] /\ job[w].copy \in Row
  BY DEF WorkflowInv, WorkflowTypeOK, Job
<1>3. "current" \in Changed(job[w].copy, workflow) <=> job[w].copy.current # workflow.current
  BY <1>2, ChangedColumns
<1>4. OthersStay(w) /\ job'[w].phase = "update" /\ job'[w].copy = job[w].copy
  BY <1>1, <1>2 DEF OthersStay, Job
<1>5. job'[w].dirty = Changed(job[w].copy, workflow)
  BY <1>1, <1>2 DEF Job
<1>6. Numbers(w) => Numbers(w)'
  BY <1>1, <1>3, <1>4, <1>5 DEF Numbers
<1>7. UpToDate(w) => UpToDate(w)'
  <2>1. job'[w].kind = job[w].kind
    BY <1>1, <1>2 DEF Job
  <2> QED BY <1>1, <1>4, <2>1 DEF UpToDate, Ahead
<1>8. Busy(w)
  BY <1>1 DEF Busy, Finished
<1> QED BY <1>1, <1>4, <1>6, <1>7, <1>8, QuietMoves

\* A writer begins: if it stays quiet nobody else is at work.
LEMMA QuietBegins ==
  ASSUME QuietInv, WorkflowInv, NEW w \in Writers, ~Busy(w), NEW kind \in Kinds \cup Loops,
         NEW phase \in Phases \ {"create", "insertResult", "update"}, NEW c \in Row,
         c.current = workflow.current, NEW n \in Nat, phase = "insert" => n = workflow.current + 1,
         Begins(w, kind, phase, c, n), UNCHANGED <<workflow, versions, faults>>
  PROVE  QuietInv'
<1> SUFFICES ASSUME Quiet'
             PROVE  /\ \A x \in Writers : /\ Numbers(x)'
                                          /\ Busy(x)' => \A v \in Writers : Busy(v)' => v = x
                    /\ \E x \in Writers : UpToDate(x)'
  BY DEF QuietInv
<1>1. /\ OthersStay(w) /\ job'[w].phase = phase /\ job'[w].copy = c /\ job'[w].next = n
      /\ \A x \in Writers : alone'[x] => alone[x]
      /\ \A x \in Writers \ {w} : Busy(x) => ~alone'[w] /\ ~alone'[x]
  BY BeginsMeans DEF WorkflowInv
<1>2. \A x \in Writers : ~Busy(x)
  BY <1>1 DEF Quiet
<1>3. PICK y \in Writers : UpToDate(y) /\ ~Busy(y)
  BY <1>1, <1>2 DEF Quiet, QuietInv
<1>4. workflow.current = Cardinality(versions) /\ versions # {}
  BY <1>3, RestIsUpToDate
<1>5. Numbers(w)' /\ UpToDate(w)'
  BY <1>1, <1>4 DEF Numbers, UpToDate
<1>6. ASSUME NEW x \in Writers, x # w PROVE ~Busy(x)' /\ Numbers(x)'
  <2>1. ~Busy(x) /\ job'[x] = job[x]
    BY <1>1, <1>2, <1>6 DEF OthersStay
  <2> QED BY <2>1 DEF Numbers, Busy, Finished
<1> QED BY <1>5, <1>6

\* The steps of a request on the workflow alone.
LEMMA QuietWorkflowRequest ==
  ASSUME QuietInv, WorkflowInv, NEW q \in Requests, OfWorkflow(q)
  PROVE  QuietInv'
<1>1. /\ q \in Writers /\ q # "result" /\ workflow \in Row /\ OthersStay(q)
      /\ job \in [Writers -> Job] /\ WorkflowTypeOK /\ 0 \in Nat
      /\ Cardinality(versions) \in Nat /\ workflow.current \in 0..Cardinality(versions)
  BY WriterNames, WorkflowTurns, FS_CardinalityType DEF WorkflowInv, WorkflowTypeOK, VersionsDense
<1>2. /\ \A s \in PatchStatuses \cup {workflow.status} :
           /\ [workflow EXCEPT !.status = s] \in Row
           /\ [workflow EXCEPT !.status = s].current = workflow.current
      /\ [workflow EXCEPT !.status = "archived"] \in Row
      /\ [workflow EXCEPT !.status = "archived"].current = workflow.current
  BY <1>1, WorkflowsAssumption DEF Row, WorkflowStatus
<1>3. {"transaction", "insert", "save", "exporting"}
        \subseteq Phases \ {"create", "insertResult", "update"}
  BY DEF Phases
<1>4. ASSUME NEW kind, Opens(q, kind) PROVE ~Busy(q) /\ kind \in Kinds \cup Loops
  BY <1>4 DEF Opens, Busy
<1>5. CASE Patch(q)
  <2>1. PICK s \in PatchStatuses \cup {workflow.status} :
          Begins(q, "patch", "transaction", [workflow EXCEPT !.status = s], 0)
    BY <1>5 DEF Patch
  <2>2. Opens(q, "patch") /\ UNCHANGED <<workflow, versions, faults>>
    BY <1>5 DEF Patch
  <2> DEFINE c == [workflow EXCEPT !.status = s]
  <2>3. c \in Row /\ c.current = workflow.current /\ Begins(q, "patch", "transaction", c, 0)
    BY <1>2, <2>1
  <2> HIDE DEF c
  <2> QED BY <1>1, <1>3, <1>4, <2>2, <2>3, QuietBegins
<1>6. CASE Edit(q)
  <2>1. PICK s \in PatchStatuses \cup {workflow.status} :
          Begins(q, "edit", "save", [workflow EXCEPT !.status = s], 0)
    BY <1>6 DEF Edit
  <2>2. Opens(q, "edit") /\ UNCHANGED <<workflow, versions, faults>>
    BY <1>6 DEF Edit
  <2> DEFINE c == [workflow EXCEPT !.status = s]
  <2>3. c \in Row /\ c.current = workflow.current /\ Begins(q, "edit", "save", c, 0)
    BY <1>2, <2>1
  <2> HIDE DEF c
  <2> QED BY <1>1, <1>3, <1>4, <2>2, <2>3, QuietBegins
<1>7. CASE Archive(q)
  <2> DEFINE c == [workflow EXCEPT !.status = "archived"]
  <2>1. /\ Opens(q, "archive") /\ UNCHANGED <<workflow, versions, faults>>
        /\ c \in Row /\ c.current = workflow.current /\ Begins(q, "archive", "save", c, 0)
    BY <1>2, <1>7 DEF Archive
  <2> HIDE DEF c
  <2> QED BY <1>1, <1>3, <1>4, <2>1, QuietBegins
<1>8. CASE CommitCanvas(q)
  <2> DEFINE n == workflow.current + 1
  <2>1. /\ Opens(q, "commit") /\ UNCHANGED <<workflow, versions, faults>> /\ n \in Nat
        /\ Begins(q, "commit", "insert", workflow, n) /\ n = workflow.current + 1
    BY <1>1, <1>8 DEF CommitCanvas
  <2> HIDE DEF n
  <2> QED BY <1>1, <1>3, <1>4, <2>1, QuietBegins
<1>9. CASE CheckExport(q, session.status = "needs_reconciliation")
  <2>1. /\ Opens(q, "export") /\ UNCHANGED <<workflow, versions, faults>>
        /\ Begins(q, "export", "exporting", workflow, 0)
    BY <1>9 DEF CheckExport
  <2> QED BY <1>1, <1>3, <1>4, <2>1, QuietBegins
<1>10. CASE ReadCurrent(q)
  <2>1. /\ job[q].phase = "transaction" /\ UNCHANGED <<workflow, versions, alone, faults>>
        /\ job'[q].phase = "insert" /\ job'[q].copy = job[q].copy
        /\ job'[q].next = workflow.current + 1
    <3> DEFINE n == workflow.current + 1
    <3>1. /\ job[q].phase = "transaction" /\ UNCHANGED <<workflow, versions, alone, faults>>
          /\ job' = [job EXCEPT ![q].phase = "insert", ![q].next = n] /\ n \in Nat
      BY <1>1, <1>10 DEF ReadCurrent
    <3> HIDE DEF n
    <3>2. "insert" \in Phases
      BY <1>3
    <3> QED BY <1>1, <3>1, <3>2, NumbersMeans, NumberIsHeld DEF n
  <2>2. Numbers(q) /\ UpToDate(q) => Numbers(q)' /\ UpToDate(q)'
    BY <1>1, <2>1 DEF Numbers, UpToDate, Ahead
  <2>3. Busy(q)
    BY <2>1 DEF Busy, Finished
  <2> QED BY <1>1, <2>1, <2>2, <2>3, QuietMoves
<1>11. CASE InsertVersion(q)
  <2>1. /\ job[q].phase = "insert" /\ NumberFree(job[q].next) /\ versions' = Inserted(q)
        /\ workflow' = [workflow EXCEPT !.current = job[q].next] /\ UNCHANGED <<alone, faults>>
    BY <1>11 DEF InsertVersion
  <2>2. /\ job[q].next = Cardinality(versions) + 1
        /\ Cardinality(versions') = Cardinality(versions) + 1
    BY <1>1, <2>1, VersionInserted
  <2>3. workflow'.current = Cardinality(versions')
    BY <1>1, <2>1, <2>2 DEF Row
  <2>4. Numbers(q) => Numbers(q)'
    <3>1. CASE job[q].kind = "patch"
      <4>1. job' = [job EXCEPT ![q].phase = "save", ![q].copy.current = @ + 1]
        BY <1>11, <3>1 DEF InsertVersion
      <4>2. job'[q].phase = "save"
        BY <1>1, <4>1 DEF Job
      <4>3. job'[q].copy.current = job[q].copy.current + 1
        BY <1>1, <4>1 DEF Job, Row
      <4> QED BY <2>1, <2>2, <4>2, <4>3 DEF Numbers
    <3>2. CASE job[q].kind # "patch"
      <4>1. job'[q].phase = "ok"
        BY <1>1, <1>11, <3>2, EndsMeans DEF InsertVersion, Phases, Finished
      <4> QED BY <4>1 DEF Numbers
    <3> QED BY <3>1, <3>2
  <2>5. UpToDate(q)'
    <3>1. versions' # {}
      BY <2>1 DEF Inserted
    <3> QED BY <2>3, <3>1 DEF UpToDate
  <2>6. Busy(q)
    BY <2>1 DEF Busy, Finished
  <2> QED BY <1>1, <2>1, <2>4, <2>5, <2>6, QuietMoves
<1>12. ASSUME NEW phase \in {"ok", "refused"}, Ends(q, phase) PROVE job'[q].phase \notin Special
  BY <1>1, <1>12, EndsMeans DEF Phases, Finished, Special
<1>13. CASE InsertRefused(q)
  <2>1. /\ Busy(q) /\ Ends(q, "refused") /\ UNCHANGED <<workflow, versions, alone, faults>>
        /\ job[q].phase \in {"create", "insert"} /\ versions # {}
    BY <1>13 DEF InsertRefused, NumberFree, Busy, Finished
  <2>2. job'[q].phase \notin Special
    BY <1>12, <2>1
  <2>3. Numbers(q)' /\ (UpToDate(q) => UpToDate(q)')
    BY <2>1, <2>2 DEF Numbers, UpToDate, Ahead, Special
  <2> QED BY <1>1, <2>1, <2>3, QuietMoves
<1>14. CASE Diff(q)
  BY <1>1, <1>14, QuietDiffs
<1>15. CASE Save(q)
  <2>1. /\ job[q].phase = "update" /\ workflow' = Saved(workflow, job[q].copy, job[q].dirty)
        /\ Ends(q, "ok") /\ UNCHANGED <<versions, alone, faults>>
    BY <1>15 DEF Save
  <2> QED BY <1>1, <1>12, <2>1, QuietSaves
<1>16. CASE Export(q)
  <2>1. /\ job[q].phase = "exporting" /\ workflow' = [workflow EXCEPT !.status = "exported"]
        /\ Ends(q, "ok") /\ UNCHANGED <<versions, alone, faults>>
    BY <1>16 DEF Export
  <2>2. workflow'.current = workflow.current /\ job'[q].phase \notin Special
    BY <1>1, <1>12, <2>1 DEF Row
  <2>3. Numbers(q)' /\ (UpToDate(q) => UpToDate(q)') /\ Busy(q)
    BY <1>1, <2>1, <2>2 DEF Numbers, UpToDate, Ahead, Special, Busy, Finished
  <2> QED BY <1>1, <2>1, <2>3, QuietMoves
<1>17. CASE InsertFirst(q)
  <2>1. /\ job[q].phase = "create" /\ NumberFree(job[q].next) /\ versions' = Inserted(q)
        /\ job' = [job EXCEPT ![q].phase = "save", ![q].copy.current = 1]
        /\ UNCHANGED <<workflow, alone, faults>>
    BY <1>17 DEF InsertFirst
  <2>2. /\ job[q].next = Cardinality(versions) + 1 /\ job[q].next = 1 /\ job[q].kind = "create"
        /\ Cardinality(versions') = Cardinality(versions) + 1
    BY <1>1, <2>1, VersionInserted DEF WorkflowInv, WriterOK
  <2>3. job'[q].phase = "save" /\ job'[q].kind = "create"
    BY <1>1, <2>1, <2>2 DEF Job
  <2>4. job'[q].copy.current = 1
    BY <1>1, <2>1 DEF Job, Row
  <2>5. versions' # {} /\ Busy(q)
    BY <2>1 DEF Inserted, Busy, Finished
  <2>6. Numbers(q)' /\ UpToDate(q)'
    BY <1>1, <2>2, <2>3, <2>4, <2>5 DEF Numbers, UpToDate, Ahead
  <2> QED BY <1>1, <2>1, <2>5, <2>6, QuietMoves
<1> QED BY <1>5, <1>6, <1>7, <1>8, <1>9, <1>10, <1>11, <1>13, <1>14, <1>15, <1>16, <1>17
        DEF OfWorkflow, WorkflowRequest

\* The requests on the session leave the workflow alone.
LEMMA QuietSessionRequest ==
  ASSUME QuietInv, WorkflowInv, ExecutionsOK, NEW q \in Requests, SessionRequest(q)
  PROVE  QuietInv'
<1>1. /\ q \in Writers /\ q # "result" /\ workflow \in Row /\ OthersStay(q)
      /\ job \in [Writers -> Job] /\ WorkflowTypeOK /\ 0 \in Nat
  BY WriterNames, RequestTurns DEF WorkflowInv, WorkflowTypeOK
<1>2. /\ {"saveSession", "posted"} \subseteq Phases \ {"create", "insertResult", "update"}
      /\ {"published", "updateExecution", "saveSession", "updateSession", "ok"}
           \subseteq Phases \ Special
  BY DEF Phases, Finished, Special
<1>3. CASE Finalize(q) \/ Delete(q) \/ UpdateMode(q) \/ Override(q) \/ PostMessage(q)
  <2>1. PICK kind \in Kinds, phase \in {"saveSession", "posted"} :
          Begins(q, kind, phase, workflow, 0)
    BY <1>3 DEF Finalize, Delete, UpdateMode, Override, PostMessage, Opens
  <2>2. ~Busy(q) /\ UNCHANGED <<workflow, versions, faults>>
    BY <1>3 DEF Finalize, Delete, UpdateMode, Override, PostMessage, Opens, Busy, Untouched
  <2>3. phase \in Phases \ {"create", "insertResult", "update"} /\ phase # "insert"
    BY <1>2
  <2> QED BY <1>1, <2>1, <2>2, <2>3, QuietBegins
<1>4. CASE SaveExecution(q)
  <2>1. /\ job[q].phase = "posted" /\ UNCHANGED <<workflow, versions, alone, faults>>
        /\ job'[q].phase = "publish"
    BY <1>1, <1>4 DEF SaveExecution, Job
  <2> QED BY <1>1, <2>1, QuietPlain DEF Busy, Finished, Special
<1>5. CASE \/ PublishTask(q) \/ DiffExecution(q) \/ NameExecution(q)
           \/ DiffSession(q) \/ SaveSession(q)
  <2>1. /\ Busy(q) /\ UNCHANGED <<workflow, versions, alone, faults>>
        /\ job[q].phase \notin {"create", "save", "update"}
    BY <1>1, <1>5 DEF PublishTask, DiffExecution, NameExecution, ExecutionSaved, DiffSession,
                      SaveSession, Busy, Finished
  <2>2. PICK phase \in {"published", "updateExecution", "saveSession", "updateSession", "ok"} :
          Goes(q, phase) \/ Ends(q, phase)
    BY <1>5 DEF PublishTask, DiffExecution, NameExecution, DiffSession, SaveSession
  <2>3. job'[q].phase = phase /\ phase \notin Special
    BY <1>1, <1>2, <2>2, GoesMeans, EndsMeans
  <2> QED BY <1>1, <2>1, <2>3, QuietPlain
<1> QED BY <1>3, <1>4, <1>5 DEF SessionRequest

\* The handlers of results and of divergence results.
LEMMA QuietLoops ==
  ASSUME QuietInv, WorkflowInv,
         \/ \E t \in Tasks : ReceiveResult(t) \/ ReceiveDivergence(t)
         \/ HandleResult \/ DiffSession("divergence") \/ SaveDivergence \/ AckDivergence
  PROVE  QuietInv'
<1>1. /\ "result" \in Writers /\ "divergence" \in Writers /\ "result" # "divergence"
      /\ "result" \in Loops /\ "divergence" \in Loops /\ WorkflowTypeOK /\ workflow \in Row
      /\ job \in [Writers -> Job] /\ 0 \in Nat /\ Cardinality(versions) \in Nat
  BY WriterNames, FS_CardinalityType DEF WorkflowInv, WorkflowTypeOK
<1>2. /\ {"latest", "saveSession", "reported"}
           \subseteq Phases \ {"create", "insertResult", "update"}
      /\ {"saveSession", "updateSession", "complete", "updateExecution", "report", "reported"}
           \subseteq Phases \ Special
  BY DEF Phases, Special
<1>3. ASSUME NEW l \in Loops, job' = [job EXCEPT ![l] = NoJob]
      PROVE  job'[l].phase \notin Special
  BY <1>1, <1>3, WriterNames DEF NoJob, Special
<1>4. ASSUME NEW t \in Tasks, ReceiveResult(t) PROVE QuietInv'
  <2>1. /\ ~Busy("result") /\ Begins("result", "result", "latest", workflow, 0)
        /\ UNCHANGED <<workflow, versions, faults>>
    BY <1>4 DEF ReceiveResult, Takes
  <2> QED BY <1>1, <1>2, <2>1, QuietBegins
<1>5. ASSUME NEW t \in Tasks, ReceiveDivergence(t) PROVE QuietInv'
  <2>1. PICK phase \in {"saveSession", "reported"} :
          Begins("divergence", "divergence", phase, workflow, 0)
    BY <1>5 DEF ReceiveDivergence
  <2>2. /\ ~Busy("divergence") /\ UNCHANGED <<workflow, versions, faults>>
        /\ phase \in Phases \ {"create", "insertResult", "update"} /\ phase # "insert"
    BY <1>2, <1>5 DEF ReceiveDivergence, Takes
  <2> QED BY <1>1, <2>1, <2>2, QuietBegins
<1>6. CASE HandleResult
  <2>1. OthersStay("result") /\ Busy("result")
    BY <1>6, ResultTurns
  <2>2. CASE ReadNewest
    <3>1. /\ job["result"].phase = "latest" /\ UNCHANGED <<workflow, versions, alone, faults>>
          /\ job'["result"].phase = "insertResult"
          /\ job'["result"].next = Cardinality(versions) + 1
      <4> DEFINE n == Newest + 1
      <4>1. /\ job' = [job EXCEPT !["result"].phase = "insertResult", !["result"].next = n]
            /\ n = Cardinality(versions) + 1 /\ n \in Nat
        BY <1>1, <2>2, NewestIsCount DEF ReadNewest, WorkflowInv
      <4>2. job["result"].phase = "latest" /\ UNCHANGED <<workflow, versions, alone, faults>>
        BY <2>2 DEF ReadNewest
      <4> HIDE DEF n
      <4>3. "insertResult" \in Phases
        BY DEF Phases
      <4> QED BY <1>1, <4>1, <4>2, <4>3, NumbersMeans, NumberIsHeld
    <3>2. Numbers("result")' /\ (UpToDate("result") => UpToDate("result")')
      BY <3>1 DEF Numbers, UpToDate, Ahead
    <3> QED BY <1>1, <2>1, <3>1, <3>2, QuietMoves
  <2>3. CASE InsertResult
    <3>1. /\ job["result"].phase = "insertResult" /\ NumberFree(job["result"].next)
          /\ versions' = Inserted("result") /\ UNCHANGED <<alone, faults>>
      BY <2>3 DEF InsertResult
    <3>2. /\ job["result"].next = Cardinality(versions) + 1
          /\ Cardinality(versions') = Cardinality(versions) + 1
      BY <1>1, <3>1, VersionInserted
    <3>3. job'["result"].phase = "save" /\ job'["result"].copy.current = job["result"].next
      <4> DEFINE c == [status |-> "pending_review", current |-> job["result"].next]
                 new == [job["result"] EXCEPT !.phase = "save", !.copy = c]
      <4>1. job' = [job EXCEPT !["result"] = new] /\ c.current = job["result"].next
        BY <1>1, <2>3 DEF InsertResult
      <4> HIDE DEF c
      <4>2. new.phase = "save" /\ new.copy = c
        BY <1>1 DEF Job
      <4> HIDE DEF new
      <4>3. job'["result"] = new
        BY <1>1, <4>1
      <4> QED BY <4>1, <4>2, <4>3
    <3>4. versions' # {}
      BY <3>1 DEF Inserted
    <3>5. Numbers("result")' /\ UpToDate("result")'
      BY <3>2, <3>3, <3>4 DEF Numbers, UpToDate, Ahead
    <3> QED BY <1>1, <2>1, <3>1, <3>5, QuietMoves
  <2>4. CASE InsertResultRefused \/ Report
    <3>1. /\ job' = [job EXCEPT !["result"] = NoJob]
          /\ UNCHANGED <<workflow, versions, alone, faults>>
          /\ job["result"].phase \in {"insertResult", "report"}
      BY <2>4 DEF InsertResultRefused, Report, Throws, Acks
    <3> QED BY <1>1, <1>3, <2>1, <3>1, QuietPlain
  <2>5. CASE Diff("result")
    BY <1>1, <2>5, QuietDiffs
  <2>6. CASE SaveResult \/ SaveResultThenThrow
    <3>1. /\ job["result"].phase = "update" /\ UNCHANGED <<versions, alone, faults>>
          /\ workflow' = Saved(workflow, job["result"].copy, job["result"].dirty)
          /\ Goes("result", "saveSession") \/ job' = [job EXCEPT !["result"] = NoJob]
      BY <2>6 DEF SaveResult, SaveResultThenThrow, Throws
    <3>2. job'["result"].phase \notin Special
      BY <1>1, <1>2, <1>3, <3>1, GoesMeans
    <3> QED BY <1>1, <2>1, <3>1, <3>2, QuietSaves
  <2>7. CASE \/ DiffSession("result") \/ SaveSessionOfResult
             \/ DiffExecution("result") \/ CompleteExecution
    <3>1. PICK phase \in {"updateSession", "complete", "updateExecution", "report"} :
            Goes("result", phase)
      BY <2>7 DEF DiffSession, SaveSessionOfResult, DiffExecution, CompleteExecution
    <3>2. /\ UNCHANGED <<workflow, versions, alone, faults>>
          /\ job["result"].phase \notin {"create", "save", "update"}
      BY <2>7 DEF DiffSession, SaveSessionOfResult, DiffExecution, CompleteExecution,
                  ExecutionSaved
    <3>3. job'["result"].phase \notin Special
      BY <1>1, <1>2, <3>1, GoesMeans
    <3> QED BY <1>1, <2>1, <3>2, <3>3, QuietPlain
  <2> QED BY <1>6, <2>2, <2>3, <2>4, <2>5, <2>6, <2>7 DEF HandleResult
<1>7. CASE DiffSession("divergence") \/ SaveDivergence \/ AckDivergence
  <2>1. OthersStay("divergence") /\ Busy("divergence")
    BY <1>7, DivergenceTurns
  <2>2. /\ UNCHANGED <<workflow, versions, alone, faults>>
        /\ job["divergence"].phase \notin {"create", "save", "update"}
    BY <1>7 DEF DiffSession, SaveDivergence, AckDivergence
  <2>3. CASE AckDivergence
    BY <1>1, <1>3, <2>1, <2>2, <2>3, QuietPlain DEF AckDivergence, Acks
  <2>4. CASE DiffSession("divergence") \/ SaveDivergence
    <3>1. PICK phase \in {"updateSession", "reported"} : Goes("divergence", phase)
      BY <2>4 DEF DiffSession, SaveDivergence
    <3>2. job'["divergence"].phase \notin Special
      BY <1>1, <1>2, <3>1, GoesMeans
    <3> QED BY <1>1, <2>1, <2>2, <3>2, QuietPlain
  <2> QED BY <1>7, <2>3, <2>4
<1> QED BY <1>4, <1>5, <1>6, <1>7

LEMMA QuietStep == QuietInv /\ WorkflowInv /\ ExecutionsOK /\ [Next]_vars => QuietInv'
<1> SUFFICES ASSUME QuietInv, WorkflowInv, ExecutionsOK, [Next]_vars PROVE QuietInv'
  OBVIOUS
<1>1. ASSUME Fault PROVE QuietInv'
  <2>1. faults \in Nat /\ faults' = faults + 1
    BY <1>1, WorkflowsAssumption DEF Fault, WorkflowInv, WorkflowTypeOK
  <2>2. faults' # 0
    BY <2>1
  <2> QED BY <2>2 DEF QuietInv, Quiet
<1>2. CASE \/ \E q \in Requests : RequestFails(q)
           \/ \E l \in Loops : HandlerFails(l)
           \/ Crash
  BY <1>1, <1>2 DEF RequestFails, HandlerFails, Crash
<1>3. ASSUME NEW q \in Requests, OfWorkflow(q) PROVE QuietInv'
  BY <1>3, QuietWorkflowRequest
<1>4. ASSUME NEW q \in Requests, SessionRequest(q) PROVE QuietInv'
  BY <1>4, QuietSessionRequest
<1>5. CASE \/ UNCHANGED vars \/ \E l \in Loops, t \in Tasks : WorkerAnswers(l, t)
           \/ \E t \in Tasks : SkipResult(t) \/ SkipDivergence(t)
  <2>1. UNCHANGED <<workflow, versions, job, alone, faults>>
    BY <1>5 DEF vars, workflowVars, WorkerAnswers, SkipResult, SkipDivergence
  <2> QED BY <2>1 DEF QuietInv, Quiet, Numbers, UpToDate, Ahead, Busy
<1>6. CASE \/ \E t \in Tasks : ReceiveResult(t) \/ ReceiveDivergence(t)
           \/ HandleResult \/ DiffSession("divergence") \/ SaveDivergence \/ AckDivergence
  BY <1>6, QuietLoops
<1> QED BY <1>2, <1>3, <1>4, <1>5, <1>6 DEF Next

-------------------------------------------------------------------------------
(* The theorems. *)

SessionsInv ==
  WorkflowInv /\ QueuesInv /\ TasksInv /\ SessionInv /\ LedgerInv /\ QuietInv

LEMMA SessionsInit == Init => SessionsInv
<1> SUFFICES ASSUME Init PROVE SessionsInv
  OBVIOUS
<1>1. PICK owner \in Requests :
        job = [w \in Writers |-> IF w = owner THEN [NoJob EXCEPT !.kind = "create",
                                                     !.phase = "create", !.next = 1]
                                 ELSE NoJob]
  BY DEF Init, WorkflowInit
<1> DEFINE new == [NoJob EXCEPT !.kind = "create", !.phase = "create", !.next = 1]
<1>2. /\ new \in Job /\ new.phase = "create" /\ new.kind = "create" /\ new.next = 1
      /\ NoJob.phase = "idle" /\ NoJob \in Job
  <2>1. NoJob \in Job /\ NoJob.phase = "idle"
    BY NoJobIsJob DEF NoJob
  <2> QED BY <2>1 DEF Job, Phases
<1> HIDE DEF new
<1>3. /\ owner \in Writers /\ job[owner] = new /\ \A w \in Writers \ {owner} : job[w] = NoJob
      /\ job \in [Writers -> Job] /\ owner \notin Loops
  <2>1. owner \in Writers /\ owner \notin Loops
    BY WriterNames
  <2> QED BY <1>1, <1>2, <2>1 DEF new
<1>4. workflow = NewRow /\ versions = {} /\ alone = [w \in Writers |-> TRUE] /\ faults = 0
  BY DEF Init, WorkflowInit
<1>5. workflow \in Row /\ workflow.current = 0 /\ Cardinality(versions) = 0 /\ IsFiniteSet(versions)
  BY <1>4, NoJobIsJob, FS_EmptySet DEF NewRow
<1>6. WorkflowInv
  <2>1. VersionsDense
    <3>1. {v.number : v \in versions} = {} /\ 1..0 = {} /\ 0 \in 0..0
      BY <1>4
    <3> QED BY <1>5, <3>1 DEF VersionsDense
  <2>2. WorkflowTypeOK
    <3>1. faults \in 0..MaxFaults /\ versions \subseteq Version /\ alone \in [Writers -> BOOLEAN]
      BY <1>4, WorkflowsAssumption
    <3> QED BY <1>3, <1>5, <3>1 DEF WorkflowTypeOK
  <2>3. WriterOK(owner)
    BY <1>2, <1>3, <1>5 DEF WriterOK
  <2>4. \A w \in Writers \ {owner} : WriterOK(w)
    BY <1>2, <1>3 DEF WriterOK
  <2> QED BY <1>5, <2>1, <2>2, <2>3, <2>4 DEF WorkflowInv
<1>7. \A w \in Writers \ {owner} : ~Busy(w) /\ job[w].phase = "idle"
  BY <1>2, <1>3 DEF Busy
<1>8. QueuesInv
  <2>1. NoMessage \in Message /\ 0 \in 0..MaxExecutions
    BY SessionsAssumption DEF NoMessage, Message
  <2>2. QueueTypes
    BY <2>1 DEF Init, QueueTypes
  <2>3. ASSUME NEW l \in Loops, NEW t \in Tasks PROVE MessageOK(l, t)
    <3>1. msg[l][t] = NoMessage
      BY DEF Init
    <3> QED BY <3>1, SessionsAssumption DEF MessageOK, NoMessage
  <2>4. \A l \in Loops : ~Busy(l)
    BY <1>3, <1>7, WriterNames
  <2> QED BY <2>2, <2>3, <2>4 DEF QueuesInv, Init
<1>9. TasksInv
  <2>1. Posted = {}
    BY <1>2, <1>3, <1>7, WriterNames DEF Posted
  <2>2. executions = <<>> /\ published = {}
    BY DEF Init
  <2>3. ExecutionsOK /\ Len(executions) = 0
    BY <2>2 DEF ExecutionsOK
  <2>4. Len(executions) + Cardinality(Posted) <= MaxExecutions
    BY <2>1, <2>3, FS_EmptySet, SessionsAssumption
  <2> QED BY <1>2, <1>3, <1>7, <2>2, <2>3, <2>4, WriterNames DEF TasksInv
<1>10. SessionInv
  <2>1. NewSession \in SessionRow
    BY DEF NewSession, SessionRow, SessionStatus
  <2>2. SessionTypes
    BY <2>1 DEF Init, SessionTypes
  <2>3. session.status = "created"
    BY DEF Init, NewSession
  <2> QED BY <2>2, <2>3 DEF SessionInv, ArchivedOK
<1>11. QuietInv
  <2>1. Numbers(owner) /\ UpToDate(owner)
    BY <1>2, <1>3, <1>5 DEF Numbers, UpToDate
  <2>2. \A w \in Writers \ {owner} : Numbers(w)
    BY <1>7 DEF Numbers
  <2> QED BY <1>3, <1>7, <2>1, <2>2 DEF QuietInv
<1>12. LedgerInv
  <2>1. /\ executions = <<>> /\ published = {} /\ applied = {} /\ handled = {}
        /\ \A t \in Tasks : msg["result"][t].state = "none"
    BY WriterNames DEF Init, NoMessage
  <2>2. \A w \in Writers : job[w].phase \in {"create", "idle"}
    BY <1>2, <1>3
  <2>3. DispatchInv /\ AnswersInv
    BY <2>1, <2>2, WriterNames DEF DispatchInv, AnswersInv, Dispatching
  <2>4. ~Busy("result")
    BY <1>3, <1>7, WriterNames
  <2> QED BY <2>3, <2>4 DEF LedgerInv, CurrentInv
<1> QED BY <1>6, <1>8, <1>9, <1>10, <1>11, <1>12 DEF SessionsInv

LEMMA SessionsStep == SessionsInv /\ [Next]_vars => SessionsInv'
<1> SUFFICES ASSUME SessionsInv, [Next]_vars PROVE SessionsInv'
  OBVIOUS
<1>1. /\ WorkflowInv /\ QueuesInv /\ TasksInv /\ SessionInv /\ LedgerInv /\ QuietInv
      /\ ExecutionsOK
  BY DEF SessionsInv, TasksInv
<1>2. Len(executions) <= MaxExecutions
  BY <1>1, TasksAreBounded
<1> QED BY <1>1, <1>2, WorkflowStep, QueuesStep, TasksStep, SessionStep, LedgerStep,
        QuietStep
        DEF SessionsInv

LEMMA SessionsInvariance == Spec => []SessionsInv
<1> QED BY SessionsInit, SessionsStep, PTL DEF Spec

\* The rows, the queues and the writers' places stay in their ranges: whatever is published
\* has an execution, and no message is delivered more than max_deliver times.
THEOREM TypeCorrect == Spec => []TypeOK
<1>1. ASSUME SessionsInv PROVE TypeOK
  <2>1. Len(executions) <= MaxExecutions
    BY <1>1, TasksAreBounded DEF SessionsInv
  <2> QED BY <1>1, <2>1 DEF SessionsInv, WorkflowInv, QueuesInv, QueueTypes, TasksInv,
                            ExecutionsOK, SessionInv, SessionTypes, TypeOK
<1> QED BY <1>1, SessionsInvariance, PTL

\* Version numbers are 1, 2, 3, ... without a gap or a duplicate, from whichever stale number
\* create(), a PATCH, a commit or the result of a task inserts them and whichever of them dies on
\* the way, and current_version is one of them or the 0 create() starts from; it is the newest one
\* as long as no writers overlapped and nothing failed.
THEOREM VersionsAreSound == Spec => []VersionsSound
<1>1. ASSUME SessionsInv PROVE VersionsSound
  BY <1>1, QuietMeansNewest DEF SessionsInv, WorkflowInv, VersionsSound
<1> QED BY <1>1, SessionsInvariance, PTL

\* GenerationCompleteHandler and RetryExhaustedHandler: an acknowledged result was applied, or
\* dropped because one was handled before under the very id it was attributed to; one that was
\* given up has its dead letter, unless the process died; and an execution under whose id a result
\* was handled stays completed although publishAiTask() and handle() save copies of its row.
THEOREM EveryResultIsAccountedFor == Spec => []ResultsAccountedFor
<1>1. ASSUME SessionsInv PROVE ResultsAccountedFor
  BY <1>1, LedgerAccounts DEF SessionsInv
<1> QED BY <1>1, SessionsInvariance, PTL

\* Only writers update the row of the session.
LEMMA SessionChanges ==
  ASSUME [Next]_vars, session' # session
  PROVE  \E w \in Writers : job[w].phase = "updateSession" /\ Updated(w)
<1>1. CASE \E q \in Requests : SaveSession(q)
  BY <1>1, WriterNames DEF SaveSession
<1>2. CASE SaveSessionOfResult \/ SaveDivergence
  BY <1>2, WriterNames DEF SaveSessionOfResult, SaveDivergence
<1>3. CASE (\A q \in Requests : ~SaveSession(q)) /\ ~SaveSessionOfResult /\ ~SaveDivergence
  <2>1. ASSUME NEW q \in Requests, SessionRequest(q) \/ RequestFails(q) PROVE session' = session
    BY <1>3, <2>1 DEF SessionRequest, RequestFails, Finalize, Delete, UpdateMode, Override,
         PostMessage, SaveExecution, PublishTask, DiffExecution, NameExecution, DiffSession, Rest,
         sessionVars
  <2>2. ASSUME \/ \E q \in Requests : OfWorkflow(q) /\ UNCHANGED sessionVars
               \/ UNCHANGED vars \/ Crash
               \/ \E l \in Loops : HandlerFails(l) \/ \E t \in Tasks : WorkerAnswers(l, t)
        PROVE  session' = session
    BY <2>2 DEF sessionVars, vars, Crash, HandlerFails, WorkerAnswers
  <2>3. ASSUME NEW t \in Tasks,
               SkipResult(t) \/ ReceiveResult(t) \/ SkipDivergence(t) \/ ReceiveDivergence(t)
        PROVE  session' = session
    BY <2>3 DEF SkipResult, ReceiveResult, SkipDivergence, ReceiveDivergence
  <2>4. ASSUME HandleResult \/ DiffSession("divergence") \/ AckDivergence
        PROVE  session' = session
    BY <1>3, <2>4 DEF HandleResult, ReadNewest, InsertResult, InsertResultRefused, SaveResult,
         SaveResultThenThrow, DiffSession, DiffExecution, CompleteExecution, Report,
         AckDivergence, sessionVars
  <2> QED BY <1>3, <2>1, <2>2, <2>3, <2>4 DEF Next
<1> QED BY <1>1, <1>2, <1>3

\* session-fsm.ts and the handlers: an archived session comes back only through a writer that
\* was at work when it was archived, a divergence result or an override.
THEOREM ArchivedSessionsStay == Spec => ArchivedStays
<1>1. ASSUME SessionsInv, [Next]_vars
      PROVE  [session.status = "archived" /\ session'.status # "archived"
                => \E w \in Writers : /\ job[w].phase = "updateSession"
                                      /\ w \in stale \/ job[w].kind \in {"override", "divergence"}
             ]_vars
  <2>1. SUFFICES ASSUME session.status = "archived", session'.status # "archived"
                 PROVE  \E w \in Writers :
                          /\ job[w].phase = "updateSession"
                          /\ w \in stale \/ job[w].kind \in {"override", "divergence"}
    OBVIOUS
  <2>2. PICK w \in Writers : job[w].phase = "updateSession" /\ Updated(w)
    BY <1>1, <2>1, SessionChanges
  <2>3. SessionInv
    BY <1>1 DEF SessionsInv
  <2>4. w \in stale \/ job[w].kind \in {"override", "divergence"}
    BY <2>1, <2>2, <2>3, UpdateMeans
  <2> QED BY <2>2, <2>4
<1> QED BY <1>1, SessionsInvariance, PTL DEF Spec, ArchivedStays
===============================================================================
