---------------------------- MODULE AiTasksProofs ----------------------------
(***************************************************************************)
(* Proofs about AiTasks for any set of tasks, any subset of event kinds,   *)
(* any delivery limit and any number of faults.                            *)
(***************************************************************************)
EXTENDS AiTasks, TLAPS

\* The statuses a writer can put into its copy of the row.
WrittenBy(w) ==
  CASE w = "started"   -> {"running"}
    [] w = "progress"  -> {"running", "waiting_for_user"}
    [] w = "cancelled" -> {"cancelled"}
    [] w = "completed" -> {"completed", "stale"}
    [] w = "failed"    -> {"failed", "stale"}
    [] OTHER           -> {"superseded"}

\* Tasks and reservations are created together.
RowReserved == \A t \in Tasks : row[t].status = "absent" <=> reservation[t] = "none"

\* The worker knows only tasks that were created.
SentExists == \A t \in Tasks, k \in Kinds : msg[t][k] # "none" => row[t].status # "absent"

\* A busy writer works on an existing task.
WriterOK == \A w \in Writers :
  phase[w] # "idle" => job[w] \in Tasks /\ row[job[w]].status # "absent"

\* A copy holds a status its writer writes; "stale" and a full progress bar are
\* only written where the reservation is settled, before or by the same write.
EntityOK == \A w \in Writers : phase[w] # "idle" =>
  /\ entity[w].status \in WrittenBy(w)
  /\ entity[w].status = "stale" => reservation[job[w]] # "reserved"
  /\ entity[w].progress >= 100 => \/ entity[w].status = "completed"
                                  \/ reservation[job[w]] # "reserved"

\* A message that may still be delivered has deliveries left.
DeliveriesLeft == \A t \in Tasks, k \in Kinds :
  msg[t][k] \in {"none", "queued"} => deliveries[t][k] < MaxDeliver

\* An event is written only by the one delivery that consumed its token.
TokenOK ==
  /\ \A t \in Tasks, k \in Kinds : ~jtiUsed[t][k] => applied[t][k] = 0
  /\ \A k \in Kinds : phase[k] \in {"loaded", "saving"} =>
       jtiUsed[job[k]][k] /\ applied[job[k]][k] = 0

\* Notifications follow a committed outcome of an existing task.
NotifyOK ==
  /\ \A t \in notified : row[t].status # "absent"
  /\ \A k \in Kinds : phase[k] = "notifying" =>
       /\ k \in {"completed", "failed"}
       /\ reservation[job[k]] # "reserved"
       /\ applied[job[k]][k] = 1

TasksInv == /\ TypeOK /\ RowReserved /\ SentExists /\ WriterOK /\ EntityOK /\ DeliveriesLeft
            /\ TokenOK /\ NotifyOK
            /\ TerminalIsSettled /\ FullProgressIsSettled /\ AppliedAtMostOnce
            /\ NotifiedIsSettled



USE AiTasksAssumption DEF AllKinds, Writers, queue, writer

\* Changing the status of a row leaves a row with the same progress.
LEMMA RowStatus ==
  ASSUME NEW r \in Row, NEW s \in JobStatus
  PROVE  /\ [r EXCEPT !.status = s] \in Row
         /\ [r EXCEPT !.status = s].status = s
         /\ [r EXCEPT !.status = s].progress = r.progress
BY DEF Row

\* A cancelled event changes the status of the copy and nothing else.
LEMMA EditedCancelled ==
  ASSUME NEW r, NEW v
  PROVE  Edited("cancelled", r, v) = [r EXCEPT !.status = "cancelled"]
BY DEF Edited

\* What an edited copy can hold.
LEMMA EditedFacts ==
  ASSUME NEW k \in Kinds, NEW r \in Row, NEW v \in Nat,
         r.status # "absent", Applicable(k, r.status)
  PROVE  /\ Edited(k, r, v) \in Row
         /\ Edited(k, r, v).status \in WrittenBy(k)
         /\ Edited(k, r, v).status = "stale" => r.status = "superseded"
         /\ Edited(k, r, v).progress >= 100 =>
              Edited(k, r, v).status = "completed" \/ r.progress >= 100
<1> USE DEF Edited, WrittenBy, Applicable, Row, JobStatus, Terminal, Max2
<1>1. CASE k = "started"
  BY <1>1
<1>2. CASE k = "progress"
  BY <1>2
<1>3. CASE k = "cancelled"
  <2> HIDE DEF Edited
  <2>1. Edited(k, r, v) = [r EXCEPT !.status = "cancelled"]
    BY <1>3, EditedCancelled
  <2>2. WrittenBy(k) = {"cancelled"}
    BY <1>3
  <2> QED
    BY <2>1, <2>2, RowStatus
<1>4. CASE k = "completed"
  BY <1>4
<1>5. CASE k = "failed"
  BY <1>5
<1> QED
  BY <1>1, <1>2, <1>3, <1>4, <1>5

\* An update takes each column from the copy or leaves it.
LEMMA SavedFacts ==
  ASSUME NEW r \in Row, NEW e \in Row, NEW cols
  PROVE  /\ Saved(r, e, cols) \in Row
         /\ Saved(r, e, cols).status \in {r.status, e.status}
         /\ Saved(r, e, cols).progress \in {r.progress, e.progress}
BY DEF Saved, Row

\* Settling happens at most once, and a final status always settles.
LEMMA OutcomeFacts ==
  ASSUME NEW r \in Settlement, NEW e \in Row
  PROVE  /\ OutcomeOf(r, e) \in Settlement
         /\ r # "reserved" => OutcomeOf(r, e) = r
         /\ OutcomeOf(r, e) = "none" => r = "none"
         /\ e.status \in {"completed", "failed", "cancelled", "superseded"} =>
              OutcomeOf(r, e) # "reserved"
BY DEF OutcomeOf, Settle, Settlement

\* A writer never removes a row.
LEMMA WrittenStatus ==
  ASSUME NEW w \in Writers, NEW s \in WrittenBy(w)
  PROVE  s # "absent" /\ (s \in {"completed", "failed"} => s = w)
BY DEF WrittenBy

\* What the write of any writer does to the tables: it moves the row and settles
\* the reservation so that the two still fit.
LEMMA WriteFacts ==
  ASSUME TasksInv, NEW w \in Writers, phase[w] = "saving",
         row' = [row EXCEPT ![job[w]] = Saved(@, entity[w], dirty[w])],
         reservation' = [reservation EXCEPT ![job[w]] = OutcomeOf(@, entity[w])]
  PROVE  /\ row' \in [Tasks -> Row] /\ reservation' \in [Tasks -> Settlement]
         /\ \A u \in Tasks : row'[u].status = "absent" <=> row[u].status = "absent"
         /\ \A u \in Tasks : reservation[u] # "reserved" => reservation'[u] = reservation[u]
         /\ entity[w].status \in {"completed", "failed"} => reservation'[job[w]] # "reserved"
         /\ RowReserved' /\ TerminalIsSettled' /\ FullProgressIsSettled'
<1> DEFINE t == job[w]
           e == entity[w]
<1>1. t \in Tasks /\ row[t].status # "absent" /\ reservation[t] # "none"
  BY DEF TasksInv, WriterOK, RowReserved
<1>2. row[t] \in Row /\ e \in Row /\ reservation[t] \in Settlement
  BY <1>1 DEF TasksInv, TypeOK
<1>3. /\ row'[t] \in Row
      /\ row'[t].status \in {row[t].status, e.status}
      /\ row'[t].progress \in {row[t].progress, e.progress}
  BY <1>1, <1>2, SavedFacts DEF TasksInv, TypeOK
<1>4. /\ reservation'[t] \in Settlement
      /\ reservation[t] # "reserved" => reservation'[t] = reservation[t]
      /\ reservation'[t] # "none"
      /\ e.status \in {"completed", "failed", "cancelled", "superseded"} =>
           reservation'[t] # "reserved"
  BY <1>1, <1>2, OutcomeFacts DEF TasksInv, TypeOK
<1>5. \A u \in Tasks : u # t => row'[u] = row[u] /\ reservation'[u] = reservation[u]
  BY DEF TasksInv, TypeOK
<1>6. e.status # "absent"
  BY WrittenStatus DEF TasksInv, EntityOK
<1>7. /\ e.status = "stale" => reservation[t] # "reserved"
      /\ e.progress >= 100 => e.status = "completed" \/ reservation[t] # "reserved"
  BY DEF TasksInv, EntityOK
<1>8. row' \in [Tasks -> Row] /\ reservation' \in [Tasks -> Settlement]
  BY <1>1, <1>3, <1>4 DEF TasksInv, TypeOK
<1>9. \A u \in Tasks : row'[u].status = "absent" <=> row[u].status = "absent"
  BY <1>1, <1>3, <1>5, <1>6
<1>10. RowReserved'
  BY <1>1, <1>4, <1>5, <1>9 DEF TasksInv, RowReserved
<1>11. TerminalIsSettled'
  BY <1>3, <1>4, <1>5, <1>7 DEF TasksInv, TerminalIsSettled, Terminal
<1>12. FullProgressIsSettled'
  BY <1>3, <1>4, <1>5, <1>7 DEF TasksInv, FullProgressIsSettled
<1> QED
  BY <1>4, <1>5, <1>8, <1>9, <1>10, <1>11, <1>12

\* The inductive invariant holds before any task exists.
LEMMA InvInit == Init => TasksInv
BY DEF Init, TasksInv, TypeOK, RowReserved, SentExists, WriterOK, EntityOK, DeliveriesLeft, TokenOK,
       NotifyOK, TerminalIsSettled, FullProgressIsSettled, AppliedAtMostOnce,
       NotifiedIsSettled, NoRow, Row, Settlement, MsgState, Phase, Terminal

\* A new task starts pending with its quota reserved (AiTasksService.create).
LEMMA InvCreate ==
  ASSUME TasksInv, NEW t \in Tasks, Create(t)
  PROVE  TasksInv'
<1> USE DEF TasksInv, Create, NoRow, Row, JobStatus
<1>0. \A w \in Writers : phase[w] # "idle" => job[w] # t
  BY DEF WriterOK
<1>1. TypeOK'
  BY DEF TypeOK, Settlement, MsgState, Phase, DeliveriesLeft
<1>2. RowReserved'
  BY DEF RowReserved, TypeOK, WriterOK
<1>3. SentExists'
  BY DEF SentExists, TypeOK, WriterOK
<1>4. WriterOK'
  BY DEF WriterOK, TypeOK, EntityOK
<1>5. EntityOK'
  BY DEF EntityOK, TypeOK, WriterOK, RowReserved
<1>6. DeliveriesLeft'
  BY DEF DeliveriesLeft, TypeOK
<1>7. TokenOK'
  BY DEF TokenOK, TypeOK, WriterOK
<1>8. NotifyOK'
  BY <1>0 DEF NotifyOK, TypeOK
<1>9. TerminalIsSettled'
  BY DEF TerminalIsSettled, TypeOK, EntityOK, WriterOK, Terminal
<1>10. FullProgressIsSettled'
  BY DEF FullProgressIsSettled, TypeOK, EntityOK, WriterOK
<1>11. AppliedAtMostOnce'
  BY DEF AppliedAtMostOnce, TypeOK, TokenOK
<1>12. NotifiedIsSettled'
  BY DEF NotifiedIsSettled, TypeOK, NotifyOK, WriterOK, RowReserved
<1> QED
  BY <1>1, <1>2, <1>3, <1>4, <1>5, <1>6, <1>7, <1>8, <1>9, <1>10, <1>11, <1>12

\* A cancellation settles the reservation in the transaction that ends the task.
LEMMA InvCancel ==
  ASSUME TasksInv, NEW t \in Tasks, Cancel(t)
  PROVE  TasksInv'
<1> USE DEF TasksInv, Cancel, Settle, Row, JobStatus, Active
<1>1. TypeOK'
  <2>1. [row[t] EXCEPT !.status = "cancelled"] \in Row
    <3>1. row[t] \in Row
      BY DEF TypeOK
    <3> QED
      BY <3>1, RowStatus
  <2> QED
    BY <2>1 DEF TypeOK, Settlement
<1>2. RowReserved'
  BY DEF RowReserved, TypeOK, WriterOK
<1>3. SentExists'
  BY DEF SentExists, TypeOK, WriterOK
<1>4. WriterOK'
  BY DEF WriterOK, TypeOK, EntityOK
<1>5. EntityOK'
  BY DEF EntityOK, TypeOK, WriterOK, RowReserved
<1>6. DeliveriesLeft'
  BY DEF DeliveriesLeft, TypeOK
<1>7. TokenOK'
  BY DEF TokenOK, TypeOK, WriterOK
<1>8. NotifyOK'
  BY DEF NotifyOK, TypeOK, TokenOK, WriterOK, EntityOK, RowReserved
<1>9. TerminalIsSettled'
  BY DEF TerminalIsSettled, TypeOK, EntityOK, WriterOK, Terminal
<1>10. FullProgressIsSettled'
  BY DEF FullProgressIsSettled, TypeOK, EntityOK, WriterOK
<1>11. AppliedAtMostOnce'
  BY DEF AppliedAtMostOnce, TypeOK, TokenOK
<1>12. NotifiedIsSettled'
  BY DEF NotifiedIsSettled, TypeOK, NotifyOK, WriterOK, RowReserved
<1> QED
  BY <1>1, <1>2, <1>3, <1>4, <1>5, <1>6, <1>7, <1>8, <1>9, <1>10, <1>11, <1>12

\* An event on its way changes neither rows nor reservations.
LEMMA InvWorkerSends ==
  ASSUME TasksInv, NEW t \in Tasks, NEW k \in Kinds, WorkerSends(t, k)
  PROVE  TasksInv'
<1> USE DEF TasksInv, WorkerSends
<1>1. TypeOK'
  BY DEF TypeOK, Settlement, MsgState, Phase, NoRow, Row, JobStatus, DeliveriesLeft
<1>2. RowReserved'
  BY DEF RowReserved, TypeOK, WriterOK
<1>3. SentExists'
  BY DEF SentExists, TypeOK, WriterOK
<1>4. WriterOK'
  BY DEF WriterOK, TypeOK, EntityOK
<1>5. EntityOK'
  BY DEF EntityOK, TypeOK, WriterOK, RowReserved
<1>6. DeliveriesLeft'
  BY DEF DeliveriesLeft, TypeOK
<1>7. TokenOK'
  BY DEF TokenOK, TypeOK, WriterOK
<1>8. NotifyOK'
  BY DEF NotifyOK, TypeOK, TokenOK, WriterOK, EntityOK, RowReserved
<1>9. TerminalIsSettled'
  BY DEF TerminalIsSettled, TypeOK, EntityOK, WriterOK, Terminal
<1>10. FullProgressIsSettled'
  BY DEF FullProgressIsSettled, TypeOK, EntityOK, WriterOK
<1>11. AppliedAtMostOnce'
  BY DEF AppliedAtMostOnce, TypeOK, TokenOK
<1>12. NotifiedIsSettled'
  BY DEF NotifiedIsSettled, TypeOK, NotifyOK, WriterOK, RowReserved
<1> QED
  BY <1>1, <1>2, <1>3, <1>4, <1>5, <1>6, <1>7, <1>8, <1>9, <1>10, <1>11, <1>12

\* A delivery refused for its used token changes no row.
LEMMA InvReceiveReplay ==
  ASSUME TasksInv, NEW t \in Tasks, NEW k \in Kinds, ReceiveReplay(t, k)
  PROVE  TasksInv'
<1> USE DEF TasksInv, ReceiveReplay, AfterError
<1>1. TypeOK'
  BY DEF TypeOK, Settlement, MsgState, Phase, NoRow, Row, JobStatus, DeliveriesLeft
<1>2. RowReserved'
  BY DEF RowReserved, TypeOK, WriterOK
<1>3. SentExists'
  BY DEF SentExists, TypeOK, WriterOK
<1>4. WriterOK'
  BY DEF WriterOK, TypeOK, EntityOK
<1>5. EntityOK'
  BY DEF EntityOK, TypeOK, WriterOK, RowReserved
<1>6. DeliveriesLeft'
  BY DEF DeliveriesLeft, TypeOK
<1>7. TokenOK'
  BY DEF TokenOK, TypeOK, WriterOK
<1>8. NotifyOK'
  BY DEF NotifyOK, TypeOK, TokenOK, WriterOK, EntityOK, RowReserved
<1>9. TerminalIsSettled'
  BY DEF TerminalIsSettled, TypeOK, EntityOK, WriterOK, Terminal
<1>10. FullProgressIsSettled'
  BY DEF FullProgressIsSettled, TypeOK, EntityOK, WriterOK
<1>11. AppliedAtMostOnce'
  BY DEF AppliedAtMostOnce, TypeOK, TokenOK
<1>12. NotifiedIsSettled'
  BY DEF NotifiedIsSettled, TypeOK, NotifyOK, WriterOK, RowReserved
<1> QED
  BY <1>1, <1>2, <1>3, <1>4, <1>5, <1>6, <1>7, <1>8, <1>9, <1>10, <1>11, <1>12

\* A delivery about a finished task is acknowledged without an effect.
LEMMA InvReceiveIgnored ==
  ASSUME TasksInv, NEW t \in Tasks, NEW k \in Kinds, ReceiveIgnored(t, k)
  PROVE  TasksInv'
<1> USE DEF TasksInv, ReceiveIgnored, TokenAccepted
<1>1. TypeOK'
  BY DEF TypeOK, Settlement, MsgState, Phase, NoRow, Row, JobStatus, DeliveriesLeft
<1>2. RowReserved'
  BY DEF RowReserved, TypeOK, WriterOK
<1>3. SentExists'
  BY DEF SentExists, TypeOK, WriterOK
<1>4. WriterOK'
  BY DEF WriterOK, TypeOK, EntityOK
<1>5. EntityOK'
  BY DEF EntityOK, TypeOK, WriterOK, RowReserved
<1>6. DeliveriesLeft'
  BY DEF DeliveriesLeft, TypeOK
<1>7. TokenOK'
  BY DEF TokenOK, TypeOK, WriterOK
<1>8. NotifyOK'
  BY DEF NotifyOK, TypeOK, TokenOK, WriterOK, EntityOK, RowReserved
<1>9. TerminalIsSettled'
  BY DEF TerminalIsSettled, TypeOK, EntityOK, WriterOK, Terminal
<1>10. FullProgressIsSettled'
  BY DEF FullProgressIsSettled, TypeOK, EntityOK, WriterOK
<1>11. AppliedAtMostOnce'
  BY DEF AppliedAtMostOnce, TypeOK, TokenOK
<1>12. NotifiedIsSettled'
  BY DEF NotifiedIsSettled, TypeOK, NotifyOK, WriterOK, RowReserved
<1> QED
  BY <1>1, <1>2, <1>3, <1>4, <1>5, <1>6, <1>7, <1>8, <1>9, <1>10, <1>11, <1>12

\* A loaded copy is the row as it was: its edit cannot leave the copy with
\* a final status and an open reservation.
LEMMA InvLoad ==
  ASSUME TasksInv, NEW t \in Tasks, NEW k \in Kinds, Load(t, k)
  PROVE  TasksInv'
<1> USE DEF TasksInv, Load, TokenAccepted
<1>0. PICK v \in Reports : entity' = [entity EXCEPT ![k] = Edited(k, row[t], v)]
  OBVIOUS
<1>a. row[t] \in Row /\ row[t].status # "absent" /\ v \in Nat
  <2>1. row[t] \in Row /\ v \in Nat
    BY DEF TypeOK
  <2> QED
    BY <2>1 DEF SentExists
<1>b. /\ Edited(k, row[t], v) \in Row
      /\ Edited(k, row[t], v).status \in WrittenBy(k)
      /\ Edited(k, row[t], v).status = "stale" => row[t].status = "superseded"
      /\ Edited(k, row[t], v).progress >= 100 =>
           Edited(k, row[t], v).status = "completed" \/ row[t].progress >= 100
  BY <1>a, EditedFacts
<1>1. TypeOK'
  <2>1. entity' \in [Writers -> Row]
    BY <1>0, <1>b DEF TypeOK
  <2>2. deliveries' \in [Tasks -> [Kinds -> 0..MaxDeliver]]
    BY DEF TypeOK, DeliveriesLeft
  <2>3. /\ jtiUsed' \in [Tasks -> [Kinds -> BOOLEAN]]
        /\ msg' \in [Tasks -> [Kinds -> MsgState]]
    BY DEF TypeOK, MsgState
  <2> QED
    BY <2>1, <2>2, <2>3 DEF TypeOK, Phase
<1>2. RowReserved'
  BY DEF RowReserved, TypeOK, WriterOK
<1>3. SentExists'
  BY DEF SentExists, TypeOK, WriterOK
<1>4. WriterOK'
  BY <1>a DEF WriterOK, TypeOK
<1>5. EntityOK'
  <2>1. ASSUME NEW w \in Writers, w # k, phase'[w] # "idle"
        PROVE  phase[w] # "idle" /\ entity'[w] = entity[w] /\ job'[w] = job[w]
    BY <2>1, <1>0 DEF TypeOK
  <2>2. entity'[k] = Edited(k, row[t], v) /\ job'[k] = t
    BY <1>0 DEF TypeOK
  <2>3. row[t].status = "superseded" => reservation[t] # "reserved"
    BY DEF TerminalIsSettled
  <2>4. row[t].progress >= 100 => reservation[t] # "reserved"
    BY DEF FullProgressIsSettled
  <2> QED
    BY <1>b, <2>1, <2>2, <2>3, <2>4 DEF EntityOK
<1>6. DeliveriesLeft'
  BY DEF DeliveriesLeft, TypeOK
<1>7. TokenOK'
  BY DEF TokenOK, TypeOK, WriterOK
<1>8. NotifyOK'
  BY DEF NotifyOK, TypeOK, TokenOK, WriterOK, EntityOK, RowReserved
<1>9. TerminalIsSettled'
  BY DEF TerminalIsSettled, TypeOK, EntityOK, WriterOK, Terminal
<1>10. FullProgressIsSettled'
  BY DEF FullProgressIsSettled, TypeOK, EntityOK, WriterOK
<1>11. AppliedAtMostOnce'
  BY DEF AppliedAtMostOnce, TypeOK, TokenOK
<1>12. NotifiedIsSettled'
  BY DEF NotifiedIsSettled, TypeOK, NotifyOK, WriterOK, RowReserved
<1> QED
  BY <1>1, <1>2, <1>3, <1>4, <1>5, <1>6, <1>7, <1>8, <1>9, <1>10, <1>11, <1>12

\* The superseding request loads an older task the same way.
LEMMA InvLoadForSupersede ==
  ASSUME TasksInv, NEW t \in Tasks, LoadForSupersede(t)
  PROVE  TasksInv'
<1> USE DEF TasksInv, LoadForSupersede, Active, Row, JobStatus
<1>0. /\ [row[t] EXCEPT !.status = "superseded"] \in Row
      /\ [row[t] EXCEPT !.status = "superseded"].status = "superseded"
      /\ [row[t] EXCEPT !.status = "superseded"].progress = row[t].progress
  <2>1. row[t] \in Row
    BY DEF TypeOK
  <2> QED
    BY <2>1, RowStatus
<1>1. TypeOK'
  BY <1>0 DEF TypeOK, Phase
<1>2. RowReserved'
  BY DEF RowReserved, TypeOK, WriterOK
<1>3. SentExists'
  BY DEF SentExists, TypeOK, WriterOK
<1>4. WriterOK'
  BY DEF WriterOK, TypeOK, EntityOK
<1>5. EntityOK'
  <2>1. ASSUME NEW w \in Writers, w # "supersede", phase'[w] # "idle"
        PROVE  phase[w] # "idle" /\ entity'[w] = entity[w] /\ job'[w] = job[w]
    BY <2>1 DEF TypeOK
  <2>2. /\ entity'["supersede"].status = "superseded" /\ job'["supersede"] = t
        /\ entity'["supersede"].progress = row[t].progress
    BY <1>0 DEF TypeOK
  <2>3. row[t].progress >= 100 => reservation[t] # "reserved"
    BY DEF FullProgressIsSettled
  <2>4. WrittenBy("supersede") = {"superseded"}
    BY DEF WrittenBy
  <2> QED
    BY <2>1, <2>2, <2>3, <2>4 DEF EntityOK
<1>6. DeliveriesLeft'
  BY DEF DeliveriesLeft, TypeOK
<1>7. TokenOK'
  BY DEF TokenOK, TypeOK, WriterOK
<1>8. NotifyOK'
  BY DEF NotifyOK, TypeOK, TokenOK, WriterOK, EntityOK, RowReserved
<1>9. TerminalIsSettled'
  BY DEF TerminalIsSettled, TypeOK, EntityOK, WriterOK, Terminal
<1>10. FullProgressIsSettled'
  BY DEF FullProgressIsSettled, TypeOK, EntityOK, WriterOK
<1>11. AppliedAtMostOnce'
  BY DEF AppliedAtMostOnce, TypeOK, TokenOK
<1>12. NotifiedIsSettled'
  BY DEF NotifiedIsSettled, TypeOK, NotifyOK, WriterOK, RowReserved
<1> QED
  BY <1>1, <1>2, <1>3, <1>4, <1>5, <1>6, <1>7, <1>8, <1>9, <1>10, <1>11, <1>12

\* Comparing a copy with the row changes neither.
LEMMA InvDiff ==
  ASSUME TasksInv, NEW w \in Writers, Diff(w)
  PROVE  TasksInv'
<1> USE DEF TasksInv, Diff, Changed, Columns
<1>1. TypeOK'
  BY DEF TypeOK, Settlement, MsgState, Phase, NoRow, Row, JobStatus, DeliveriesLeft
<1>2. RowReserved'
  BY DEF RowReserved, TypeOK, WriterOK
<1>3. SentExists'
  BY DEF SentExists, TypeOK, WriterOK
<1>4. WriterOK'
  BY DEF WriterOK, TypeOK, EntityOK
<1>5. EntityOK'
  BY DEF EntityOK, TypeOK, WriterOK, RowReserved
<1>6. DeliveriesLeft'
  BY DEF DeliveriesLeft, TypeOK
<1>7. TokenOK'
  BY DEF TokenOK, TypeOK, WriterOK
<1>8. NotifyOK'
  BY DEF NotifyOK, TypeOK, TokenOK, WriterOK, EntityOK, RowReserved
<1>9. TerminalIsSettled'
  BY DEF TerminalIsSettled, TypeOK, EntityOK, WriterOK, Terminal
<1>10. FullProgressIsSettled'
  BY DEF FullProgressIsSettled, TypeOK, EntityOK, WriterOK
<1>11. AppliedAtMostOnce'
  BY DEF AppliedAtMostOnce, TypeOK, TokenOK
<1>12. NotifiedIsSettled'
  BY DEF NotifiedIsSettled, TypeOK, NotifyOK, WriterOK, RowReserved
<1> QED
  BY <1>1, <1>2, <1>3, <1>4, <1>5, <1>6, <1>7, <1>8, <1>9, <1>10, <1>11, <1>12

\* The handler writes its copy over the row and settles in one transaction.
LEMMA InvWrite ==
  ASSUME TasksInv, NEW k \in Kinds, Write(k)
  PROVE  TasksInv'
<1> USE DEF TasksInv, Write, Idle
<1>0. /\ row' \in [Tasks -> Row] /\ reservation' \in [Tasks -> Settlement]
      /\ \A u \in Tasks : row'[u].status = "absent" <=> row[u].status = "absent"
      /\ \A u \in Tasks : reservation[u] # "reserved" => reservation'[u] = reservation[u]
      /\ entity[k].status \in {"completed", "failed"} => reservation'[job[k]] # "reserved"
      /\ RowReserved' /\ TerminalIsSettled' /\ FullProgressIsSettled'
  BY WriteFacts
<1>a. \A v \in Writers : phase'[v] # "idle" =>
        phase[v] # "idle" /\ entity'[v] = entity[v] /\ job'[v] = job[v]
  BY DEF TypeOK
<1>b. \A v \in Writers : phase[v] # "idle" => job[v] \in Tasks
  BY DEF WriterOK
<1>c. msg' = msg \/ msg' = [msg EXCEPT ![job[k]][k] = "done"]
  OBVIOUS
<1>d. job[k] \in Tasks
  BY <1>b
<1>e. TypeOK /\ DeliveriesLeft
  OBVIOUS
<1>1. TypeOK'
  <2>1. NoRow \in Row
    BY DEF NoRow, Row
  <2>2. applied' \in [Tasks -> [Kinds -> Nat]]
    BY <1>d DEF TypeOK
  <2>3. msg' \in [Tasks -> [Kinds -> MsgState]]
    <3> HIDE DEF Write, TasksInv
    <3>1. msg \in [Tasks -> [Kinds -> MsgState]] /\ "done" \in MsgState
      BY <1>e DEF TypeOK, MsgState
    <3> QED
      BY <1>c, <1>d, <3>1
  <2>4. /\ phase' \in [Writers -> Phase] /\ job' \in [Writers -> Tasks \cup {NoTask}]
        /\ entity' \in [Writers -> Row] /\ dirty' \in [Writers -> SUBSET Columns]
    <3>1. \/ /\ \/ phase' = [phase EXCEPT ![k] = "notifying"]
                \/ phase' = [phase EXCEPT ![k] = "reporting"]
             /\ job' = job /\ entity' = entity /\ dirty' = dirty
          \/ Idle(k)
      OBVIOUS
    <3> HIDE DEF Write, TasksInv
    <3>2. CASE Idle(k)
      BY <1>e, <2>1, <3>2 DEF TypeOK, Phase
    <3> QED
      BY <1>e, <3>1, <3>2 DEF TypeOK, Phase
  <2> QED
    BY <1>0, <2>2, <2>3, <2>4 DEF TypeOK
<1>2. RowReserved'
  BY <1>0
<1>3. SentExists'
  BY <1>0, <1>b DEF SentExists, WriterOK, TypeOK
<1>4. WriterOK'
  BY <1>0, <1>a DEF WriterOK
<1>5. EntityOK'
  BY <1>0, <1>a, <1>b DEF EntityOK
<1>6. DeliveriesLeft'
  <2>1. deliveries' = deliveries
    OBVIOUS
  <2> HIDE DEF Write, TasksInv
  <2>2. \A t \in Tasks, j \in Kinds : msg'[t][j] \in {msg[t][j], "done"}
    <3>1. msg \in [Tasks -> [Kinds -> MsgState]]
      BY <1>e DEF TypeOK
    <3>2. CASE msg' = msg
      BY <3>2
    <3>3. CASE msg' = [msg EXCEPT ![job[k]][k] = "done"]
      <4> TAKE t \in Tasks, j \in Kinds
      <4>1. t # job[k] => msg'[t] = msg[t]
        BY <1>d, <3>1, <3>3
      <4>2. msg'[job[k]] = [msg[job[k]] EXCEPT ![k] = "done"]
        BY <1>d, <3>1, <3>3
      <4>3. msg[job[k]] \in [Kinds -> MsgState]
        BY <1>d, <3>1
      <4> QED
        BY <4>1, <4>2, <4>3
    <3> QED
      BY <1>c, <3>2, <3>3
  <2> QED
    BY <1>e, <2>1, <2>2 DEF DeliveriesLeft
<1>7. TokenOK'
  <2>1. \A j \in Kinds : phase'[j] \in {"loaded", "saving"} =>
          j # k /\ phase'[j] = phase[j] /\ job'[j] = job[j]
    BY DEF TypeOK
  <2>2. jtiUsed[job[k]][k]
    BY DEF TokenOK
  <2>3. \A u \in Tasks, j \in Kinds : ~(u = job[k] /\ j = k) => applied'[u][j] = applied[u][j]
    BY DEF TypeOK
  <2> QED
    BY <1>b, <2>1, <2>2, <2>3 DEF TokenOK
<1>8. NotifyOK'
  <2>1. applied[job[k]][k] = 0 /\ job[k] \in Tasks
    BY <1>b DEF TokenOK
  <2>2. applied'[job[k]][k] = 1
    BY <2>1 DEF TypeOK
  <2>3. \A u \in Tasks, j \in Kinds : j # k => applied'[u][j] = applied[u][j]
    BY DEF TypeOK
  <2>4. \A t \in notified' : t \in Tasks /\ row'[t].status # "absent"
    BY <1>0 DEF NotifyOK, TypeOK
  <2>5. ASSUME phase'[k] = "notifying"
        PROVE  /\ k \in {"completed", "failed"} /\ job'[k] = job[k]
               /\ reservation'[job[k]] # "reserved"
    <3>1. entity[k].status \in {"completed", "failed"}
      BY <2>5 DEF TypeOK
    <3>2. k \in {"completed", "failed"}
      BY <3>1, WrittenStatus DEF EntityOK
    <3> QED
      BY <1>0, <1>a, <2>5, <3>1, <3>2
  <2>6. ASSUME NEW j \in Kinds, j # k, phase'[j] = "notifying"
        PROVE  phase[j] = "notifying" /\ job'[j] = job[j]
    BY <2>6 DEF TypeOK
  <2> QED
    BY <1>0, <1>b, <2>2, <2>3, <2>4, <2>5, <2>6 DEF NotifyOK
<1>9. TerminalIsSettled'
  BY <1>0
<1>10. FullProgressIsSettled'
  BY <1>0
<1>11. AppliedAtMostOnce'
  <2>1. applied[job[k]][k] = 0
    BY DEF TokenOK
  <2> QED
    BY <2>1 DEF AppliedAtMostOnce, TypeOK
<1>12. NotifiedIsSettled'
  <2>1. applied[job[k]][k] = 0
    BY DEF TokenOK
  <2>2. \A u \in Tasks, j \in Kinds : applied[u][j] = 1 => applied'[u][j] = 1
    BY <2>1 DEF TypeOK
  <2>3. notified \subseteq Tasks /\ notified' = notified
    BY DEF TypeOK
  <2> QED
    BY <1>0, <2>2, <2>3 DEF NotifiedIsSettled
<1> QED
  BY <1>1, <1>2, <1>3, <1>4, <1>5, <1>6, <1>7, <1>8, <1>9, <1>10, <1>11, <1>12

\* The user is told after the transaction, of a settled task.
LEMMA InvNotify ==
  ASSUME TasksInv, NEW k \in Kinds, Notify(k)
  PROVE  TasksInv'
<1> USE DEF TasksInv, Notify
<1>1. TypeOK'
  <2>1. NoRow \in Row
    BY DEF NoRow, Row
  <2>2. /\ phase' \in [Writers -> Phase] /\ job' \in [Writers -> Tasks \cup {NoTask}]
        /\ entity' \in [Writers -> Row] /\ dirty' \in [Writers -> SUBSET Columns]
    BY <2>1 DEF TypeOK, Phase
  <2>3. job[k] \in Tasks
    BY DEF WriterOK
  <2>4. msg' \in [Tasks -> [Kinds -> MsgState]]
    BY <2>3 DEF TypeOK, MsgState
  <2> QED
    BY <2>2, <2>3, <2>4 DEF TypeOK
<1>2. RowReserved'
  BY DEF RowReserved, TypeOK, WriterOK
<1>3. SentExists'
  BY DEF SentExists, TypeOK, WriterOK
<1>4. WriterOK'
  BY DEF WriterOK, TypeOK, EntityOK
<1>5. EntityOK'
  BY DEF EntityOK, TypeOK, WriterOK, RowReserved
<1>6. DeliveriesLeft'
  BY DEF DeliveriesLeft, TypeOK
<1>7. TokenOK'
  BY DEF TokenOK, TypeOK, WriterOK
<1>8. NotifyOK'
  BY DEF NotifyOK, TypeOK, TokenOK, WriterOK, EntityOK, RowReserved
<1>9. TerminalIsSettled'
  BY DEF TerminalIsSettled, TypeOK, EntityOK, WriterOK, Terminal
<1>10. FullProgressIsSettled'
  BY DEF FullProgressIsSettled, TypeOK, EntityOK, WriterOK
<1>11. AppliedAtMostOnce'
  BY DEF AppliedAtMostOnce, TypeOK, TokenOK
<1>12. NotifiedIsSettled'
  BY DEF NotifiedIsSettled, TypeOK, NotifyOK, WriterOK, RowReserved
<1> QED
  BY <1>1, <1>2, <1>3, <1>4, <1>5, <1>6, <1>7, <1>8, <1>9, <1>10, <1>11, <1>12

\* Reporting a stale or completed result changes no row.
LEMMA InvReport ==
  ASSUME TasksInv, NEW k \in Kinds, Report(k)
  PROVE  TasksInv'
<1> USE DEF TasksInv, Report, Idle
<1>1. TypeOK'
  <2>1. NoRow \in Row
    BY DEF NoRow, Row
  <2>2. /\ phase' \in [Writers -> Phase] /\ job' \in [Writers -> Tasks \cup {NoTask}]
        /\ entity' \in [Writers -> Row] /\ dirty' \in [Writers -> SUBSET Columns]
    BY <2>1 DEF TypeOK, Phase
  <2>3. job[k] \in Tasks
    BY DEF WriterOK
  <2>4. msg' \in [Tasks -> [Kinds -> MsgState]]
    BY <2>3 DEF TypeOK, MsgState
  <2> QED
    BY <2>2, <2>3, <2>4 DEF TypeOK
<1>2. RowReserved'
  BY DEF RowReserved, TypeOK, WriterOK
<1>3. SentExists'
  BY DEF SentExists, TypeOK, WriterOK
<1>4. WriterOK'
  BY DEF WriterOK, TypeOK, EntityOK
<1>5. EntityOK'
  BY DEF EntityOK, TypeOK, WriterOK, RowReserved
<1>6. DeliveriesLeft'
  BY DEF DeliveriesLeft, TypeOK
<1>7. TokenOK'
  BY DEF TokenOK, TypeOK, WriterOK
<1>8. NotifyOK'
  BY DEF NotifyOK, TypeOK, TokenOK, WriterOK, EntityOK, RowReserved
<1>9. TerminalIsSettled'
  BY DEF TerminalIsSettled, TypeOK, EntityOK, WriterOK, Terminal
<1>10. FullProgressIsSettled'
  BY DEF FullProgressIsSettled, TypeOK, EntityOK, WriterOK
<1>11. AppliedAtMostOnce'
  BY DEF AppliedAtMostOnce, TypeOK, TokenOK
<1>12. NotifiedIsSettled'
  BY DEF NotifiedIsSettled, TypeOK, NotifyOK, WriterOK, RowReserved
<1> QED
  BY <1>1, <1>2, <1>3, <1>4, <1>5, <1>6, <1>7, <1>8, <1>9, <1>10, <1>11, <1>12

\* The superseding request writes its copy and releases the quota.
LEMMA InvWriteSuperseded ==
  ASSUME TasksInv, WriteSuperseded
  PROVE  TasksInv'
<1> USE DEF TasksInv, WriteSuperseded, Idle
<1>0. /\ row' \in [Tasks -> Row] /\ reservation' \in [Tasks -> Settlement]
      /\ \A u \in Tasks : row'[u].status = "absent" <=> row[u].status = "absent"
      /\ \A u \in Tasks : reservation[u] # "reserved" => reservation'[u] = reservation[u]
      /\ entity["supersede"].status \in {"completed", "failed"} => reservation'[job["supersede"]] # "reserved"
      /\ RowReserved' /\ TerminalIsSettled' /\ FullProgressIsSettled'
  BY WriteFacts
<1>a. \A v \in Writers : phase'[v] # "idle" =>
        phase[v] # "idle" /\ entity'[v] = entity[v] /\ job'[v] = job[v]
  BY DEF TypeOK
<1>b. \A v \in Writers : phase[v] # "idle" => job[v] \in Tasks
  BY DEF WriterOK
<1>1. TypeOK'
  <2>1. NoRow \in Row
    BY DEF NoRow, Row
  <2>2. /\ phase' \in [Writers -> Phase] /\ job' \in [Writers -> Tasks \cup {NoTask}]
        /\ entity' \in [Writers -> Row] /\ dirty' \in [Writers -> SUBSET Columns]
    BY <2>1 DEF TypeOK, Phase
  <2>3. job["supersede"] \in Tasks
    BY <1>b
  <2> QED
    BY <1>0, <2>2, <2>3 DEF TypeOK
<1>2. RowReserved'
  BY <1>0
<1>3. SentExists'
  BY <1>0, <1>b DEF SentExists, WriterOK, TypeOK
<1>4. WriterOK'
  BY <1>0, <1>a DEF WriterOK
<1>5. EntityOK'
  <2> SUFFICES ASSUME NEW v \in Writers, phase'[v] # "idle"
               PROVE  /\ entity'[v].status \in WrittenBy(v)
                      /\ entity'[v].status = "stale" => reservation'[job'[v]] # "reserved"
                      /\ entity'[v].progress >= 100 => \/ entity'[v].status = "completed"
                                                        \/ reservation'[job'[v]] # "reserved"
    BY DEF EntityOK
  <2>1. phase[v] # "idle" /\ entity'[v] = entity[v] /\ job'[v] = job[v] /\ job[v] \in Tasks
    BY <1>a, <1>b
  <2> QED
    BY <1>0, <2>1 DEF EntityOK
<1>6. DeliveriesLeft'
  BY DEF DeliveriesLeft, TypeOK
<1>7. TokenOK'
  BY DEF TokenOK, TypeOK
<1>8. NotifyOK'
  BY <1>0, <1>b DEF NotifyOK, TypeOK
<1>9. TerminalIsSettled'
  BY <1>0
<1>10. FullProgressIsSettled'
  BY <1>0
<1>11. AppliedAtMostOnce'
  BY DEF AppliedAtMostOnce, TypeOK
<1>12. NotifiedIsSettled'
  BY <1>0 DEF NotifiedIsSettled, TypeOK
<1> QED
  BY <1>1, <1>2, <1>3, <1>4, <1>5, <1>6, <1>7, <1>8, <1>9, <1>10, <1>11, <1>12

\* A fault in a handler rolls its transaction back.
LEMMA InvHandlerFails ==
  ASSUME TasksInv, NEW k \in Kinds, HandlerFails(k)
  PROVE  TasksInv'
<1> USE DEF TasksInv, HandlerFails, Idle, AfterError
<1>1. TypeOK'
  <2>1. NoRow \in Row
    BY DEF NoRow, Row
  <2>2. /\ phase' \in [Writers -> Phase] /\ job' \in [Writers -> Tasks \cup {NoTask}]
        /\ entity' \in [Writers -> Row] /\ dirty' \in [Writers -> SUBSET Columns]
    BY <2>1 DEF TypeOK, Phase
  <2>3. job[k] \in Tasks
    BY DEF WriterOK
  <2>4. msg' \in [Tasks -> [Kinds -> MsgState]]
    BY <2>3 DEF TypeOK, MsgState
  <2> QED
    BY <2>2, <2>3, <2>4 DEF TypeOK
<1>2. RowReserved'
  BY DEF RowReserved, TypeOK, WriterOK
<1>3. SentExists'
  BY DEF SentExists, TypeOK, WriterOK
<1>4. WriterOK'
  BY DEF WriterOK, TypeOK, EntityOK
<1>5. EntityOK'
  BY DEF EntityOK, TypeOK, WriterOK, RowReserved
<1>6. DeliveriesLeft'
  BY DEF DeliveriesLeft, TypeOK
<1>7. TokenOK'
  BY DEF TokenOK, TypeOK, WriterOK
<1>8. NotifyOK'
  BY DEF NotifyOK, TypeOK, TokenOK, WriterOK, EntityOK, RowReserved
<1>9. TerminalIsSettled'
  BY DEF TerminalIsSettled, TypeOK, EntityOK, WriterOK, Terminal
<1>10. FullProgressIsSettled'
  BY DEF FullProgressIsSettled, TypeOK, EntityOK, WriterOK
<1>11. AppliedAtMostOnce'
  BY DEF AppliedAtMostOnce, TypeOK, TokenOK
<1>12. NotifiedIsSettled'
  BY DEF NotifiedIsSettled, TypeOK, NotifyOK, WriterOK, RowReserved
<1> QED
  BY <1>1, <1>2, <1>3, <1>4, <1>5, <1>6, <1>7, <1>8, <1>9, <1>10, <1>11, <1>12

\* A fault in the superseding request rolls its transaction back.
LEMMA InvSupersedeFails ==
  ASSUME TasksInv, SupersedeFails
  PROVE  TasksInv'
<1> USE DEF TasksInv, SupersedeFails, Idle
<1>1. TypeOK'
  BY DEF TypeOK, Settlement, MsgState, Phase, NoRow, Row, JobStatus, DeliveriesLeft
<1>2. RowReserved'
  BY DEF RowReserved, TypeOK, WriterOK
<1>3. SentExists'
  BY DEF SentExists, TypeOK, WriterOK
<1>4. WriterOK'
  BY DEF WriterOK, TypeOK, EntityOK
<1>5. EntityOK'
  BY DEF EntityOK, TypeOK, WriterOK, RowReserved
<1>6. DeliveriesLeft'
  BY DEF DeliveriesLeft, TypeOK
<1>7. TokenOK'
  BY DEF TokenOK, TypeOK, WriterOK
<1>8. NotifyOK'
  BY DEF NotifyOK, TypeOK, TokenOK, WriterOK, EntityOK, RowReserved
<1>9. TerminalIsSettled'
  BY DEF TerminalIsSettled, TypeOK, EntityOK, WriterOK, Terminal
<1>10. FullProgressIsSettled'
  BY DEF FullProgressIsSettled, TypeOK, EntityOK, WriterOK
<1>11. AppliedAtMostOnce'
  BY DEF AppliedAtMostOnce, TypeOK, TokenOK
<1>12. NotifiedIsSettled'
  BY DEF NotifiedIsSettled, TypeOK, NotifyOK, WriterOK, RowReserved
<1> QED
  BY <1>1, <1>2, <1>3, <1>4, <1>5, <1>6, <1>7, <1>8, <1>9, <1>10, <1>11, <1>12

\* A dead process loses its copies, never a committed row.
LEMMA InvProcessCrash ==
  ASSUME TasksInv, ProcessCrash
  PROVE  TasksInv'
<1> USE DEF TasksInv, ProcessCrash, AfterError
<1>1. TypeOK'
  BY DEF TypeOK, Settlement, MsgState, Phase, NoRow, Row, JobStatus, DeliveriesLeft
<1>2. RowReserved'
  BY DEF RowReserved, TypeOK, WriterOK
<1>3. SentExists'
  BY DEF SentExists, TypeOK, WriterOK
<1>4. WriterOK'
  BY DEF WriterOK, TypeOK, EntityOK
<1>5. EntityOK'
  BY DEF EntityOK, TypeOK, WriterOK, RowReserved
<1>6. DeliveriesLeft'
  BY DEF DeliveriesLeft, TypeOK
<1>7. TokenOK'
  BY DEF TokenOK, TypeOK, WriterOK
<1>8. NotifyOK'
  BY DEF NotifyOK, TypeOK, TokenOK, WriterOK, EntityOK, RowReserved
<1>9. TerminalIsSettled'
  BY DEF TerminalIsSettled, TypeOK, EntityOK, WriterOK, Terminal
<1>10. FullProgressIsSettled'
  BY DEF FullProgressIsSettled, TypeOK, EntityOK, WriterOK
<1>11. AppliedAtMostOnce'
  BY DEF AppliedAtMostOnce, TypeOK, TokenOK
<1>12. NotifiedIsSettled'
  BY DEF NotifiedIsSettled, TypeOK, NotifyOK, WriterOK, RowReserved
<1> QED
  BY <1>1, <1>2, <1>3, <1>4, <1>5, <1>6, <1>7, <1>8, <1>9, <1>10, <1>11, <1>12

\* Every step keeps the inductive invariant.
LEMMA InvNext == TasksInv /\ [Next]_vars => TasksInv'
<1> SUFFICES ASSUME TasksInv, [Next]_vars PROVE TasksInv'
  OBVIOUS
<1>1. CASE UNCHANGED vars
  BY <1>1 DEF vars, TasksInv, TypeOK, RowReserved, SentExists, WriterOK, EntityOK, DeliveriesLeft,
              TokenOK, NotifyOK, TerminalIsSettled, FullProgressIsSettled, AppliedAtMostOnce,
              NotifiedIsSettled
<1>2. ASSUME NEW t \in Tasks, Create(t) \/ Cancel(t) \/ LoadForSupersede(t)
      PROVE  TasksInv'
  BY <1>2, InvCreate, InvCancel, InvLoadForSupersede
<1>3. ASSUME NEW t \in Tasks, NEW k \in Kinds, WorkerSends(t, k) \/ Receive(t, k)
      PROVE  TasksInv'
  BY <1>3, InvWorkerSends, InvReceiveReplay, InvReceiveIgnored, InvLoad DEF Receive
<1>4. ASSUME NEW k \in Kinds, Proceed(k) \/ HandlerFails(k)
      PROVE  TasksInv'
  BY <1>4, InvDiff, InvWrite, InvNotify, InvReport, InvHandlerFails DEF Proceed
<1>5. CASE Diff("supersede") \/ WriteSuperseded \/ SupersedeFails \/ ProcessCrash
  BY <1>5, InvDiff, InvWriteSuperseded, InvSupersedeFails, InvProcessCrash
<1> QED
  BY <1>1, <1>2, <1>3, <1>4, <1>5 DEF Next

\* The inductive invariant holds in every reachable state.
THEOREM Invariance == Spec => []TasksInv
BY InvInit, InvNext, PTL DEF Spec

\* Rows, reservations, messages and writers keep their types; no message is
\* delivered more often than the broker allows.
THEOREM TypeCorrect == Spec => []TypeOK
<1>1. TasksInv => TypeOK
  BY DEF TasksInv
<1> QED
  BY <1>1, Invariance, PTL

\* No task that is over holds quota.
THEOREM NoQuotaHeldAtRest == Spec => []TerminalIsSettled
<1>1. TasksInv => TerminalIsSettled
  BY DEF TasksInv
<1> QED
  BY <1>1, Invariance, PTL

\* A full progress bar means a settled task.
THEOREM FullProgressSettled == Spec => []FullProgressIsSettled
<1>1. TasksInv => FullProgressIsSettled
  BY DEF TasksInv
<1> QED
  BY <1>1, Invariance, PTL

\* Redelivery never applies an event twice.
THEOREM EventsAppliedOnce == Spec => []AppliedAtMostOnce
<1>1. TasksInv => AppliedAtMostOnce
  BY DEF TasksInv
<1> QED
  BY <1>1, Invariance, PTL

\* Users are notified only of committed outcomes.
THEOREM NotificationsFollowCommit == Spec => []NotifiedIsSettled
<1>1. TasksInv => NotifiedIsSettled
  BY DEF TasksInv
<1> QED
  BY <1>1, Invariance, PTL

\* Reservations are settled once and for all.
THEOREM ReservationsSettleOnce == Spec => SettledOnce
<1> DEFINE A == \A t \in Tasks : reservation[t] \in {"committed", "released"}
                                  => reservation'[t] = reservation[t]
<1>1. TasksInv /\ [Next]_vars => [A]_vars
  <2> SUFFICES ASSUME TasksInv, Next, NEW u \in Tasks,
                      reservation[u] \in {"committed", "released"}
               PROVE  reservation'[u] = reservation[u]
    OBVIOUS
  <2>1. ASSUME NEW t \in Tasks, Create(t)
        PROVE  reservation'[u] = reservation[u]
    <3>1. u # t
      BY <2>1 DEF Create, TasksInv, RowReserved
    <3> QED
      BY <2>1, <3>1 DEF Create, TasksInv, TypeOK
  <2>2. ASSUME NEW t \in Tasks, Cancel(t)
        PROVE  reservation'[u] = reservation[u]
    BY <2>2 DEF Cancel, Settle, TasksInv, TypeOK
  <2>3. ASSUME NEW k \in Kinds, Write(k)
        PROVE  reservation'[u] = reservation[u]
    BY <2>3, WriteFacts DEF Write
  <2>4. CASE WriteSuperseded
    BY <2>4, WriteFacts DEF WriteSuperseded
  <2>5. \/ UNCHANGED reservation
        \/ \E t \in Tasks : Create(t) \/ Cancel(t)
        \/ \E k \in Kinds : Write(k)
        \/ WriteSuperseded
    BY DEF Next, LoadForSupersede, WorkerSends, Receive, ReceiveReplay, ReceiveIgnored, Load,
           Proceed, Diff, Notify, Report, HandlerFails, SupersedeFails, ProcessCrash
  <2> QED
    BY <2>1, <2>2, <2>3, <2>4, <2>5
<1> QED
  BY <1>1, Invariance, PTL DEF Spec, SettledOnce
===============================================================================
