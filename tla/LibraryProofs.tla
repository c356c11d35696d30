----------------------------- MODULE LibraryProofs -----------------------------
(***************************************************************************)
(* The versions of rules and of applications, the cached rules and the     *)
(* embeddings of skills, for any number of requests, rows, processes and   *)
(* failed calls.                                                           *)
(***************************************************************************)
EXTENDS Rules, Skills, Applications, FiniteSetTheorems, RequestProofs

(* Rules: the row that was read is snapshotted before the save that counts *)
(* up its version, so a version never lacks its history.                   *)

\* The versions from the first of rule r to n have their snapshots.
HistoryUpTo(r, n) ==
  \A k \in born[r] .. n : \E s \in snapshots : s.rule = r /\ s.version = k

\* A change under way saves the version after the one it has read; that one has its history
\* up to the version read, and including it once it is snapshotted.
ChangeOK(q) ==
  /\ job[q].rule \in RuleIds /\ Exists(job[q].rule)
  /\ job[q].old.version \in Nat \ {0} /\ job[q].next.version = job[q].old.version + 1
  /\ HistoryUpTo(job[q].rule, IF job[q].phase \in {"diff", "write"} THEN job[q].old.version
                              ELSE job[q].old.version - 1)

RuleJobOK(q) ==
  /\ At(q, WriteKinds, "check") \/ At(q, WriteKinds, "snapshot")
     \/ At(q, WriteKinds, "diff") \/ At(q, WriteKinds, "write") => ChangeOK(q)
  /\ At(q, {"rule_create"}, "insert") =>
       "version" \in DOMAIN job[q].next /\ job[q].next.version = 1
  /\ job[q].kind = "rule_import" /\ job[q].phase \in {"fill", "stage", "insert"}
       => job[q].bundle \in Bundles

\* Rows are never removed, so the existing ones are the first ones.
RowsInv ==
  /\ rules = [r \in RuleIds |-> rules[r]] /\ born \in [RuleIds -> Nat]
  /\ \A r \in RuleIds : Exists(r) => /\ "version" \in DOMAIN rules[r]
                                     /\ rules[r].version \in Nat \ {0}
  /\ \A r, x \in RuleIds : Exists(r) /\ x <= r => Exists(x)
  /\ \A r \in RuleIds : Exists(r) => HistoryUpTo(r, rules[r].version - 1)

RuleInv ==
  /\ RequestInv /\ RowsInv
  /\ \A q \in Requests : RuleJobOK(q)

LEMMA FirstFreeRule ==
  ASSUME RowsInv, FreeIds # {}
  PROVE  /\ Min(FreeIds) \in RuleIds /\ RuleIds \subseteq Nat \ {0}
         /\ \A r \in RuleIds : Exists(r) <=> r < Min(FreeIds)
<1>1. RuleIds \subseteq Nat \ {0} /\ FreeIds \in SUBSET Nat
  BY RulesAssumption DEF FreeIds
<1>2. Min(FreeIds) \in FreeIds /\ \A x \in FreeIds : Min(FreeIds) <= x
  BY <1>1, SmallestElement
<1> DEFINE m == Min(FreeIds)
<1>3. m \in RuleIds /\ ~Exists(m)
  BY <1>2 DEF FreeIds
<1> HIDE DEF m
<1>4. ASSUME NEW r \in RuleIds PROVE Exists(r) <=> r < m
  <2>1. r \in Nat /\ m \in Nat
    BY <1>1, <1>3
  <2>2. Exists(r) => ~(m <= r)
    BY <1>3 DEF RowsInv
  <2>3. ~Exists(r) => m <= r
    BY <1>2 DEF FreeIds, m
  <2> QED BY <2>1, <2>2, <2>3
<1> QED BY <1>1, <1>3, <1>4 DEF m

\* What holds of a request that takes no step still holds when snapshots and rows are added.
LEMMA RuleJobStays ==
  ASSUME NEW q \in Requests, RuleJobOK(q), UNCHANGED job[q], snapshots \subseteq snapshots',
         \A r \in RuleIds : Exists(r) => Exists(r)' /\ born'[r] = born[r]
  PROVE  RuleJobOK(q)'
<1>1. ChangeOK(q) => ChangeOK(q)'
  <2> SUFFICES ASSUME ChangeOK(q) PROVE ChangeOK(q)'
    OBVIOUS
  <2> DEFINE r == job[q].rule
             n == IF job[q].phase \in {"diff", "write"} THEN job[q].old.version
                  ELSE job[q].old.version - 1
  <2>1. r \in RuleIds /\ Exists(r) /\ HistoryUpTo(r, n)
    BY DEF ChangeOK
  <2>2. \A k \in born'[r] .. n : \E s \in snapshots' : s.rule = r /\ s.version = k
    BY <2>1 DEF HistoryUpTo
  <2> QED BY <2>1, <2>2 DEF ChangeOK, HistoryUpTo
<1> QED BY <1>1 DEF RuleJobOK, At

\* A step that leaves the table as it is; rows of its history are only added.
LEMMA RuleJobStep ==
  ASSUME RuleInv, NEW q \in Requests, RequestInv', OthersStay(q), RuleJobOK(q)',
         UNCHANGED <<rules, born>>, snapshots \subseteq snapshots'
  PROVE  RuleInv'
<1>1. RowsInv'
  BY DEF RuleInv, RowsInv, Exists, HistoryUpTo
<1>2. ASSUME NEW x \in Requests \ {q} PROVE RuleJobOK(x)'
  <2>1. job'[x] = job[x] /\ RuleJobOK(x)
    BY DEF OthersStay, RuleInv
  <2> QED BY <2>1, RuleJobStays DEF Exists
<1> QED BY <1>1, <1>2 DEF RuleInv

\* Requests that have ended or only read say nothing of the table.
LEMMA HarmlessJobs ==
  ASSUME NEW q \in Requests, \/ job'[q].kind \notin WriteKinds
                             \/ job'[q].phase \in {"audit", "ok", "refused", "failed"}
  PROVE  RuleJobOK(q)'
BY DEF RuleJobOK, At, WriteKinds

LEMMA RuleJobFields ==
  ASSUME NEW kind, NEW p, NEW phase, NEW r, NEW old, NEW next
  PROVE  JobFields \subseteq DOMAIN RuleJob(kind, p, phase, r, old, next)
BY DEF RuleJob, JobFields

LEMMA AnsweredKeeps ==
  ASSUME RuleInv, NEW q \in Requests, NEW kind, NEW outcome \in Outcomes,
         Begins(q, Answered(kind, outcome)), UNCHANGED <<rules, snapshots, born>>
  PROVE  RuleInv'
<1>1. RequestInv' /\ OthersStay(q) /\ job'[q] = Answered(kind, outcome)
  BY BeginsMeans, AnsweredFields DEF RuleInv
<1>2. job'[q].phase \in {"audit", "ok", "refused", "failed"}
  BY <1>1 DEF Answered, NoJob, Outcomes
<1> QED BY <1>1, <1>2, HarmlessJobs, RuleJobStep

\* update(), activate(), deactivate() and softDelete() up to the first read.
LEMMA ChangeRuleKeeps ==
  ASSUME RuleInv, NEW q \in Requests, NEW r \in RuleIds, Exists(r), NEW next,
         "version" \in DOMAIN next,
         NEW kind \in {"rule_update", "rule_activate", "rule_deactivate", "rule_delete"},
         NEW phase \in {"check", "snapshot", "audit"},
         ChangeRule(q, kind, r, next, phase), UNCHANGED ruleVars
  PROVE  RuleInv'
<1> DEFINE saved == [next EXCEPT !.version = rules[r].version + 1]
<1>1. PICK p \in Processes : Begins(q, RuleJob(kind, p, phase, r, rules[r], saved))
  BY DEF ChangeRule
<1>2. RequestInv' /\ OthersStay(q) /\ job'[q] = RuleJob(kind, p, phase, r, rules[r], saved)
  BY <1>1, BeginsMeans, RuleJobFields DEF RuleInv
<1>3. /\ job'[q].kind = kind /\ job'[q].phase = phase /\ job'[q].rule = r
      /\ job'[q].old = rules[r] /\ job'[q].next.version = rules[r].version + 1
  <2>1. saved.version = rules[r].version + 1
    OBVIOUS
  <2> HIDE DEF saved
  <2> QED BY <1>2, <2>1 DEF RuleJob
<1>4. UNCHANGED <<rules, snapshots, born>>
  BY DEF ruleVars
<1>5. rules[r].version \in Nat \ {0} /\ HistoryUpTo(r, rules[r].version - 1)
  BY DEF RuleInv, RowsInv
<1>6. ChangeOK(q)'
  BY <1>3, <1>4, <1>5 DEF ChangeOK, Exists, HistoryUpTo
<1>7. RuleJobOK(q)'
  BY <1>3, <1>6 DEF RuleJobOK, At
<1> QED BY <1>2, <1>4, <1>7, RuleJobStep

LEMMA RuleBeginsKeep ==
  ASSUME RuleInv, NEW q \in Requests,
         \/ CreateRule(q) \/ UpdateRule(q) \/ Activate(q) \/ Deactivate(q) \/ SoftDelete(q)
         \/ ContextRules(q) \/ ImportRules(q) \/ TestRule(q)
  PROVE  RuleInv'
<1> USE DEF Outcomes
<1>1. UNCHANGED ruleVars /\ UNCHANGED <<rules, snapshots, born>>
  BY DEF CreateRule, UpdateRule, Activate, Deactivate, SoftDelete, ContextRules, ImportRules,
         TestRule, ruleVars
<1>2. \A r \in RuleIds : Exists(r) => "version" \in DOMAIN rules[r]
  BY DEF RuleInv, RowsInv
<1>3. CASE CreateRule(q)
  <2>1. PICK p \in Processes, d \in Drafts :
          \/ Begins(q, Answered("rule_create", "refused"))
          \/ Begins(q, RuleJob("rule_create", p, "insert", 0, NewRow(d, 1, TRUE),
                               NewRow(d, 1, TRUE)))
    BY <1>3 DEF CreateRule
  <2> DEFINE row == NewRow(d, 1, TRUE)
  <2>2. CASE Begins(q, Answered("rule_create", "refused"))
    BY <1>1, <2>2, AnsweredKeeps
  <2>3. CASE Begins(q, RuleJob("rule_create", p, "insert", 0, row, row))
    <3>1. "version" \in DOMAIN row /\ row.version = 1
      BY DEF NewRow
    <3> HIDE DEF row
    <3>2. /\ RequestInv' /\ OthersStay(q)
          /\ job'[q] = RuleJob("rule_create", p, "insert", 0, row, row)
      BY <2>3, BeginsMeans, RuleJobFields DEF RuleInv
    <3>3. job'[q].kind = "rule_create" /\ job'[q].phase = "insert" /\ job'[q].next = row
      BY <3>2 DEF RuleJob
    <3>4. RuleJobOK(q)'
      BY <3>1, <3>3 DEF RuleJobOK, At
    <3> QED BY <1>1, <3>2, <3>4, RuleJobStep
  <2> QED BY <2>1, <2>2, <2>3
<1>4. CASE UpdateRule(q)
  <2>1. PICK r \in RuleIds, c \in Contents, on \in BOOLEAN :
          LET next == [rules[r] EXCEPT !.condition = c.condition,
                                       !.instruction = c.instruction, !.isActive = on]
          IN /\ Exists(r)
             /\ IF next = rules[r] THEN Begins(q, Answered("rule_update", "ok"))
                ELSE ChangeRule(q, "rule_update", r, next, IF on THEN "check" ELSE "snapshot")
    BY <1>4 DEF UpdateRule
  <2> DEFINE next == [rules[r] EXCEPT !.condition = c.condition,
                                      !.instruction = c.instruction, !.isActive = on]
             phase == IF on THEN "check" ELSE "snapshot"
  <2>2. "version" \in DOMAIN next
    BY <1>2, <2>1
  <2>3. CASE Begins(q, Answered("rule_update", "ok"))
    BY <1>1, <2>3, AnsweredKeeps
  <2>4. CASE ChangeRule(q, "rule_update", r, next, phase)
    <3>1. phase \in {"check", "snapshot", "audit"}
      OBVIOUS
    <3> HIDE DEF next, phase
    <3> QED BY <1>1, <2>1, <2>2, <2>4, <3>1, ChangeRuleKeeps
  <2> QED BY <2>1, <2>3, <2>4
<1>5. ASSUME NEW r \in RuleIds, Exists(r), NEW on,
             NEW kind \in {"rule_activate", "rule_deactivate", "rule_delete"},
             NEW phase \in {"check", "snapshot", "audit"},
             \/ Begins(q, Answered(kind, "ok"))
             \/ ChangeRule(q, kind, r, [rules[r] EXCEPT !.isActive = on], phase)
      PROVE  RuleInv'
  <2> DEFINE next == [rules[r] EXCEPT !.isActive = on]
  <2>1. "version" \in DOMAIN next
    BY <1>2, <1>5
  <2>2. CASE ChangeRule(q, kind, r, next, phase)
    <3> HIDE DEF next
    <3> QED BY <1>1, <1>5, <2>1, <2>2, ChangeRuleKeeps
  <2> QED BY <1>1, <1>5, <2>2, AnsweredKeeps
<1>6. CASE Activate(q) \/ Deactivate(q)
  BY <1>5, <1>6 DEF Activate, Deactivate
<1>7. CASE SoftDelete(q)
  <2>1. PICK r \in RuleIds :
          /\ Exists(r)
          /\ ChangeRule(q, "rule_delete", r, [rules[r] EXCEPT !.isActive = FALSE],
                        IF rules[r].isActive THEN "snapshot" ELSE "audit")
    BY <1>7 DEF SoftDelete
  <2> QED BY <1>5, <2>1
<1>8. ASSUME NEW kind \in {"rule_context", "rule_import"}, NEW b,
             kind = "rule_import" => b \in Bundles,
             NEW p \in Processes, NEW answered \in {"ok", "stage"},
             ReadRules(q, kind, p, answered, b)
      PROVE  RuleInv'
  <2> DEFINE list == IF active[p] = {} THEN ActiveRules ELSE UNION {c.list : c \in active[p]}
             phase == IF active[p] = {} THEN "fill" ELSE answered
  <2>1. Begins(q, [kind |-> kind, at |-> p, rule |-> 0, bundle |-> b, list |-> list,
                   phase |-> phase])
    BY <1>8 DEF ReadRules
  <2>4. phase \in {"fill", "ok", "stage"}
    OBVIOUS
  <2> HIDE DEF list, phase
  <2>2. /\ RequestInv' /\ OthersStay(q)
        /\ job'[q] = [kind |-> kind, at |-> p, rule |-> 0, bundle |-> b, list |-> list,
                      phase |-> phase]
    BY <2>1, BeginsMeans DEF RuleInv, JobFields
  <2>3. job'[q].kind = kind /\ job'[q].bundle = b /\ job'[q].phase = phase
    BY <2>2
  <2>5. RuleJobOK(q)'
    BY <1>8, <2>3, <2>4 DEF RuleJobOK, At, WriteKinds
  <2> QED BY <1>1, <2>2, <2>5, RuleJobStep
<1>9. CASE ContextRules(q) \/ ImportRules(q)
  BY <1>8, <1>9 DEF ContextRules, ImportRules
<1>10. CASE TestRule(q)
  <2>1. PICK p \in Processes, r \in RuleIds :
          Begins(q, IF \E s \in simulated[p] : s.rule = r
                    THEN Answered("rule_test", "ok")
                    ELSE RuleJob("rule_test", p, "simulate", r, rules[r], rules[r]))
    BY <1>10, Zenon DEF TestRule
  <2>2. CASE Begins(q, Answered("rule_test", "ok"))
    BY <1>1, <2>2, AnsweredKeeps
  <2>3. CASE Begins(q, RuleJob("rule_test", p, "simulate", r, rules[r], rules[r]))
    <3>1. /\ RequestInv' /\ OthersStay(q)
          /\ job'[q] = RuleJob("rule_test", p, "simulate", r, rules[r], rules[r])
      BY <2>3, BeginsMeans, RuleJobFields DEF RuleInv
    <3>2. job'[q].kind = "rule_test"
      BY <3>1 DEF RuleJob
    <3>3. RuleJobOK(q)'
      BY <3>2, HarmlessJobs DEF WriteKinds
    <3> QED BY <1>1, <3>1, <3>3, RuleJobStep
  <2> QED BY <2>1, <2>2, <2>3
<1> QED BY <1>3, <1>4, <1>6, <1>7, <1>9, <1>10

\* New rows get the first free ids, from the smallest one to k.
LEMMA RowsAdded ==
  ASSUME RuleInv, NEW q \in Requests, Proceeds(q), job'[q].phase = "audit",
         FreeIds # {}, NEW k \in Nat, Min(FreeIds) <= k, UNCHANGED snapshots,
         rules' = [r \in RuleIds |-> rules'[r]], born' = [r \in RuleIds |-> born'[r]],
         \A r \in RuleIds :
           IF r \in Min(FreeIds) .. k
           THEN /\ "version" \in DOMAIN rules'[r] /\ rules'[r].version \in Nat \ {0}
                /\ born'[r] = rules'[r].version
           ELSE rules'[r] = rules[r] /\ born'[r] = born[r]
  PROVE  RuleInv'
<1> DEFINE m == Min(FreeIds)
<1>1. /\ m \in RuleIds /\ RuleIds \subseteq Nat \ {0}
      /\ \A r \in RuleIds : Exists(r) <=> r < m
  BY FirstFreeRule DEF RuleInv
<1>2. \A r \in RuleIds : IF r \in m .. k
                         THEN /\ "version" \in DOMAIN rules'[r]
                              /\ rules'[r].version \in Nat \ {0}
                              /\ born'[r] = rules'[r].version
                         ELSE rules'[r] = rules[r] /\ born'[r] = born[r]
  OBVIOUS
<1> HIDE DEF m
<1>3. ASSUME NEW r \in RuleIds, Exists(r)
      PROVE  rules'[r] = rules[r] /\ born'[r] = born[r] /\ Exists(r)'
  BY <1>1, <1>2, <1>3 DEF Exists
<1>4. ASSUME NEW r \in RuleIds, ~Exists(r), Exists(r)'
      PROVE  r \in m .. k
  BY <1>2, <1>4 DEF Exists
<1>5. ASSUME NEW r \in RuleIds, r \in m .. k PROVE Exists(r)'
  <2>1. rules'[r].version # 0
    BY <1>2, <1>5
  <2> QED BY <2>1 DEF Exists, NoRule
<1>6. RowsInv'
  <2>1. born' \in [RuleIds -> Nat]
    <3>1. \A r \in RuleIds : born'[r] \in Nat
      BY <1>2 DEF RuleInv, RowsInv
    <3> QED BY <3>1
  <2>2. ASSUME NEW r \in RuleIds, Exists(r)'
        PROVE  /\ "version" \in DOMAIN rules'[r] /\ rules'[r].version \in Nat \ {0}
               /\ HistoryUpTo(r, rules[r].version - 1)'
    <3>1. CASE Exists(r)
      <4>1. HistoryUpTo(r, rules[r].version - 1)
        BY <3>1 DEF RuleInv, RowsInv
      <4> QED BY <1>3, <3>1, <4>1 DEF RuleInv, RowsInv, HistoryUpTo
    <3>2. CASE ~Exists(r)
      <4>1. /\ "version" \in DOMAIN rules'[r] /\ rules'[r].version \in Nat \ {0}
            /\ born'[r] = rules'[r].version
        BY <1>2, <1>4, <2>2, <3>2
      <4>2. born'[r] .. (rules'[r].version - 1) = {}
        BY <4>1
      <4> QED BY <4>1, <4>2 DEF HistoryUpTo
    <3> QED BY <3>1, <3>2
  <2>3. ASSUME NEW r \in RuleIds, NEW x \in RuleIds, Exists(r)', x <= r
        PROVE  Exists(x)'
    <3>1. r <= k \/ r < m
      BY <1>1, <1>4, <2>3
    <3>2. x \in m .. k \/ x < m
      BY <1>1, <2>3, <3>1
    <3> QED BY <1>1, <1>3, <1>5, <3>2
  <2> QED BY <2>1, <2>2, <2>3 DEF RowsInv
<1>7. ASSUME NEW x \in Requests PROVE RuleJobOK(x)'
  <2>1. CASE x = q
    BY <2>1, HarmlessJobs
  <2>2. CASE x # q
    <3>1. job'[x] = job[x] /\ RuleJobOK(x)
      BY <2>2 DEF OthersStay, RuleInv, Proceeds
    <3> QED BY <1>3, <3>1, RuleJobStays
  <2> QED BY <2>1, <2>2
<1> QED BY <1>6, <1>7, ProceedsMeans DEF RuleInv

LEMMA RuleInsertsKeep ==
  ASSUME RuleInv, NEW q \in Requests, InsertRule(q) \/ InsertBundle(q)
  PROVE  RuleInv'
<1>1. CASE InsertRule(q)
  <2> DEFINE m == Min(FreeIds)
  <2>1. Proceeds(q) /\ job'[q].phase = "audit" /\ UNCHANGED snapshots
    <3>1. RequestInv /\ Busy(q)
      BY <1>1 DEF InsertRule, At, Busy, Outcomes, RuleInv
    <3>2. /\ job' = [job EXCEPT ![q] = [@ EXCEPT !.phase = "audit", !.rule = Min(FreeIds)]]
          /\ UNCHANGED <<snapshots, alone>>
      BY <1>1 DEF InsertRule
    <3>3. /\ job' = [x \in Requests |-> job'[x]] /\ OthersStay(q)
          /\ job'[q] = [job[q] EXCEPT !.phase = "audit", !.rule = Min(FreeIds)]
      BY <3>1, <3>2 DEF RequestInv, OthersStay
    <3>4. JobFields \subseteq DOMAIN job'[q] /\ job'[q].phase = "audit"
      BY <3>1, <3>3 DEF RequestInv, JobFields
    <3> QED BY <3>1, <3>2, <3>3, <3>4 DEF Proceeds
  <2>2. "version" \in DOMAIN job[q].next /\ job[q].next.version = 1
    BY <1>1 DEF InsertRule, RuleInv, RuleJobOK
  <2>3. FreeIds # {} /\ m \in RuleIds /\ RuleIds \subseteq Nat \ {0}
    BY <1>1, FirstFreeRule DEF InsertRule, RuleInv
  <2>4. rules' = [rules EXCEPT ![m] = job[q].next] /\ born' = [born EXCEPT ![m] = 1]
    BY <1>1 DEF InsertRule
  <2>5. rules = [r \in RuleIds |-> rules[r]] /\ born \in [RuleIds -> Nat]
    BY DEF RuleInv, RowsInv
  <2> HIDE DEF m
  <2>6. m \in Nat /\ \A r \in RuleIds : r \in m .. m <=> r = m
    BY <2>3
  <2>7. /\ rules' = [r \in RuleIds |-> rules'[r]] /\ born' = [r \in RuleIds |-> born'[r]]
        /\ \A r \in RuleIds :
             IF r \in m .. m
             THEN /\ "version" \in DOMAIN rules'[r] /\ rules'[r].version \in Nat \ {0}
                  /\ born'[r] = rules'[r].version
             ELSE rules'[r] = rules[r] /\ born'[r] = born[r]
    <3>1. /\ rules' = [r \in RuleIds |-> rules'[r]] /\ born' = [r \in RuleIds |-> born'[r]]
          /\ \A r \in RuleIds \ {m} : rules'[r] = rules[r] /\ born'[r] = born[r]
      BY <2>4, <2>5
    <3>2. rules'[m] = job[q].next /\ born'[m] = 1
      BY <2>3, <2>4, <2>5
    <3> QED BY <2>2, <2>6, <3>1, <3>2
  <2> QED BY <2>1, <2>3, <2>6, <2>7, RowsAdded DEF m
<1>2. CASE InsertBundle(q)
  <2> DEFINE m == Min(FreeIds)
             b == job[q].bundle
             k == m + Len(b) - 1
  <2>1. /\ Proceeds(q) /\ job'[q].phase = "audit" /\ UNCHANGED snapshots
    <3>1. Busy(q) /\ Goes(q, "audit")
      BY <1>2 DEF InsertBundle, At, Busy, Outcomes
    <3> QED BY <1>2, <3>1, GoesMeans DEF InsertBundle, RuleInv
  <2>2. b \in Bundles
    BY <1>2 DEF InsertBundle, RuleInv, RuleJobOK, At
  <2>3. /\ Len(b) \in Nat \ {0} /\ DOMAIN b = 1 .. Len(b)
        /\ \A i \in 1 .. Len(b) : b[i].version \in Nat \ {0}
    BY <2>2, RulesAssumption
  <2>4. FreeIds # {}
    <3>1. Cardinality(FreeIds) >= Len(b)
      BY <1>2 DEF InsertBundle
    <3>2. Cardinality({}) = 0
      BY FS_EmptySet
    <3>3. FreeIds = {} => 0 >= Len(b)
      BY <3>1, <3>2, Zenon
    <3> HIDE DEF b
    <3> QED BY <2>3, <3>3
  <2>5. m \in RuleIds /\ RuleIds \subseteq Nat \ {0}
    BY <2>4, FirstFreeRule DEF RuleInv
  <2>6. /\ rules' = [r \in RuleIds |-> IF r \in m .. k THEN Staged(b)[r - m + 1] ELSE rules[r]]
        /\ born' = [r \in RuleIds |-> IF r \in m .. k THEN rules'[r].version ELSE born[r]]
    BY <1>2 DEF InsertBundle
  <2> HIDE DEF m, b
  <2>7. k \in Nat /\ m <= k
    BY <2>3, <2>5
  <2>8. ASSUME NEW r \in RuleIds, r \in m .. k
        PROVE  "version" \in DOMAIN rules'[r] /\ rules'[r].version \in Nat \ {0}
    <3> DEFINE i == r - m + 1
    <3>1. i \in 1 .. Len(b) /\ i \in DOMAIN b
      BY <2>3, <2>5, <2>8
    <3>2. rules'[r] = Staged(b)[i]
      BY <2>6, <2>8
    <3> HIDE DEF i
    <3>3. rules'[r] = NewRow(b[i].draft, b[i].version, b[i].isActive)
      BY <3>1, <3>2 DEF Staged
    <3>4. "version" \in DOMAIN rules'[r] /\ rules'[r].version = b[i].version
      BY <3>3 DEF NewRow
    <3> QED BY <2>3, <3>1, <3>4
  <2>9. /\ rules' = [r \in RuleIds |-> rules'[r]] /\ born' = [r \in RuleIds |-> born'[r]]
        /\ \A r \in RuleIds : r \in m .. k => born'[r] = rules'[r].version
        /\ \A r \in RuleIds : r \notin m .. k => rules'[r] = rules[r] /\ born'[r] = born[r]
    BY <2>6
  <2> QED BY <2>1, <2>4, <2>7, <2>8, <2>9, RowsAdded DEF m
<1> QED BY <1>1, <1>2

\* The steps of a request at work that leave the table as it is.
LEMMA RuleReadsKeep ==
  ASSUME RuleInv, NEW q \in Requests,
         \/ CheckRule(q) \/ SnapshotVersion(q) \/ DiffRule(q) \/ FinishRule(q)
         \/ FillCache(q) \/ StageRules(q) \/ CacheSimulation(q) \/ RuleFails(q)
  PROVE  RuleInv'
<1> USE DEF Outcomes
<1>1. RequestInv /\ RuleJobOK(q)
  BY DEF RuleInv
<1>2. Busy(q)
  BY DEF CheckRule, SnapshotVersion, DiffRule, FinishRule, FillCache, StageRules,
         CacheSimulation, RuleFails, Fails, At, Busy
<1>3. UNCHANGED <<rules, born>> /\ snapshots \subseteq snapshots'
  BY DEF CheckRule, SnapshotVersion, DiffRule, FinishRule, FillCache, StageRules,
         CacheSimulation, RuleFails, ruleVars
<1>4. CASE (\E outcome \in Outcomes : Ends(q, outcome)) \/ Fails(q)
  <2>1. Proceeds(q) /\ job'[q].phase \in {"ok", "refused", "failed"}
    BY <1>1, <1>2, <1>4, EndsMeans
  <2>2. RuleJobOK(q)'
    BY <2>1, HarmlessJobs
  <2>3. RequestInv' /\ OthersStay(q)
    BY <1>1, <2>1, ProceedsMeans DEF Proceeds
  <2> QED BY <1>3, <2>2, <2>3, RuleJobStep
<1>5. ASSUME NEW phase, Goes(q, phase),
             \/ phase = "snapshot" /\ At(q, WriteKinds, "check")
             \/ /\ phase = "diff" /\ At(q, WriteKinds, "snapshot")
                /\ snapshots' = snapshots \cup {Snapshot(job[q].rule, job[q].old)}
             \/ phase = "stage" /\ job[q].kind = "rule_import" /\ job[q].phase = "fill"
             \/ phase = "insert" /\ job[q].kind = "rule_import" /\ job[q].phase = "stage"
      PROVE  RuleInv'
  <2>1. /\ Proceeds(q) /\ job'[q] = [job[q] EXCEPT !.phase = phase] /\ job'[q].phase = phase
    BY <1>1, <1>2, <1>5, GoesMeans
  <2>2. /\ job'[q].kind = job[q].kind /\ job'[q].rule = job[q].rule
        /\ job'[q].old = job[q].old /\ job'[q].next = job[q].next
        /\ job'[q].bundle = job[q].bundle
    BY <2>1
  <2>3. RequestInv' /\ OthersStay(q)
    BY <1>1, <2>1, ProceedsMeans DEF Proceeds
  <2>4. CASE phase = "snapshot" /\ At(q, WriteKinds, "check")
    <3>1. ChangeOK(q) /\ job[q].phase = "check"
      BY <1>1, <2>4 DEF RuleJobOK, At
    <3>2. HistoryUpTo(job[q].rule, job[q].old.version - 1)
      BY <3>1 DEF ChangeOK
    <3>3. ChangeOK(q)'
      BY <1>3, <2>1, <2>2, <2>4, <3>1, <3>2 DEF ChangeOK, HistoryUpTo, Exists
    <3>4. RuleJobOK(q)'
      BY <2>1, <2>4, <3>3 DEF RuleJobOK, At
    <3> QED BY <1>3, <2>3, <3>4, RuleJobStep
  <2>5. CASE /\ phase = "diff" /\ At(q, WriteKinds, "snapshot")
             /\ snapshots' = snapshots \cup {Snapshot(job[q].rule, job[q].old)}
    <3> DEFINE r == job[q].rule
               v == job[q].old.version
               s == Snapshot(r, job[q].old)
    <3>1. ChangeOK(q) /\ job[q].phase = "snapshot"
      BY <1>1, <2>5 DEF RuleJobOK, At
    <3>2. HistoryUpTo(r, v - 1) /\ r \in RuleIds /\ v \in Nat \ {0} /\ Exists(r)
      BY <3>1 DEF ChangeOK
    <3>3. s.rule = r /\ s.version = v /\ s \in snapshots'
      BY <2>5 DEF Snapshot
    <3>4. born[r] \in Nat /\ born'[r] = born[r]
      BY <1>3, <3>2 DEF RuleInv, RowsInv
    <3>5. HistoryUpTo(r, v)'
      <4> HIDE DEF r, v, s
      <4>1. ASSUME NEW k \in born[r] .. v
            PROVE  \E t \in snapshots' : t.rule = r /\ t.version = k
        <5>1. k = v \/ k \in born[r] .. (v - 1)
          BY <3>2, <3>4
        <5> QED BY <1>3, <3>2, <3>3, <5>1 DEF HistoryUpTo
      <4>2. \A k \in born'[r] .. v : \E t \in snapshots' : t.rule = r /\ t.version = k
        BY <3>4, <4>1
      <4>3. r' = r /\ v' = v
        BY <2>2 DEF r, v
      <4> QED BY <4>2, <4>3 DEF HistoryUpTo
    <3>6. job'[q].rule = r /\ job'[q].old.version = v
      BY <2>2
    <3>7. ChangeOK(q)'
      BY <1>3, <2>1, <2>2, <2>5, <3>1, <3>2, <3>5 DEF ChangeOK, Exists
    <3>8. RuleJobOK(q)'
      BY <2>1, <2>5, <3>7 DEF RuleJobOK, At
    <3> QED BY <1>3, <2>3, <3>8, RuleJobStep
  <2>6. CASE /\ job[q].kind = "rule_import" /\ phase \in {"stage", "insert"}
             /\ job[q].phase \in {"fill", "stage"}
    <3>1. job'[q].kind = "rule_import" /\ job'[q].bundle \in Bundles
      BY <1>1, <2>2, <2>6 DEF RuleJobOK
    <3>2. RuleJobOK(q)'
      BY <2>1, <2>6, <3>1 DEF RuleJobOK, At
    <3> QED BY <1>3, <2>3, <3>2, RuleJobStep
  <2> QED BY <1>5, <2>4, <2>5, <2>6
<1>6. CASE DiffRule(q)
  <2> DEFINE d == Differing(job[q].next, rules[job[q].rule])
  <2>1. /\ job' = [job EXCEPT ![q] = [@ EXCEPT !.phase = "write", !.dirty = d]]
        /\ UNCHANGED alone
    BY <1>6 DEF DiffRule
  <2> HIDE DEF d
  <2>2. /\ job' = [x \in Requests |-> job'[x]] /\ OthersStay(q)
        /\ job'[q] = [job[q] EXCEPT !.phase = "write", !.dirty = d]
    BY <1>1, <2>1 DEF RequestInv, OthersStay
  <2>3. /\ JobFields \subseteq DOMAIN job'[q] /\ job'[q].phase = "write"
        /\ job'[q].kind = job[q].kind /\ job'[q].rule = job[q].rule
        /\ job'[q].old = job[q].old /\ job'[q].next = job[q].next
    BY <1>1, <2>2 DEF RequestInv, JobFields
  <2>4. Proceeds(q) /\ RequestInv'
    BY <1>1, <1>2, <2>1, <2>2, <2>3, ProceedsMeans DEF Proceeds
  <2>5. ChangeOK(q) /\ job[q].phase = "diff"
    BY <1>1, <1>6 DEF DiffRule, RuleJobOK, At
  <2>6. UNCHANGED snapshots
    BY <1>6 DEF DiffRule, ruleVars
  <2>7. ChangeOK(q)'
    BY <1>3, <2>3, <2>5, <2>6 DEF ChangeOK, HistoryUpTo, Exists
  <2>8. RuleJobOK(q)'
    BY <2>3, <2>7 DEF RuleJobOK, At
  <2> QED BY <1>3, <2>2, <2>4, <2>8, RuleJobStep
<1>7. CASE CheckRule(q)
  BY <1>4, <1>5, <1>7 DEF CheckRule
<1>8. CASE SnapshotVersion(q)
  BY <1>5, <1>8 DEF SnapshotVersion
<1>9. CASE FinishRule(q) \/ CacheSimulation(q) \/ RuleFails(q)
  BY <1>4, <1>9 DEF FinishRule, CacheSimulation, RuleFails
<1>10. CASE FillCache(q) \/ StageRules(q)
  BY <1>4, <1>5, <1>10 DEF FillCache, StageRules, At
<1> QED BY <1>6, <1>7, <1>8, <1>9, <1>10

LEMMA WriteRuleKeeps ==
  ASSUME RuleInv, NEW q \in Requests, WriteRule(q)
  PROVE  RuleInv'
<1> DEFINE r == job[q].rule
           next == job[q].next
           dirty == job[q].dirty
<1>1. /\ RequestInv /\ RowsInv /\ ChangeOK(q) /\ job[q].phase = "write"
  BY DEF WriteRule, RuleInv, RuleJobOK, At
<1>2. Proceeds(q) /\ job'[q].phase = "audit" /\ RequestInv'
  <2>1. Busy(q) /\ Goes(q, "audit")
    BY DEF WriteRule, At, Busy, Outcomes
  <2> QED BY <1>1, <2>1, GoesMeans, ProceedsMeans
<1>3. /\ r \in RuleIds /\ Exists(r) /\ job[q].old.version \in Nat \ {0}
      /\ next.version = job[q].old.version + 1 /\ HistoryUpTo(r, job[q].old.version)
  BY <1>1 DEF ChangeOK
<1>4. /\ rules' = [rules EXCEPT ![r] = Written(rules[r], next, dirty)]
      /\ UNCHANGED <<snapshots, born>>
  BY DEF WriteRule
<1> HIDE DEF r, next, dirty
<1>5. /\ rules' = [x \in RuleIds |-> rules'[x]]
      /\ \A x \in RuleIds \ {r} : rules'[x] = rules[x]
      /\ rules'[r] = Written(rules[r], next, dirty)
  BY <1>1, <1>3, <1>4 DEF RowsInv
<1>6. /\ "version" \in DOMAIN rules[r] /\ rules[r].version \in Nat \ {0}
      /\ HistoryUpTo(r, rules[r].version - 1)
  BY <1>1, <1>3 DEF RowsInv
<1>7. /\ "version" \in DOMAIN rules'[r]
      /\ rules'[r].version \in {rules[r].version, next.version}
  BY <1>5, <1>6 DEF Written
<1>8. rules'[r].version \in Nat \ {0} /\ HistoryUpTo(r, rules'[r].version - 1)
  <2>1. CASE rules'[r].version = rules[r].version
    BY <1>6, <2>1
  <2>2. CASE rules'[r].version = next.version
    <3>1. rules'[r].version - 1 = job[q].old.version /\ rules'[r].version \in Nat \ {0}
      BY <1>3, <2>2
    <3> QED BY <1>3, <3>1
  <2> QED BY <1>7, <2>1, <2>2
<1>9. \A x \in RuleIds : Exists(x)' <=> Exists(x)
  <2>1. rules'[r] # NoRule
    <3>1. rules'[r].version # 0
      BY <1>8
    <3> QED BY <3>1 DEF NoRule
  <2> QED BY <1>3, <1>5, <2>1 DEF Exists
<1>10. RowsInv'
  <2>1. ASSUME NEW x \in RuleIds, Exists(x)'
        PROVE  /\ "version" \in DOMAIN rules'[x] /\ rules'[x].version \in Nat \ {0}
               /\ HistoryUpTo(x, rules[x].version - 1)'
    <3>1. CASE x = r
      BY <1>4, <1>7, <1>8, <3>1 DEF HistoryUpTo
    <3>2. CASE x # r
      BY <1>1, <1>4, <1>5, <1>9, <2>1, <3>2 DEF RowsInv, HistoryUpTo
    <3> QED BY <3>1, <3>2
  <2> QED BY <1>1, <1>4, <1>5, <1>9, <2>1 DEF RowsInv
<1>11. ASSUME NEW x \in Requests PROVE RuleJobOK(x)'
  <2>1. CASE x = q
    BY <1>2, <2>1, HarmlessJobs
  <2>2. CASE x # q
    <3>1. job'[x] = job[x] /\ RuleJobOK(x)
      BY <1>2, <2>2 DEF OthersStay, RuleInv, Proceeds
    <3> QED BY <1>4, <1>9, <3>1, RuleJobStays
  <2> QED BY <2>1, <2>2
<1> QED BY <1>2, <1>10, <1>11 DEF RuleInv

\* Every step of the rules module preserves the invariant, from the first row on.
THEOREM RuleInvariance == RuleSpec => []RuleInv
<1>1. RequestInit /\ RuleInit => RuleInv
  <2> SUFFICES ASSUME RequestInit, RuleInit PROVE RuleInv
    OBVIOUS
  <2>1. RequestInv
    BY RequestsBegin
  <2>2. PICK n \in Nat \ {0} : RuleIds = 1 .. n
    BY RulesAssumption
  <2>3. /\ rules = [r \in RuleIds |-> IF r = 1 THEN NewRow(FirstRule, 1, TRUE) ELSE NoRule]
        /\ born = [r \in RuleIds |-> 1]
    BY DEF RuleInit
  <2>4. "version" \in DOMAIN NewRow(FirstRule, 1, TRUE) /\ NewRow(FirstRule, 1, TRUE).version = 1
    BY DEF NewRow
  <2>5. /\ "version" \in DOMAIN rules[1] /\ rules[1].version = 1
        /\ \A r \in RuleIds : Exists(r) => r = 1
    <3>1. 1 \in RuleIds
      BY <2>2
    <3>2. rules[1] = NewRow(FirstRule, 1, TRUE)
      BY <2>3, <3>1
    <3>3. \A r \in RuleIds : r # 1 => rules[r] = NoRule
      BY <2>3
    <3> QED BY <2>4, <3>2, <3>3 DEF Exists
  <2>6. Exists(1)
    <3>1. rules[1].version # 0
      BY <2>5
    <3> QED BY <3>1 DEF Exists, NoRule
  <2>7. RowsInv
    <3>1. ASSUME NEW r \in RuleIds, NEW x \in RuleIds, Exists(r), x <= r PROVE Exists(x)
      <4>1. r = 1 /\ x \in Nat \ {0}
        BY <2>2, <2>5, <3>1
      <4>2. x = 1
        BY <3>1, <4>1
      <4> QED BY <2>6, <4>2
    <3>2. \A r \in RuleIds : Exists(r) => HistoryUpTo(r, rules[r].version - 1)
      <4>1. 1 \in RuleIds
        BY <2>2
      <4>2. born[1] .. (rules[1].version - 1) = {}
        <5>1. born = [r \in RuleIds |-> 1]
          BY <2>3
        <5>2. born[1] = 1
          BY <4>1, <5>1
        <5>3. rules[1].version - 1 = 0
          BY <2>5
        <5> QED BY <5>2, <5>3
      <4>3. HistoryUpTo(1, rules[1].version - 1)
        BY <4>2 DEF HistoryUpTo
      <4> QED BY <2>5, <4>3
    <3>3. rules = [r \in RuleIds |-> rules[r]] /\ born \in [RuleIds -> Nat]
      BY <2>3
    <3> QED BY <2>5, <3>1, <3>2, <3>3 DEF RowsInv
  <2>8. ASSUME NEW q \in Requests PROVE RuleJobOK(q)
    BY <2>8 DEF RequestInit, NoJob, RuleJobOK, At, WriteKinds
  <2> QED BY <2>1, <2>7, <2>8 DEF RuleInv
<1>2. RuleInv /\ [RuleNext]_<<requestVars, ruleVars>> => RuleInv'
  <2> SUFFICES ASSUME RuleInv, [RuleNext]_<<requestVars, ruleVars>> PROVE RuleInv'
    OBVIOUS
  <2>1. CASE UNCHANGED <<requestVars, ruleVars>>
    <3>1. UNCHANGED <<job, alone, rules, snapshots, born>>
      BY <2>1 DEF requestVars, ruleVars
    <3>2. RequestInv' /\ RowsInv'
      BY <3>1 DEF RuleInv, RequestInv, Solitude, Busy, RowsInv, Exists, HistoryUpTo
    <3>3. ASSUME NEW q \in Requests PROVE RuleJobOK(q)'
      BY <3>1, RuleJobStays DEF RuleInv, Exists
    <3> QED BY <3>2, <3>3 DEF RuleInv
  <2>2. ASSUME NEW p \in Processes, Expire(p) PROVE RuleInv'
    <3>1. UNCHANGED <<job, alone, rules, snapshots, born>>
      BY <2>2 DEF Expire, requestVars
    <3>2. RequestInv' /\ RowsInv'
      BY <3>1 DEF RuleInv, RequestInv, Solitude, Busy, RowsInv, Exists, HistoryUpTo
    <3>3. ASSUME NEW q \in Requests PROVE RuleJobOK(q)'
      BY <3>1, RuleJobStays DEF RuleInv, Exists
    <3> QED BY <3>2, <3>3 DEF RuleInv
  <2>3. ASSUME NEW q \in Requests,
               \/ CreateRule(q) \/ InsertRule(q) \/ UpdateRule(q) \/ Activate(q) \/ Deactivate(q)
               \/ SoftDelete(q) \/ CheckRule(q) \/ SnapshotVersion(q) \/ DiffRule(q)
               \/ WriteRule(q) \/ FinishRule(q) \/ ContextRules(q) \/ ImportRules(q)
               \/ FillCache(q) \/ StageRules(q) \/ InsertBundle(q) \/ TestRule(q)
               \/ CacheSimulation(q) \/ RuleFails(q)
        PROVE  RuleInv'
    BY <2>3, RuleBeginsKeep, RuleInsertsKeep, RuleReadsKeep, WriteRuleKeeps
  <2> QED BY <2>1, <2>2, <2>3 DEF RuleNext
<1> QED BY <1>1, <1>2, PTL DEF RuleSpec

\* No version of a rule lacks the snapshot of what it was: snapshotRuleVersion() comes
\* before the save that counts up the version, whatever overlaps and whichever call fails.
THEOREM RulesKeepTheirHistory == RuleSpec => []RuleHistoryComplete
<1>1. RuleInv => RuleHistoryComplete
  BY DEF RuleInv, RowsInv, HistoryUpTo, RuleHistoryComplete
<1> QED BY <1>1, RuleInvariance, PTL

-------------------------------------------------------------------------------
(* Rules: the caches, and rules that contradict each other.                *)

\* What nothing undoes: a request that has overlapped, a writer of another process, a writer
\* that failed.
Overlapped(x) == job[x].kind # "none" /\ ~alone[x]
Settled(x, p) == job[x].kind \in WriteKinds /\ (job[x].at # p \/ job[x].phase = "failed")
Blame(p)      == \E x \in Requests : Overlapped(x) \/ Settled(x, p)

\* A writer that the active rules of process p, or its results of rule r, may not know of.
Unaware(x, p)      == Settled(x, p) \/ At(x, WriteKinds, "audit")
UnawareOf(x, p, r) == Settled(x, p) \/ (At(x, WriteKinds, "audit") /\ job[x].rule = r)

ListOK(p, c) ==
  /\ c.by \in Requests /\ job[c.by].kind # "none"
  /\ c.list = ActiveRules \/ Overlapped(c.by) \/ \E x \in Requests : Unaware(x, p)
ResultOK(p, s) ==
  /\ s.by \in Requests /\ job[s.by].kind # "none" /\ s.rule \in RuleIds /\ Exists(s.rule)
  /\ \/ s.of = rules[s.rule] \/ Overlapped(s.by)
     \/ \E x \in Requests : UnawareOf(x, p, s.rule)

\* A process has at most one list.
CacheInv ==
  /\ active = [p \in Processes |-> active[p]] /\ simulated = [p \in Processes |-> simulated[p]]
  /\ \A p \in Processes : /\ \A c, d \in active[p] : c = d
                          /\ \A c \in active[p] : ListOK(p, c)
                          /\ \A s \in simulated[p] : ResultOK(p, s)

\* What a reader holds is the table, unless it overlapped; an import may also have a list
\* that was out of date in the cache.
ReaderOK(q) ==
  /\ At(q, {"rule_context", "rule_import"}, "fill") =>
       job[q].at \in Processes /\ (job[q].list = ActiveRules \/ Overlapped(q))
  /\ At(q, {"rule_import"}, "stage") \/ At(q, {"rule_import"}, "insert") =>
       job[q].list = ActiveRules \/ Overlapped(q) \/ Blame(job[q].at)
  /\ At(q, {"rule_import"}, "insert") => BundleIsClean(job[q].bundle, job[q].list)
  /\ At(q, {"rule_test"}, "simulate") =>
       /\ job[q].at \in Processes /\ job[q].rule \in RuleIds /\ Exists(job[q].rule)
       /\ job[q].old = rules[job[q].rule] \/ Overlapped(q)

\* A change under way that has been alone has the row as it is, and once it was checked
\* contradicts no other.
RuleCopyOK(q) ==
  /\ rules[job[q].rule] = job[q].old
  /\ job[q].next = [c \in DOMAIN job[q].old |-> job[q].next[c]]
  /\ job[q].phase # "check" /\ job[q].next.isActive =>
       NoConflictInTable(job[q].next, {job[q].rule})
  /\ job[q].phase = "write" => job[q].dirty = Differing(job[q].next, job[q].old)

CheckedOK(q) ==
  /\ At(q, {"rule_create"}, "insert") =>
       /\ "isActive" \in DOMAIN job[q].next
       /\ alone[q] => NoConflictInTable(job[q].next, {})
  /\ job[q].kind \in WriteKinds /\ job[q].phase \in {"check", "snapshot", "diff", "write"} =>
       /\ "dirty" \in DOMAIN job[q]
       /\ alone[q] => RuleCopyOK(q)

\* Two active rules that contradict each other.
Clash(a, b) ==
  /\ a # b /\ Exists(a) /\ Exists(b) /\ rules[a].isActive /\ rules[b].isActive
  /\ SameTarget(rules[a], rules[b]) /\ Contradicts(rules[a], rules[b])

Caused(q) == ~alone[q] \/ (job[q].kind = "rule_import" /\ Blame(job[q].at))

ConflictInv ==
  /\ writer = [r \in RuleIds |-> writer[r]]
  /\ \A r \in RuleIds : /\ writer[r] \subseteq Requests
                        /\ \A q \in writer[r] : job[q].kind # "none"
                        /\ Exists(r) => "isActive" \in DOMAIN rules[r]
  /\ \A a, b \in RuleIds : Clash(a, b) => \E q \in writer[a] \cup writer[b] : Caused(q)

CachesInv ==
  /\ CacheInv /\ ConflictInv
  /\ \A q \in Requests : ReaderOK(q) /\ CheckedOK(q)

\* What the invariant says of the properties.
LEMMA CachesExplained ==
  ASSUME CachesInv
  PROVE  StaleCacheIsExplained /\ ConflictsAreRaces
<1>1. ASSUME NEW x \in Requests, NEW p
      PROVE  Settled(x, p) \/ At(x, WriteKinds, "audit") => Unnoticed(x, p)
  BY DEF Settled, At, Unnoticed, Busy, Outcomes
<1>2. StaleCacheIsExplained
  <2>1. ASSUME NEW p \in Processes, NEW c \in active[p]
        PROVE  c.list = ActiveRules \/ ~alone[c.by] \/ \E q \in Requests : Unnoticed(q, p)
    <3>1. ListOK(p, c)
      BY DEF CachesInv, CacheInv
    <3> QED BY <1>1, <3>1 DEF ListOK, Overlapped, Unaware
  <2>2. ASSUME NEW p \in Processes, NEW s \in simulated[p]
        PROVE  s.of = rules[s.rule] \/ ~alone[s.by] \/ \E q \in Requests : Unnoticed(q, p)
    <3>1. ResultOK(p, s)
      BY DEF CachesInv, CacheInv
    <3> QED BY <1>1, <3>1 DEF ResultOK, Overlapped, UnawareOf
  <2> QED BY <2>1, <2>2 DEF StaleCacheIsExplained
<1>3. ConflictsAreRaces
  <2>1. ASSUME NEW a \in RuleIds, NEW b \in RuleIds, Clash(a, b)
        PROVE  \E q \in writer[a] \cup writer[b] :
                 \/ ~alone[q]
                 \/ /\ job[q].kind = "rule_import"
                    /\ \E x \in Requests : ~alone[x] \/ Unnoticed(x, job[q].at)
    <3>1. PICK q \in writer[a] \cup writer[b] : Caused(q)
      BY <2>1 DEF CachesInv, ConflictInv
    <3> QED BY <1>1, <3>1 DEF Caused, Blame, Overlapped
  <2> QED BY <2>1 DEF ConflictsAreRaces, Clash
<1> QED BY <1>2, <1>3

\* Rules of one target contradict each other or not, whichever comes first.
LEMMA ContradictionIsMutual ==
  ASSUME NEW a, NEW b, SameTarget(a, b), Contradicts(a, b)
  PROVE  SameTarget(b, a) /\ Contradicts(b, a)
<1>1. a.type = b.type /\ SameTarget(b, a) /\ a.type \in Contradictable
  BY DEF SameTarget, Contradicts
<1>2. conditionsOverlap(b.condition, a.condition)
  BY DEF Contradicts, conditionsOverlap
<1>3. hasTypeSpecificConflict(b, a)
  <2>1. hasTypeSpecificConflict(a, b)
    BY DEF Contradicts
  <2> QED BY <1>1, <2>1 DEF hasTypeSpecificConflict
<1> QED BY <1>1, <1>2, <1>3 DEF Contradicts

\* What a step of q leaves true of the past.
Lasting(q) ==
  /\ OthersStay(q)
  /\ job[q].kind # "none" =>
       /\ job'[q].kind = job[q].kind /\ job'[q].at = job[q].at
       /\ job[q].phase = "failed" => job'[q].phase = "failed"
  /\ \A x \in Requests : job[x].kind # "none" /\ ~alone[x] => ~alone'[x]

LEMMA PastStays ==
  ASSUME NEW q \in Requests, Lasting(q)
  PROVE  /\ \A x \in Requests : /\ job[x].kind # "none" => job'[x].kind # "none"
                                /\ Overlapped(x) => Overlapped(x)'
                                /\ \A p : Settled(x, p) => Settled(x, p)'
         /\ \A p : Blame(p) => Blame(p)'
         /\ \A x \in Requests : job[x].kind # "none" /\ Caused(x) => Caused(x)'
<1>1. ASSUME NEW x \in Requests
      PROVE  /\ job[x].kind # "none" => job'[x].kind # "none" /\ job'[x].kind = job[x].kind
                                        /\ job'[x].at = job[x].at
             /\ Overlapped(x) => Overlapped(x)'
             /\ \A p : Settled(x, p) => Settled(x, p)'
  <2>1. /\ job[x].kind # "none" => /\ job'[x].kind = job[x].kind /\ job'[x].at = job[x].at
                                   /\ job[x].phase = "failed" => job'[x].phase = "failed"
        /\ job[x].kind # "none" /\ ~alone[x] => ~alone'[x]
    BY DEF Lasting, OthersStay
  <2>2. "none" \notin WriteKinds
    BY DEF WriteKinds
  <2> QED BY <2>1, <2>2 DEF Overlapped, Settled
<1>2. \A p : Blame(p) => Blame(p)'
  BY <1>1 DEF Blame
<1>3. ASSUME NEW x \in Requests, job[x].kind # "none", Caused(x) PROVE Caused(x)'
  <2>1. ~alone[x] => ~alone'[x]
    BY <1>3 DEF Lasting
  <2>2. job'[x].kind = job[x].kind /\ job'[x].at = job[x].at
    BY <1>1, <1>3
  <2> QED BY <1>2, <1>3, <2>1, <2>2 DEF Caused
<1> QED BY <1>1, <1>2, <1>3

\* A step of a request that has not begun or goes on where it was.
LEMMA StepsLast ==
  ASSUME NEW q \in Requests, Steps(q),
         \/ job[q].kind = "none"
         \/ job[q].phase # "failed" /\ job'[q].at = job[q].at
  PROVE  Lasting(q)
BY DEF Steps, Lasting

\* A request that takes no step is no longer alone, so nothing is asked of its copy.
LEMMA ReaderStays ==
  ASSUME NEW q \in Requests, Steps(q), Lasting(q), NEW x \in Requests \ {q},
         ReaderOK(x), CheckedOK(x), \A r \in RuleIds : Exists(r) => Exists(r)'
  PROVE  ReaderOK(x)' /\ CheckedOK(x)'
<1>1. job'[x] = job[x]
  BY DEF Steps, OthersStay
<1>2. Busy(x) => ~alone'[x]
  BY DEF Steps
<1>3. ReaderOK(x)'
  <2>1. /\ At(x, {"rule_context", "rule_import"}, "fill") => Overlapped(x)'
        /\ At(x, {"rule_import"}, "stage") \/ At(x, {"rule_import"}, "insert") => Overlapped(x)'
        /\ At(x, {"rule_test"}, "simulate") => Overlapped(x)'
    BY <1>1, <1>2 DEF At, Busy, Outcomes, Overlapped
  <2> QED BY <1>1, <2>1 DEF ReaderOK, At, BundleIsClean, Staged
<1>4. CheckedOK(x)'
  <2>1. /\ At(x, {"rule_create"}, "insert") => ~alone'[x]
        /\ job[x].phase \in {"check", "snapshot", "diff", "write"} => ~alone'[x]
    BY <1>2 DEF At, Busy, Outcomes
  <2> QED BY <1>1, <2>1 DEF CheckedOK, At
<1> QED BY <1>3, <1>4

\* A step that leaves the table as it is; what a writer has forgotten is out of the caches.
LEMMA CachesStay ==
  ASSUME CacheInv, NEW q \in Requests, Lasting(q), UNCHANGED rules,
         active' = [p \in Processes |-> active'[p]],
         simulated' = [p \in Processes |-> simulated'[p]],
         \A p \in Processes :
           /\ \A c, d \in active'[p] : c = d
           /\ \A c \in active'[p] : c \in active[p] \/ ListOK(p, c)'
           /\ \A s \in simulated'[p] : s \in simulated[p] \/ ResultOK(p, s)',
         At(q, WriteKinds, "audit") =>
           \/ job'[q].phase = "failed" \/ job[q].at \notin Processes
           \/ /\ active'[job[q].at] = {}
              /\ \A s \in simulated'[job[q].at] : s.rule # job[q].rule
  PROVE  CacheInv'
<1>1. /\ \A x \in Requests : /\ job[x].kind # "none" => job'[x].kind # "none"
                             /\ Overlapped(x) => Overlapped(x)'
                             /\ \A p : Settled(x, p) => Settled(x, p)'
  BY PastStays
<1>2. ActiveRules' = ActiveRules /\ \A r : Exists(r)' <=> Exists(r)
  BY DEF ActiveRules, Exists
<1>3. \A x \in Requests \ {q} : job'[x] = job[x]
  BY DEF Lasting, OthersStay
<1>4. ASSUME NEW p \in Processes, At(q, WriteKinds, "audit"), ~Settled(q, p)'
      PROVE  active'[p] = {} /\ \A s \in simulated'[p] : s.rule # job[q].rule
  <2>1. job'[q].kind = job[q].kind /\ job'[q].at = job[q].at /\ job[q].kind \in WriteKinds
    BY <1>4 DEF Lasting, At, WriteKinds
  <2>2. job[q].at = p /\ job'[q].phase # "failed"
    BY <1>4, <2>1 DEF Settled
  <2> QED BY <1>4, <2>2
<1>5. ASSUME NEW p \in Processes, NEW c \in active'[p] PROVE ListOK(p, c)'
  <2> SUFFICES ASSUME c \in active[p] PROVE ListOK(p, c)'
    BY <1>5
  <2>1. ListOK(p, c)
    BY DEF CacheInv
  <2>2. ASSUME NEW x \in Requests, Unaware(x, p) PROVE Unaware(x, p)'
    <3>1. CASE x # q
      BY <1>1, <1>3, <2>2, <3>1 DEF Unaware, At
    <3>2. CASE x = q
      BY <1>1, <1>4, <1>5, <2>2, <3>2 DEF Unaware
    <3> QED BY <3>1, <3>2
  <2> QED BY <1>1, <1>2, <2>1, <2>2 DEF ListOK
<1>6. ASSUME NEW p \in Processes, NEW s \in simulated'[p] PROVE ResultOK(p, s)'
  <2> SUFFICES ASSUME s \in simulated[p] PROVE ResultOK(p, s)'
    BY <1>6
  <2>1. ResultOK(p, s)
    BY DEF CacheInv
  <2>2. ASSUME NEW x \in Requests, UnawareOf(x, p, s.rule) PROVE UnawareOf(x, p, s.rule)'
    <3>1. CASE x # q
      BY <1>1, <1>3, <2>2, <3>1 DEF UnawareOf, At
    <3>2. CASE x = q
      BY <1>1, <1>4, <1>6, <2>2, <3>2 DEF UnawareOf
    <3> QED BY <3>1, <3>2
  <2> QED BY <1>1, <1>2, <2>1, <2>2 DEF ResultOK
<1> QED BY <1>5, <1>6 DEF CacheInv

\* A step that writes the table: the writer has yet to invalidate the caches.
LEMMA CachesMiss ==
  ASSUME CacheInv, NEW q \in Requests, Lasting(q), job[q].kind # "none",
         ~At(q, WriteKinds, "audit"), At(q, WriteKinds, "audit")',
         UNCHANGED <<active, simulated>>,
         \A r \in RuleIds : Exists(r) => /\ Exists(r)'
                                         /\ rules'[r] = rules[r] \/ job'[q].rule = r
  PROVE  CacheInv'
<1>1. /\ \A x \in Requests : /\ job[x].kind # "none" => job'[x].kind # "none"
                             /\ Overlapped(x) => Overlapped(x)'
                             /\ \A p : Settled(x, p) => Settled(x, p)'
  BY PastStays
<1>2. \A x \in Requests \ {q} : job'[x] = job[x]
  BY DEF Lasting, OthersStay
<1>3. ASSUME NEW p \in Processes, NEW c \in active[p] PROVE ListOK(p, c)'
  <2>1. ListOK(p, c)
    BY <1>3 DEF CacheInv
  <2>2. Unaware(q, p)'
    BY DEF Unaware
  <2> QED BY <1>1, <2>1, <2>2 DEF ListOK
<1>4. ASSUME NEW p \in Processes, NEW s \in simulated[p] PROVE ResultOK(p, s)'
  <2>1. ResultOK(p, s) /\ s.rule \in RuleIds
    BY <1>4 DEF CacheInv, ResultOK
  <2>2. ASSUME NEW x \in Requests, UnawareOf(x, p, s.rule) PROVE UnawareOf(x, p, s.rule)'
    <3>1. CASE x # q
      BY <1>1, <1>2, <2>2, <3>1 DEF UnawareOf, At
    <3>2. CASE x = q
      BY <1>1, <2>2, <3>2 DEF UnawareOf
    <3> QED BY <3>1, <3>2
  <2>3. job'[q].rule = s.rule => UnawareOf(q, p, s.rule)'
    BY DEF UnawareOf, At
  <2>4. Exists(s.rule)' /\ (rules'[s.rule] = rules[s.rule] \/ job'[q].rule = s.rule)
    BY <2>1 DEF ResultOK
  <2> QED BY <1>1, <2>1, <2>2, <2>3, <2>4 DEF ResultOK
<1> QED BY <1>3, <1>4 DEF CacheInv

\* A step that leaves the table as it is lets nobody clash.
LEMMA ConflictsStay ==
  ASSUME ConflictInv, NEW q \in Requests, Lasting(q), UNCHANGED <<rules, writer>>
  PROVE  ConflictInv'
<1>1. \A x \in Requests : /\ job[x].kind # "none" => job'[x].kind # "none"
                          /\ job[x].kind # "none" /\ Caused(x) => Caused(x)'
  BY PastStays
<1>2. \A a, b : Clash(a, b)' <=> Clash(a, b)
  BY DEF Clash, Exists
<1>3. \A r : Exists(r)' <=> Exists(r)
  BY DEF Exists
<1>4. ASSUME NEW a \in RuleIds, NEW b \in RuleIds, Clash(a, b)'
      PROVE  \E x \in writer'[a] \cup writer'[b] : Caused(x)'
  <2>1. PICK x \in writer[a] \cup writer[b] : Caused(x)
    BY <1>2, <1>4 DEF ConflictInv
  <2>2. x \in Requests /\ job[x].kind # "none"
    BY <2>1 DEF ConflictInv
  <2> QED BY <1>1, <2>1, <2>2
<1> QED BY <1>1, <1>3, <1>4 DEF ConflictInv

\* Rows that q writes clash with no other, unless q is to blame.
LEMMA ConflictsCaused ==
  ASSUME ConflictInv, NEW q \in Requests, Lasting(q), job[q].kind # "none",
         NEW S \in SUBSET RuleIds, writer' = [r \in RuleIds |-> writer'[r]],
         \A r \in S : writer'[r] = {q} /\ "isActive" \in DOMAIN rules'[r],
         \A r \in RuleIds \ S : writer'[r] = writer[r] /\ rules'[r] = rules[r],
         \A a \in S, b \in RuleIds : Clash(a, b)' => Caused(q)
  PROVE  ConflictInv'
<1>1. \A x \in Requests : /\ job[x].kind # "none" => job'[x].kind # "none"
                          /\ job[x].kind # "none" /\ Caused(x) => Caused(x)'
  BY PastStays
<1>2. ASSUME NEW a \in RuleIds, NEW b \in RuleIds, Clash(a, b)'
      PROVE  Clash(b, a)'
  <2>1. SameTarget(rules'[b], rules'[a]) /\ Contradicts(rules'[b], rules'[a])
    <3>1. SameTarget(rules'[a], rules'[b]) /\ Contradicts(rules'[a], rules'[b])
      BY <1>2 DEF Clash, SameTarget, Contradicts, conditionsOverlap, hasTypeSpecificConflict
    <3> QED BY <3>1, ContradictionIsMutual
  <2> QED BY <1>2, <2>1 DEF Clash, SameTarget, Contradicts, conditionsOverlap,
                            hasTypeSpecificConflict
<1>3. ASSUME NEW a \in RuleIds, NEW b \in RuleIds, Clash(a, b)'
      PROVE  \E x \in writer'[a] \cup writer'[b] : Caused(x)'
  <2>1. CASE a \in S
    BY <1>1, <1>3, <2>1
  <2>2. CASE b \in S
    BY <1>1, <1>2, <1>3, <2>2
  <2>3. CASE a \notin S /\ b \notin S
    <3>1. /\ writer'[a] = writer[a] /\ rules'[a] = rules[a]
          /\ writer'[b] = writer[b] /\ rules'[b] = rules[b]
      BY <2>3
    <3>2. Clash(a, b)
      BY <1>3, <3>1 DEF Clash, Exists
    <3>3. PICK x \in writer[a] \cup writer[b] : Caused(x)
      BY <3>2 DEF ConflictInv
    <3>4. x \in Requests /\ job[x].kind # "none"
      BY <3>3 DEF ConflictInv
    <3> QED BY <1>1, <3>1, <3>3, <3>4
  <2> QED BY <2>1, <2>2, <2>3
<1>4. ASSUME NEW r \in RuleIds
      PROVE  /\ writer'[r] \subseteq Requests
             /\ \A x \in writer'[r] : job'[x].kind # "none"
             /\ Exists(r)' => "isActive" \in DOMAIN rules'[r]
  <2>1. CASE r \in S
    BY <1>1, <2>1
  <2>2. CASE r \notin S
    BY <1>1, <2>2 DEF ConflictInv, Exists
  <2> QED BY <2>1, <2>2
<1> QED BY <1>3, <1>4 DEF ConflictInv

\* What is left to show for a step that leaves the table as it is.
LEMMA CachesStep ==
  ASSUME CachesInv, NEW q \in Requests, Steps(q), Lasting(q), UNCHANGED <<rules, writer>>,
         CacheInv', ReaderOK(q)', CheckedOK(q)'
  PROVE  CachesInv'
<1>1. ConflictInv'
  BY ConflictsStay DEF CachesInv
<1>2. \A r \in RuleIds : Exists(r) => Exists(r)'
  BY DEF Exists
<1>3. \A x \in Requests \ {q} : ReaderOK(x)' /\ CheckedOK(x)'
  BY <1>2, ReaderStays DEF CachesInv
<1> QED BY <1>1, <1>3 DEF CachesInv

\* Requests that wait for nothing but their audit remember nothing of the table.
LEMMA NothingHeld ==
  ASSUME NEW q \in Requests, job'[q].phase \in {"audit", "ok", "refused", "failed"}
  PROVE  ReaderOK(q)' /\ CheckedOK(q)'
BY DEF ReaderOK, CheckedOK, At

\* A request begins; the caches are as they were.
LEMMA CachesBegin ==
  ASSUME RuleInv, CachesInv, NEW q \in Requests, NEW j, Begins(q, j),
         JobFields \subseteq DOMAIN j, UNCHANGED ruleVars
  PROVE  /\ RequestInv' /\ job'[q] = j /\ Steps(q) /\ Lasting(q)
         /\ (ReaderOK(q)' /\ CheckedOK(q)' => CachesInv')
<1>1. RequestInv' /\ OthersStay(q) /\ job'[q] = j /\ Steps(q)
  BY BeginsMeans DEF RuleInv
<1>2. job[q].kind = "none"
  BY DEF Begins, NoJob
<1>3. Lasting(q)
  BY <1>1, <1>2, StepsLast
<1>4. UNCHANGED <<rules, writer, active, simulated>>
  BY DEF ruleVars
<1>5. ~At(q, WriteKinds, "audit")
  BY <1>2 DEF At, WriteKinds
<1>6. CacheInv'
  BY <1>3, <1>4, <1>5, CachesStay DEF CachesInv, CacheInv
<1> QED BY <1>1, <1>3, <1>4, <1>6, CachesStep

LEMMA AnswerHoldsNothing ==
  ASSUME RuleInv, CachesInv, NEW q \in Requests, NEW kind, NEW outcome \in Outcomes,
         Begins(q, Answered(kind, outcome)), UNCHANGED ruleVars
  PROVE  CachesInv'
<1>1. /\ job'[q] = Answered(kind, outcome)
      /\ (ReaderOK(q)' /\ CheckedOK(q)' => CachesInv')
  BY CachesBegin, AnsweredFields
<1>2. job'[q].phase \in {"audit", "ok", "refused", "failed"}
  BY <1>1 DEF Answered, NoJob, Outcomes
<1> QED BY <1>1, <1>2, NothingHeld

\* A change holds the row as it was read; only one that goes by the check may be active.
LEMMA ChangeHoldsTheRow ==
  ASSUME RuleInv, CachesInv, NEW q \in Requests, NEW r \in RuleIds, Exists(r), NEW next,
         next = [c \in DOMAIN rules[r] |-> next[c]], "isActive" \in DOMAIN next,
         NEW kind \in {"rule_update", "rule_activate", "rule_deactivate", "rule_delete"},
         NEW phase \in {"check", "snapshot", "audit"},
         phase = "snapshot" => ~next.isActive,
         ChangeRule(q, kind, r, next, phase), UNCHANGED ruleVars
  PROVE  CachesInv'
<1> DEFINE saved == [next EXCEPT !.version = rules[r].version + 1]
<1>1. PICK p \in Processes : Begins(q, RuleJob(kind, p, phase, r, rules[r], saved))
  BY DEF ChangeRule
<1>2. /\ saved = [c \in DOMAIN rules[r] |-> saved[c]]
      /\ saved.isActive = next.isActive
  OBVIOUS
<1> HIDE DEF saved
<1>3. /\ job'[q] = RuleJob(kind, p, phase, r, rules[r], saved)
      /\ (ReaderOK(q)' /\ CheckedOK(q)' => CachesInv')
  BY <1>1, CachesBegin, RuleJobFields
<1>4. /\ job'[q].kind = kind /\ job'[q].phase = phase /\ job'[q].rule = r
      /\ job'[q].old = rules[r] /\ job'[q].next = saved /\ "dirty" \in DOMAIN job'[q]
  BY <1>3 DEF RuleJob
<1>5. UNCHANGED rules
  BY DEF ruleVars
<1>6. phase # "audit" => RuleCopyOK(q)'
  BY <1>2, <1>4, <1>5 DEF RuleCopyOK
<1>7. ReaderOK(q)' /\ CheckedOK(q)'
  BY <1>4, <1>6 DEF ReaderOK, CheckedOK, At
<1> QED BY <1>3, <1>7

LEMMA CachesKeptByBegins ==
  ASSUME RuleInv, CachesInv, NEW q \in Requests,
         \/ CreateRule(q) \/ UpdateRule(q) \/ Activate(q) \/ Deactivate(q) \/ SoftDelete(q)
         \/ ContextRules(q) \/ ImportRules(q) \/ TestRule(q)
  PROVE  CachesInv'
<1> USE DEF Outcomes
<1>1. UNCHANGED ruleVars /\ UNCHANGED <<rules, active, simulated>>
  BY DEF CreateRule, UpdateRule, Activate, Deactivate, SoftDelete, ContextRules, ImportRules,
         TestRule, ruleVars
<1>2. \A r \in RuleIds : Exists(r) => "isActive" \in DOMAIN rules[r]
  BY DEF CachesInv, ConflictInv
<1>3. CASE CreateRule(q)
  <2>1. PICK p \in Processes, d \in Drafts :
          \/ Begins(q, Answered("rule_create", "refused"))
          \/ /\ NoConflictInTable(NewRow(d, 1, TRUE), {})
             /\ Begins(q, RuleJob("rule_create", p, "insert", 0, NewRow(d, 1, TRUE),
                                  NewRow(d, 1, TRUE)))
    BY <1>3 DEF CreateRule
  <2> DEFINE row == NewRow(d, 1, TRUE)
  <2>2. CASE Begins(q, Answered("rule_create", "refused"))
    BY <1>1, <2>2, AnswerHoldsNothing
  <2>3. CASE /\ NoConflictInTable(row, {})
             /\ Begins(q, RuleJob("rule_create", p, "insert", 0, row, row))
    <3>1. "isActive" \in DOMAIN row
      BY DEF NewRow
    <3> HIDE DEF row
    <3>2. /\ job'[q] = RuleJob("rule_create", p, "insert", 0, row, row)
          /\ (ReaderOK(q)' /\ CheckedOK(q)' => CachesInv')
      BY <1>1, <2>3, CachesBegin, RuleJobFields
    <3>3. job'[q].kind = "rule_create" /\ job'[q].phase = "insert" /\ job'[q].next = row
      BY <3>2 DEF RuleJob
    <3>4. NoConflictInTable(row, {})'
      BY <1>1, <2>3 DEF NoConflictInTable, Exists
    <3>5. NoConflictInTable(job[q].next, {})'
      BY <1>1, <2>3, <3>3 DEF NoConflictInTable, Exists
    <3>6. ReaderOK(q)' /\ CheckedOK(q)'
      BY <3>1, <3>3, <3>5 DEF ReaderOK, CheckedOK, At
    <3> QED BY <3>2, <3>6
  <2> QED BY <2>1, <2>2, <2>3
<1>4. CASE UpdateRule(q)
  <2>1. PICK r \in RuleIds, c \in Contents, on \in BOOLEAN :
          LET next == [rules[r] EXCEPT !.condition = c.condition,
                                       !.instruction = c.instruction, !.isActive = on]
          IN /\ Exists(r)
             /\ IF next = rules[r] THEN Begins(q, Answered("rule_update", "ok"))
                ELSE ChangeRule(q, "rule_update", r, next, IF on THEN "check" ELSE "snapshot")
    BY <1>4 DEF UpdateRule
  <2> DEFINE next == [rules[r] EXCEPT !.condition = c.condition,
                                      !.instruction = c.instruction, !.isActive = on]
             phase == IF on THEN "check" ELSE "snapshot"
  <2>2. /\ next = [k \in DOMAIN rules[r] |-> next[k]]
        /\ "isActive" \in DOMAIN next /\ next.isActive = on
    BY <1>2, <2>1
  <2>3. CASE Begins(q, Answered("rule_update", "ok"))
    BY <1>1, <2>3, AnswerHoldsNothing
  <2>4. CASE ChangeRule(q, "rule_update", r, next, phase)
    <3>1. phase \in {"check", "snapshot", "audit"} /\ (phase = "snapshot" => ~on)
      OBVIOUS
    <3> HIDE DEF next, phase
    <3> QED BY <1>1, <2>1, <2>2, <2>4, <3>1, ChangeHoldsTheRow
  <2> QED BY <2>1, <2>3, <2>4
<1>5. ASSUME NEW r \in RuleIds, Exists(r), NEW on \in BOOLEAN,
             NEW kind \in {"rule_activate", "rule_deactivate", "rule_delete"},
             NEW phase \in {"check", "snapshot", "audit"}, phase = "snapshot" => ~on,
             \/ Begins(q, Answered(kind, "ok"))
             \/ ChangeRule(q, kind, r, [rules[r] EXCEPT !.isActive = on], phase)
      PROVE  CachesInv'
  <2> DEFINE next == [rules[r] EXCEPT !.isActive = on]
  <2>1. /\ next = [k \in DOMAIN rules[r] |-> next[k]]
        /\ "isActive" \in DOMAIN next /\ next.isActive = on
    BY <1>2, <1>5
  <2>2. CASE ChangeRule(q, kind, r, next, phase)
    <3> HIDE DEF next
    <3> QED BY <1>1, <1>5, <2>1, <2>2, ChangeHoldsTheRow
  <2> QED BY <1>1, <1>5, <2>2, AnswerHoldsNothing
<1>6. CASE Activate(q) \/ Deactivate(q)
  BY <1>5, <1>6 DEF Activate, Deactivate
<1>7. CASE SoftDelete(q)
  <2>1. PICK r \in RuleIds :
          /\ Exists(r)
          /\ ChangeRule(q, "rule_delete", r, [rules[r] EXCEPT !.isActive = FALSE],
                        IF rules[r].isActive THEN "snapshot" ELSE "audit")
    BY <1>7 DEF SoftDelete
  <2> QED BY <1>5, <2>1
<1>8. ASSUME NEW kind \in {"rule_context", "rule_import"}, NEW b, NEW p \in Processes,
             NEW answered \in {"ok", "stage"}, kind = "rule_context" => answered = "ok",
             ReadRules(q, kind, p, answered, b)
      PROVE  CachesInv'
  <2> DEFINE list == IF active[p] = {} THEN ActiveRules ELSE UNION {c.list : c \in active[p]}
             phase == IF active[p] = {} THEN "fill" ELSE answered
  <2>1. Begins(q, [kind |-> kind, at |-> p, rule |-> 0, bundle |-> b, list |-> list,
                   phase |-> phase])
    BY <1>8 DEF ReadRules
  <2>2. phase = "fill" => list = ActiveRules
    BY <1>8
  <2>3. phase # "fill" => \E c \in active[p] : list = c.list /\ ListOK(p, c)
    <3>1. ASSUME active[p] # {}
          PROVE  \E c \in active[p] : list = c.list /\ ListOK(p, c)
      <4>1. PICK c \in active[p] : TRUE
        BY <3>1
      <4>2. ListOK(p, c) /\ \A d \in active[p] : d = c
        BY <4>1 DEF CachesInv, CacheInv
      <4>3. list = c.list
        BY <3>1, <4>1, <4>2
      <4> QED BY <4>1, <4>2, <4>3
    <3> QED BY <3>1
  <2>4. phase \in {"fill", "ok", "stage"} /\ (kind = "rule_context" => phase # "stage")
    BY <1>8
  <2> HIDE DEF list, phase
  <2>5. /\ job'[q] = [kind |-> kind, at |-> p, rule |-> 0, bundle |-> b, list |-> list,
                      phase |-> phase]
        /\ RequestInv' /\ Steps(q) /\ Lasting(q)
        /\ (ReaderOK(q)' /\ CheckedOK(q)' => CachesInv')
    BY <1>1, <2>1, CachesBegin DEF JobFields
  <2>6. /\ job'[q].kind = kind /\ job'[q].at = p /\ job'[q].list = list
        /\ job'[q].phase = phase
    BY <2>5
  <2>7. ActiveRules' = ActiveRules
    BY <1>1 DEF ActiveRules, Exists
  <2>8. ASSUME phase = "stage"
        PROVE  list = ActiveRules \/ Overlapped(q)' \/ Blame(p)'
    <3>1. PICK c \in active[p] : list = c.list /\ ListOK(p, c)
      BY <2>3, <2>8
    <3>2. Blame(p) => Blame(p)'
      BY <2>5, PastStays
    <3>3. CASE Overlapped(c.by)
      BY <3>1, <3>2, <3>3 DEF ListOK, Blame
    <3>4. ASSUME NEW x \in Requests, Unaware(x, p)
          PROVE  Overlapped(q)' \/ Blame(p)'
      <4>1. CASE Settled(x, p)
        BY <3>2, <3>4, <4>1 DEF Blame
      <4>2. CASE At(x, WriteKinds, "audit")
        <5>1. Busy(x) /\ x # q
          BY <2>1, <4>2 DEF At, Busy, Begins, NoJob
        <5>2. Busy(x)'
          BY <2>5, <5>1 DEF Steps, OthersStay, Busy
        <5>3. Busy(q)'
          BY <2>6, <2>8 DEF Busy
        <5>4. ~alone'[q]
          BY <2>5, <5>1, <5>2, <5>3 DEF RequestInv, Solitude
        <5> QED BY <1>8, <2>6, <5>4 DEF Overlapped
      <4> QED BY <3>4, <4>1, <4>2 DEF Unaware
    <3> QED BY <3>1, <3>3, <3>4 DEF ListOK
  <2>9. ReaderOK(q)'
    BY <1>8, <2>2, <2>4, <2>6, <2>7, <2>8 DEF ReaderOK, At
  <2>10. CheckedOK(q)'
    BY <1>8, <2>4, <2>6 DEF CheckedOK, At
  <2> QED BY <2>5, <2>9, <2>10
<1>9. CASE ContextRules(q) \/ ImportRules(q)
  BY <1>8, <1>9 DEF ContextRules, ImportRules
<1>10. CASE TestRule(q)
  <2>1. PICK p \in Processes, r \in RuleIds :
          /\ Exists(r)
          /\ Begins(q, IF \E s \in simulated[p] : s.rule = r
                       THEN Answered("rule_test", "ok")
                       ELSE RuleJob("rule_test", p, "simulate", r, rules[r], rules[r]))
    BY <1>10, Zenon DEF TestRule
  <2>2. CASE Begins(q, Answered("rule_test", "ok"))
    BY <1>1, <2>2, AnswerHoldsNothing
  <2>3. CASE Begins(q, RuleJob("rule_test", p, "simulate", r, rules[r], rules[r]))
    <3>1. /\ job'[q] = RuleJob("rule_test", p, "simulate", r, rules[r], rules[r])
          /\ (ReaderOK(q)' /\ CheckedOK(q)' => CachesInv')
      BY <1>1, <2>3, CachesBegin, RuleJobFields
    <3>2. /\ job'[q].kind = "rule_test" /\ job'[q].at = p /\ job'[q].rule = r
          /\ job'[q].old = rules[r] /\ job'[q].phase = "simulate"
      BY <3>1 DEF RuleJob
    <3>3. Exists(r)' /\ rules'[r] = rules[r]
      BY <1>1, <2>1 DEF Exists
    <3>4. ReaderOK(q)' /\ CheckedOK(q)'
      BY <3>2, <3>3 DEF ReaderOK, CheckedOK, At, WriteKinds
    <3> QED BY <3>1, <3>4
  <2> QED BY <2>1, <2>2, <2>3
<1> QED BY <1>3, <1>4, <1>6, <1>7, <1>9, <1>10

\* A request at work that ends: what is in the caches, or was put there, is explained.
LEMMA CachesEnd ==
  ASSUME RuleInv, CachesInv, NEW q \in Requests, Busy(q),
         (\E outcome \in Outcomes : Ends(q, outcome)) \/ Fails(q),
         UNCHANGED <<rules, writer>>, CacheInv'
  PROVE  CachesInv'
<1>1. /\ Proceeds(q) /\ job'[q].kind = job[q].kind /\ job'[q].phase \in Outcomes
      /\ job'[q].at = job[q].at
  BY EndsMeans DEF RuleInv
<1>2. Steps(q)
  BY <1>1, ProceedsMeans DEF RuleInv
<1>3. Lasting(q)
  BY <1>1, <1>2, StepsLast DEF Busy, Outcomes
<1>4. ReaderOK(q)' /\ CheckedOK(q)'
  BY <1>1, NothingHeld DEF Outcomes
<1> QED BY <1>2, <1>3, <1>4, CachesStep

\* A request at work that goes on without touching the table or the caches.
LEMMA CachesGoOn ==
  ASSUME RuleInv, CachesInv, NEW q \in Requests, Proceeds(q), job'[q].kind = job[q].kind,
         job'[q].at = job[q].at, UNCHANGED <<rules, writer>>,
         UNCHANGED <<active, simulated>>, ~At(q, WriteKinds, "audit")
  PROVE  /\ Overlapped(q) => Overlapped(q)'
         /\ \A p : Blame(p) => Blame(p)'
         /\ (ReaderOK(q)' /\ CheckedOK(q)' => CachesInv')
<1>1. Steps(q)
  BY ProceedsMeans DEF RuleInv
<1>2. Lasting(q)
  BY <1>1, StepsLast DEF Proceeds, Busy, Outcomes
<1>3. CacheInv'
  BY <1>2, CachesStay DEF CachesInv, CacheInv
<1> QED BY <1>1, <1>2, <1>3, CachesStep, PastStays

LEMMA CachesKeptByWork ==
  ASSUME RuleInv, CachesInv, NEW q \in Requests,
         \/ CheckRule(q) \/ SnapshotVersion(q) \/ DiffRule(q) \/ FinishRule(q)
         \/ FillCache(q) \/ StageRules(q) \/ CacheSimulation(q) \/ RuleFails(q)
  PROVE  CachesInv'
<1> USE DEF Outcomes
<1>1. RequestInv /\ ReaderOK(q) /\ CheckedOK(q)
  BY DEF RuleInv, CachesInv
<1>2. Busy(q)
  BY DEF CheckRule, SnapshotVersion, DiffRule, FinishRule, FillCache, StageRules,
         CacheSimulation, RuleFails, Fails, At, Busy
<1>3. UNCHANGED <<rules, writer>> /\ ActiveRules' = ActiveRules
  BY DEF CheckRule, SnapshotVersion, DiffRule, FinishRule, FillCache, StageRules,
         CacheSimulation, RuleFails, ruleVars, ActiveRules, Exists
<1>4. ASSUME (\E outcome \in Outcomes : Ends(q, outcome)) \/ Fails(q)
      PROVE  /\ Lasting(q) /\ job'[q].kind = job[q].kind
             /\ Overlapped(q) => Overlapped(q)'
             /\ (CacheInv' => CachesInv')
  <2>1. /\ Proceeds(q) /\ job'[q].kind = job[q].kind /\ job'[q].phase \in Outcomes
        /\ job'[q].at = job[q].at
    BY <1>1, <1>2, <1>4, EndsMeans
  <2>2. Lasting(q)
    BY <1>1, <1>2, <2>1, ProceedsMeans, StepsLast DEF Busy
  <2> QED BY <1>2, <1>3, <1>4, <2>1, <2>2, CachesEnd, PastStays
<1>5. CASE RuleFails(q)
  <2>1. UNCHANGED <<active, simulated>> /\ Fails(q)
    BY <1>5 DEF RuleFails, ruleVars
  <2>2. job'[q].phase = "failed"
    BY <1>1, <2>1 DEF Fails, Answered, NoJob, RequestInv
  <2>3. CacheInv'
    BY <1>3, <1>4, <2>1, <2>2, CachesStay DEF CachesInv, CacheInv
  <2> QED BY <1>4, <2>1, <2>3
<1>6. CASE FinishRule(q)
  <2>1. /\ active' = [active EXCEPT ![job[q].at] = {}]
        /\ simulated' = [simulated EXCEPT ![job[q].at] = {s \in @ : s.rule # job[q].rule}]
        /\ Ends(q, "ok")
    BY <1>6 DEF FinishRule, Invalidated
  <2>2. /\ active = [p \in Processes |-> active[p]]
        /\ simulated = [p \in Processes |-> simulated[p]]
        /\ \A p \in Processes : \A c, d \in active[p] : c = d
    BY DEF CachesInv, CacheInv
  <2>3. /\ active' = [p \in Processes |-> active'[p]]
        /\ simulated' = [p \in Processes |-> simulated'[p]]
        /\ \A p \in Processes : /\ active'[p] \subseteq active[p]
                                /\ simulated'[p] \subseteq simulated[p]
        /\ job[q].at \in Processes => /\ active'[job[q].at] = {}
                                      /\ \A s \in simulated'[job[q].at] : s.rule # job[q].rule
    BY <2>1, <2>2
  <2>4. Lasting(q)
    BY <1>4, <2>1
  <2>5. CacheInv'
    BY <1>3, <2>2, <2>3, <2>4, CachesStay DEF CachesInv
  <2> QED BY <1>4, <2>1, <2>5
<1>7. CASE CacheSimulation(q)
  <2>a. PICK s : s = [rule |-> job[q].rule, of |-> job[q].old, by |-> q]
    OBVIOUS
  <2>b. PICK p : p = job[q].at
    OBVIOUS
  <2>1. /\ simulated' = [simulated EXCEPT ![p] = {x \in @ : x.rule # job[q].rule} \cup {s}]
        /\ UNCHANGED active /\ Ends(q, "ok")
    BY <1>7, <2>a, <2>b DEF CacheSimulation
  <2>2. /\ p \in Processes /\ job[q].rule \in RuleIds /\ Exists(job[q].rule)
        /\ job[q].old = rules[job[q].rule] \/ Overlapped(q)
        /\ job[q].kind = "rule_test"
    BY <1>1, <1>7, <2>b DEF ReaderOK, CacheSimulation, At
  <2>3. /\ Lasting(q) /\ job'[q].kind = job[q].kind
        /\ Overlapped(q) => Overlapped(q)'
        /\ (CacheInv' => CachesInv')
    BY <1>4, <2>1
  <2>4. ResultOK(p, s)'
    <3>1. s.rule = job[q].rule /\ s.of = job[q].old /\ s.by = q
      BY <2>a
    <3>2. Exists(s.rule)' /\ rules'[s.rule] = rules[job[q].rule]
      BY <1>3, <2>2, <3>1 DEF Exists
    <3> QED BY <2>2, <2>3, <3>1, <3>2 DEF ResultOK
  <2>5. /\ active = [x \in Processes |-> active[x]]
        /\ simulated = [x \in Processes |-> simulated[x]]
        /\ \A x \in Processes : \A c, d \in active[x] : c = d
    BY DEF CachesInv, CacheInv
  <2>6. /\ simulated' = [x \in Processes |-> simulated'[x]]
        /\ \A x \in Processes : \A r \in simulated'[x] : r \in simulated[x] \/ (x = p /\ r = s)
    BY <2>1, <2>2, <2>5
  <2>7. \A x \in Processes : \A r \in simulated'[x] : r \in simulated[x] \/ ResultOK(x, r)'
    BY <2>4, <2>6
  <2>8. ~At(q, WriteKinds, "audit")
    BY <2>2 DEF At, WriteKinds
  <2>9. CacheInv'
    BY <1>3, <2>1, <2>3, <2>5, <2>6, <2>7, <2>8, CachesStay DEF CachesInv
  <2> QED BY <2>3, <2>9
<1>8. CASE FillCache(q)
  <2>a. PICK l : l = [list |-> job[q].list, by |-> q]
    OBVIOUS
  <2>b. PICK p : p = job[q].at
    OBVIOUS
  <2>1. /\ active' = [active EXCEPT ![p] = {l}] /\ UNCHANGED simulated
        /\ IF job[q].kind = "rule_context" THEN Ends(q, "ok") ELSE Goes(q, "stage")
        /\ job[q].phase = "fill" /\ job[q].kind \in {"rule_context", "rule_import"}
    BY <1>8, <2>a, <2>b DEF FillCache, At
  <2>2. p \in Processes /\ (job[q].list = ActiveRules \/ Overlapped(q))
    BY <1>1, <2>1, <2>b DEF ReaderOK, At
  <2>3. /\ Lasting(q) /\ Steps(q) /\ job'[q].kind = job[q].kind
        /\ (CacheInv' => CachesInv')
    <3>1. CASE Ends(q, "ok")
      <4>1. Proceeds(q) /\ job'[q].kind = job[q].kind
        BY <1>1, <1>2, <3>1, EndsMeans
      <4> QED BY <1>1, <1>4, <3>1, <4>1, ProceedsMeans
    <3>2. CASE Goes(q, "stage") /\ job[q].kind = "rule_import"
      <4>1. /\ Proceeds(q) /\ job'[q] = [job[q] EXCEPT !.phase = "stage"]
            /\ job'[q].phase = "stage"
        BY <1>1, <1>2, <3>2, GoesMeans
      <4>2. /\ job'[q].kind = "rule_import" /\ job'[q].at = job[q].at
            /\ job'[q].list = job[q].list
        BY <3>2, <4>1
      <4>3. Steps(q) /\ Lasting(q)
        BY <1>1, <2>1, <3>2, <4>1, <4>2, ProceedsMeans, StepsLast
      <4>4. ReaderOK(q)'
        <5>1. Overlapped(q) => Overlapped(q)'
          BY <4>3, PastStays
        <5> QED BY <1>3, <2>2, <4>1, <4>2, <5>1 DEF ReaderOK, At
      <4>5. CheckedOK(q)'
        BY <4>1, <4>2 DEF CheckedOK, At
      <4> QED BY <1>3, <3>2, <4>2, <4>3, <4>4, <4>5, CachesStep
    <3> QED BY <2>1, <3>1, <3>2
  <2>4. ListOK(p, l)'
    <3>1. l.list = job[q].list /\ l.by = q
      BY <2>a
    <3>2. job'[q].kind # "none" /\ (Overlapped(q) => Overlapped(q)')
      BY <2>1, <2>3, PastStays
    <3> QED BY <1>3, <2>2, <3>1, <3>2 DEF ListOK
  <2>5. /\ active = [x \in Processes |-> active[x]]
        /\ simulated = [x \in Processes |-> simulated[x]]
        /\ \A x \in Processes : \A c, d \in active[x] : c = d
    BY DEF CachesInv, CacheInv
  <2>6. /\ active' = [x \in Processes |-> active'[x]]
        /\ \A x \in Processes : active'[x] = IF x = p THEN {l} ELSE active[x]
    BY <2>1, <2>2, <2>5
  <2>7. \A x \in Processes : /\ \A c, d \in active'[x] : c = d
                            /\ \A c \in active'[x] : c \in active[x] \/ ListOK(x, c)'
    BY <2>4, <2>5, <2>6
  <2>8. ~At(q, WriteKinds, "audit")
    BY <2>1 DEF At
  <2>9. CacheInv'
    BY <1>3, <2>1, <2>3, <2>5, <2>6, <2>7, <2>8, CachesStay DEF CachesInv
  <2> QED BY <2>3, <2>9
<1>9. ASSUME Ends(q, "refused"), ~At(q, WriteKinds, "audit"), UNCHANGED <<active, simulated>>
      PROVE  CachesInv'
  <2>1. CacheInv'
    BY <1>3, <1>4, <1>9, CachesStay DEF CachesInv, CacheInv
  <2> QED BY <1>4, <1>9, <2>1
<1>10. ASSUME NEW phase, Goes(q, phase), ~At(q, WriteKinds, "audit"),
              UNCHANGED <<active, simulated>>,
              \/ /\ phase = "snapshot" /\ At(q, WriteKinds, "check")
                 /\ NoConflictInTable(job[q].next, {job[q].rule})
              \/ phase = "diff" /\ At(q, WriteKinds, "snapshot")
              \/ /\ phase = "insert" /\ At(q, {"rule_import"}, "stage")
                 /\ BundleIsClean(job[q].bundle, job[q].list)
       PROVE  CachesInv'
  <2>1. /\ Proceeds(q) /\ job'[q] = [job[q] EXCEPT !.phase = phase]
        /\ job'[q].phase = phase /\ UNCHANGED alone
    BY <1>1, <1>2, <1>10, GoesMeans DEF Goes
  <2>2. /\ job'[q].kind = job[q].kind /\ job'[q].at = job[q].at
        /\ job'[q].rule = job[q].rule /\ job'[q].old = job[q].old
        /\ job'[q].next = job[q].next /\ job'[q].dirty = job[q].dirty
        /\ job'[q].list = job[q].list /\ job'[q].bundle = job[q].bundle
        /\ DOMAIN job'[q] = DOMAIN job[q]
    BY <2>1
  <2>3. /\ Overlapped(q) => Overlapped(q)'
        /\ \A p : Blame(p) => Blame(p)'
        /\ (ReaderOK(q)' /\ CheckedOK(q)' => CachesInv')
    BY <1>3, <1>10, <2>1, <2>2, CachesGoOn
  <2>4. CASE /\ phase = "insert" /\ At(q, {"rule_import"}, "stage")
             /\ BundleIsClean(job[q].bundle, job[q].list)
    <3>1. job[q].list = ActiveRules \/ Overlapped(q) \/ Blame(job[q].at)
      BY <1>1, <2>4 DEF ReaderOK
    <3>2. BundleIsClean(job[q].bundle, job[q].list)'
      BY <2>2, <2>4 DEF BundleIsClean, Staged
    <3>3. job'[q].kind = "rule_import"
      BY <2>2, <2>4 DEF At
    <3>4. ReaderOK(q)'
      BY <1>3, <2>1, <2>2, <2>3, <2>4, <3>1, <3>2, <3>3 DEF ReaderOK, At
    <3>5. CheckedOK(q)'
      BY <2>1, <2>4, <3>3 DEF CheckedOK, At
    <3> QED BY <2>3, <3>4, <3>5
  <2>5. CASE \/ /\ phase = "snapshot" /\ At(q, WriteKinds, "check")
                /\ NoConflictInTable(job[q].next, {job[q].rule})
             \/ phase = "diff" /\ At(q, WriteKinds, "snapshot")
    <3>1. /\ job[q].kind \in WriteKinds /\ job[q].phase \in {"check", "snapshot"}
          /\ phase \in {"snapshot", "diff"}
      BY <2>5 DEF At
    <3>2. alone[q] => RuleCopyOK(q)
      BY <1>1, <3>1 DEF CheckedOK
    <3>3. NoConflictInTable(job[q].next, {job[q].rule}) =>
            NoConflictInTable(job[q].next, {job[q].rule})'
      BY <1>3, <2>2 DEF NoConflictInTable, Exists
    <3>4. ASSUME alone'[q] PROVE RuleCopyOK(q)'
      <4>1. RuleCopyOK(q)
        BY <2>1, <3>2, <3>4
      <4>2. job[q].next.isActive => NoConflictInTable(job[q].next, {job[q].rule})
        BY <2>5, <4>1 DEF RuleCopyOK, At
      <4> QED BY <1>3, <2>1, <2>2, <3>1, <3>3, <4>1, <4>2 DEF RuleCopyOK
    <3>5. ReaderOK(q)'
      BY <2>1, <3>1 DEF ReaderOK, At
    <3>6. CheckedOK(q)'
      <4>1. "dirty" \in DOMAIN job'[q]
        BY <1>1, <2>2, <3>1 DEF CheckedOK
      <4> QED BY <2>1, <3>1, <3>4, <4>1 DEF CheckedOK, At
    <3> QED BY <2>3, <3>5, <3>6
  <2> QED BY <1>10, <2>4, <2>5
<1>11. CASE DiffRule(q)
  <2> DEFINE d == Differing(job[q].next, rules[job[q].rule])
  <2>1. /\ job' = [job EXCEPT ![q] = [@ EXCEPT !.phase = "write", !.dirty = d]]
        /\ UNCHANGED alone /\ UNCHANGED <<active, simulated>>
        /\ job[q].kind \in WriteKinds /\ job[q].phase = "diff"
    BY <1>11 DEF DiffRule, ruleVars, At
  <2>2. alone[q] => RuleCopyOK(q)
    BY <1>1, <2>1 DEF CheckedOK
  <2>3. alone[q] => d = Differing(job[q].next, job[q].old)
    BY <2>2 DEF RuleCopyOK
  <2>4. "dirty" \in DOMAIN job[q]
    BY <1>1, <2>1 DEF CheckedOK
  <2> HIDE DEF d
  <2>5. /\ job' = [x \in Requests |-> job'[x]] /\ OthersStay(q)
        /\ job'[q] = [job[q] EXCEPT !.phase = "write", !.dirty = d]
    BY <1>1, <2>1 DEF RequestInv, OthersStay
  <2>6. /\ JobFields \subseteq DOMAIN job'[q] /\ job'[q].phase = "write"
        /\ job'[q].kind = job[q].kind /\ job'[q].rule = job[q].rule
        /\ job'[q].old = job[q].old /\ job'[q].next = job[q].next
        /\ job'[q].at = job[q].at /\ job'[q].dirty = d
    BY <1>1, <2>4, <2>5 DEF RequestInv, JobFields
  <2>7. Proceeds(q)
    BY <1>2, <2>1, <2>5, <2>6 DEF Proceeds
  <2>8. ~At(q, WriteKinds, "audit")
    BY <2>1 DEF At
  <2>9. ReaderOK(q)' /\ CheckedOK(q)' => CachesInv'
    BY <1>3, <2>1, <2>6, <2>7, <2>8, CachesGoOn
  <2>10. ASSUME alone'[q] PROVE RuleCopyOK(q)'
    <3>1. RuleCopyOK(q) /\ d = Differing(job[q].next, job[q].old)
      BY <2>1, <2>2, <2>3, <2>10
    <3>2. NoConflictInTable(job[q].next, {job[q].rule}) =>
            NoConflictInTable(job[q].next, {job[q].rule})'
      BY <1>3, <2>6 DEF NoConflictInTable, Exists
    <3> QED BY <1>3, <2>1, <2>6, <3>1, <3>2 DEF RuleCopyOK, Differing
  <2>11. ReaderOK(q)'
    BY <2>6 DEF ReaderOK, At
  <2>12. CheckedOK(q)'
    BY <2>4, <2>6, <2>10, <2>5 DEF CheckedOK, At
  <2> QED BY <2>9, <2>11, <2>12
<1>12. CASE CheckRule(q)
  BY <1>9, <1>10, <1>12 DEF CheckRule, At, ruleVars
<1>13. CASE SnapshotVersion(q)
  BY <1>10, <1>13 DEF SnapshotVersion, At
<1>14. CASE StageRules(q)
  BY <1>9, <1>10, <1>14 DEF StageRules, At, ruleVars, WriteKinds
<1> QED BY <1>5, <1>6, <1>7, <1>8, <1>11, <1>12, <1>13, <1>14

\* A step of a writer that adds or replaces the rows of S.
LEMMA CachesWritten ==
  ASSUME RuleInv, CachesInv, NEW q \in Requests, Proceeds(q), job[q].kind \in WriteKinds,
         job'[q].kind = job[q].kind, job'[q].at = job[q].at, job'[q].phase = "audit",
         job[q].phase # "audit", UNCHANGED <<active, simulated>>,
         \A r \in RuleIds : Exists(r) => /\ Exists(r)'
                                         /\ rules'[r] = rules[r] \/ job'[q].rule = r,
         NEW S \in SUBSET RuleIds, writer' = [r \in RuleIds |-> writer'[r]],
         \A r \in S : writer'[r] = {q} /\ "isActive" \in DOMAIN rules'[r],
         \A r \in RuleIds \ S : writer'[r] = writer[r] /\ rules'[r] = rules[r],
         \A a \in S, b \in RuleIds : Clash(a, b)' => Caused(q)
  PROVE  CachesInv'
<1>1. Steps(q)
  BY ProceedsMeans DEF RuleInv
<1>2. Lasting(q)
  BY <1>1, StepsLast DEF Proceeds, Busy, Outcomes
<1>3. job[q].kind # "none" /\ ~At(q, WriteKinds, "audit") /\ At(q, WriteKinds, "audit")'
  BY DEF WriteKinds, At
<1>4. CacheInv'
  BY <1>2, <1>3, CachesMiss DEF CachesInv
<1>5. ConflictInv'
  BY <1>2, <1>3, ConflictsCaused DEF CachesInv
<1>6. \A x \in Requests \ {q} : ReaderOK(x)' /\ CheckedOK(x)'
  BY <1>1, <1>2, ReaderStays DEF CachesInv
<1>7. ReaderOK(q)' /\ CheckedOK(q)'
  BY NothingHeld
<1> QED BY <1>4, <1>5, <1>6, <1>7 DEF CachesInv

\* The rows after a step that writes them, seen by the conflict check.
LEMMA ClashMeans ==
  ASSUME NEW a, NEW b, Clash(a, b)'
  PROVE  /\ a # b /\ Exists(a)' /\ Exists(b)'
         /\ rules'[a].isActive /\ rules'[b].isActive
         /\ SameTarget(rules'[a], rules'[b]) /\ Contradicts(rules'[a], rules'[b])
BY DEF Clash, SameTarget, Contradicts, conditionsOverlap, hasTypeSpecificConflict

LEMMA CachesKeptByWrite ==
  ASSUME RuleInv, CachesInv, NEW q \in Requests, WriteRule(q)
  PROVE  CachesInv'
<1>a. PICK r, next, dirty : r = job[q].rule /\ next = job[q].next /\ dirty = job[q].dirty
  OBVIOUS
<1>1. /\ RequestInv /\ RowsInv /\ ChangeOK(q) /\ CheckedOK(q)
      /\ job[q].phase = "write" /\ job[q].kind \in WriteKinds
  BY DEF WriteRule, RuleInv, RuleJobOK, At, CachesInv
<1>2. /\ Proceeds(q) /\ job'[q].phase = "audit"
      /\ job'[q].kind = job[q].kind /\ job'[q].at = job[q].at /\ job'[q].rule = r
  <2>1. Busy(q) /\ Goes(q, "audit")
    BY DEF WriteRule, At, Busy, Outcomes
  <2>2. /\ Proceeds(q) /\ job'[q] = [job[q] EXCEPT !.phase = "audit"]
        /\ job'[q].phase = "audit"
    BY <1>1, <2>1, GoesMeans
  <2> QED BY <1>a, <2>2
<1>3. /\ r \in RuleIds /\ Exists(r)
  BY <1>1, <1>a DEF ChangeOK
<1>4. /\ rules' = [rules EXCEPT ![r] = Written(rules[r], next, dirty)]
      /\ writer' = [writer EXCEPT ![r] = {q}]
      /\ UNCHANGED <<active, simulated>>
  BY <1>a DEF WriteRule
<1>5. alone[q] => RuleCopyOK(q)
  BY <1>1 DEF CheckedOK
<1>6. alone[q] => /\ rules[r] = job[q].old
                  /\ next = [c \in DOMAIN job[q].old |-> next[c]]
                  /\ next.isActive => NoConflictInTable(next, {r})
                  /\ dirty = Differing(next, job[q].old)
  BY <1>1, <1>5, <1>a DEF RuleCopyOK
<1>8. /\ rules' = [x \in RuleIds |-> rules'[x]] /\ writer' = [x \in RuleIds |-> writer'[x]]
      /\ \A x \in RuleIds \ {r} : rules'[x] = rules[x] /\ writer'[x] = writer[x]
      /\ rules'[r] = Written(rules[r], next, dirty) /\ writer'[r] = {q}
  BY <1>1, <1>3, <1>4 DEF RowsInv, CachesInv, ConflictInv
<1>9. "isActive" \in DOMAIN rules'[r] /\ "version" \in DOMAIN rules'[r]
  BY <1>1, <1>3, <1>8 DEF Written, CachesInv, ConflictInv, RowsInv
<1>10. Exists(r)'
  <2>1. rules'[r].version \in Nat \ {0}
    <3>1. /\ rules[r].version \in Nat \ {0} /\ next.version \in Nat \ {0}
          /\ "version" \in DOMAIN rules[r]
      BY <1>1, <1>3, <1>a DEF RowsInv, ChangeOK
    <3>2. rules'[r].version \in {rules[r].version, next.version}
      BY <1>8, <3>1 DEF Written
    <3> QED BY <3>1, <3>2
  <2>2. rules'[r] # NoRule
    BY <2>1 DEF NoRule
  <2> QED BY <2>2 DEF Exists
<1>11. \A x \in RuleIds : Exists(x) => /\ Exists(x)'
                                       /\ rules'[x] = rules[x] \/ job'[q].rule = x
  BY <1>2, <1>8, <1>10 DEF Exists
<1>12. alone[q] => rules'[r] = next
  <2> SUFFICES ASSUME alone[q] PROVE rules'[r] = next
    OBVIOUS
  <2>1. rules'[r] = [c \in DOMAIN rules[r] |->
                       IF c \in Differing(next, rules[r]) THEN next[c] ELSE rules[r][c]]
    BY <1>6, <1>8 DEF Written
  <2>2. \A c \in DOMAIN rules[r] : rules'[r][c] = next[c]
    BY <2>1 DEF Differing
  <2> QED BY <1>6, <2>1, <2>2
<1>13. ASSUME NEW b \in RuleIds, Clash(r, b)' PROVE Caused(q)
  <2> SUFFICES ASSUME alone[q] PROVE FALSE
    BY DEF Caused
  <2>1. /\ b # r /\ next.isActive /\ Exists(b)' /\ rules'[b].isActive
        /\ SameTarget(next, rules'[b]) /\ Contradicts(next, rules'[b])
    BY <1>12, <1>13, ClashMeans
  <2>2. rules'[b] = rules[b] /\ Exists(b)
    BY <1>8, <2>1 DEF Exists
  <2>3. NoConflictInTable(next, {r})
    BY <1>6, <2>1
  <2> QED BY <2>1, <2>2, <2>3 DEF NoConflictInTable
<1>14. \A a \in {r}, b \in RuleIds : Clash(a, b)' => Caused(q)
  BY <1>13
<1> QED
  <2> DEFINE S == {r}
  <2>1. /\ S \in SUBSET RuleIds /\ writer' = [x \in RuleIds |-> writer'[x]]
        /\ \A x \in S : writer'[x] = {q} /\ "isActive" \in DOMAIN rules'[x]
        /\ \A x \in RuleIds \ S : writer'[x] = writer[x] /\ rules'[x] = rules[x]
        /\ \A a \in S, b \in RuleIds : Clash(a, b)' => Caused(q)
    BY <1>3, <1>8, <1>9, <1>14
  <2>2. UNCHANGED <<active, simulated>> /\ job[q].phase # "audit"
    BY <1>1, <1>4
  <2> HIDE DEF S
  <2> QED BY <1>1, <1>2, <1>11, <2>1, <2>2, CachesWritten

LEMMA CachesKeptByInserts ==
  ASSUME RuleInv, CachesInv, NEW q \in Requests, InsertRule(q) \/ InsertBundle(q)
  PROVE  CachesInv'
<1>1. /\ RequestInv /\ RowsInv /\ ReaderOK(q) /\ CheckedOK(q) /\ RuleJobOK(q)
      /\ RuleIds \subseteq Nat \ {0}
  BY RulesAssumption DEF RuleInv, CachesInv
<1>2. CASE InsertRule(q)
  <2>a. PICK r, next : r = Min(FreeIds) /\ next = job[q].next
    OBVIOUS
  <2>1. /\ FreeIds # {} /\ UNCHANGED <<active, simulated>> /\ UNCHANGED alone
        /\ rules' = [rules EXCEPT ![r] = next] /\ writer' = [writer EXCEPT ![r] = {q}]
        /\ job' = [job EXCEPT ![q].phase = "audit", ![q].rule = r]
        /\ At(q, {"rule_create"}, "insert")
    BY <1>2, <2>a DEF InsertRule
  <2>2. r \in RuleIds /\ \A x \in RuleIds : Exists(x) <=> x < r
    BY <1>1, <2>a, <2>1, FirstFreeRule
  <2>3. /\ job' = [job EXCEPT ![q] = [@ EXCEPT !.phase = "audit", !.rule = r]]
        /\ job[q].kind = "rule_create" /\ job[q].phase = "insert"
    BY <2>1 DEF At
  <2>4. /\ job' = [x \in Requests |-> job'[x]] /\ OthersStay(q)
        /\ job'[q] = [job[q] EXCEPT !.phase = "audit", !.rule = r]
    BY <1>1, <2>3 DEF RequestInv, OthersStay
  <2>5. /\ JobFields \subseteq DOMAIN job'[q] /\ job'[q].phase = "audit"
        /\ job'[q].kind = job[q].kind /\ job'[q].at = job[q].at
    BY <1>1, <2>4 DEF RequestInv, JobFields
  <2>6. Proceeds(q)
    BY <2>1, <2>3, <2>4, <2>5 DEF Proceeds, Busy, Outcomes
  <2>7. /\ rules' = [x \in RuleIds |-> rules'[x]] /\ writer' = [x \in RuleIds |-> writer'[x]]
        /\ \A x \in RuleIds \ {r} : rules'[x] = rules[x] /\ writer'[x] = writer[x]
        /\ rules'[r] = next /\ writer'[r] = {q}
    BY <1>1, <2>1, <2>2 DEF RowsInv, CachesInv, ConflictInv
  <2>8. "isActive" \in DOMAIN next /\ (alone[q] => NoConflictInTable(next, {}))
    BY <1>1, <2>1, <2>a DEF CheckedOK
  <2>9. \A x \in RuleIds : Exists(x) => Exists(x)' /\ rules'[x] = rules[x]
    <3>1. ~(r < r)
      BY <1>1, <2>2
    <3> QED BY <2>2, <2>7, <3>1 DEF Exists
  <2>10. ASSUME NEW b \in RuleIds, Clash(r, b)' PROVE Caused(q)
    <3> SUFFICES ASSUME alone[q] PROVE FALSE
      BY DEF Caused
    <3>1. /\ b # r /\ Exists(b)' /\ rules'[b].isActive
          /\ SameTarget(next, rules'[b]) /\ Contradicts(next, rules'[b])
      BY <2>7, <2>10, ClashMeans
    <3>2. rules'[b] = rules[b] /\ Exists(b)
      BY <2>7, <3>1 DEF Exists
    <3> QED BY <2>8, <3>1, <3>2 DEF NoConflictInTable
  <2> DEFINE S == {r}
  <2>11. /\ S \in SUBSET RuleIds
         /\ \A x \in S : writer'[x] = {q} /\ "isActive" \in DOMAIN rules'[x]
         /\ \A x \in RuleIds \ S : writer'[x] = writer[x] /\ rules'[x] = rules[x]
         /\ \A a \in S, b \in RuleIds : Clash(a, b)' => Caused(q)
    BY <2>2, <2>7, <2>8, <2>10
  <2>12. /\ UNCHANGED <<active, simulated>> /\ job[q].phase # "audit"
         /\ job[q].kind \in WriteKinds
    BY <2>1, <2>3 DEF WriteKinds
  <2> HIDE DEF S
  <2> QED BY <2>5, <2>6, <2>7, <2>9, <2>11, <2>12, CachesWritten
<1>3. CASE InsertBundle(q)
  <2>a. PICK m, b, l : m = Min(FreeIds) /\ b = job[q].bundle /\ l = job[q].list
    OBVIOUS
  <2>b. PICK k : k = m + Len(b) - 1
    OBVIOUS
  <2>1. /\ Proceeds(q) /\ job'[q].phase = "audit"
        /\ job'[q].kind = job[q].kind /\ job'[q].at = job[q].at
    <3>1. Busy(q) /\ Goes(q, "audit")
      BY <1>3 DEF InsertBundle, At, Busy, Outcomes
    <3>2. /\ Proceeds(q) /\ job'[q] = [job[q] EXCEPT !.phase = "audit"]
          /\ job'[q].phase = "audit"
      BY <1>1, <3>1, GoesMeans
    <3> QED BY <3>2
  <2>2. job[q].kind = "rule_import" /\ job[q].phase = "insert" /\ b \in Bundles
    BY <1>1, <1>3, <2>a DEF InsertBundle, RuleJobOK, At
  <2>3. Len(b) \in Nat \ {0} /\ DOMAIN b = 1 .. Len(b)
    BY <2>2, RulesAssumption
  <2>4. FreeIds # {}
    <3>1. Cardinality(FreeIds) >= Len(b)
      BY <1>3, <2>a DEF InsertBundle
    <3>2. Cardinality({}) = 0
      BY FS_EmptySet
    <3>3. FreeIds = {} => 0 >= Len(b)
      BY <3>1, <3>2, Zenon
    <3> QED BY <2>3, <3>3
  <2>5. m \in RuleIds /\ \A x \in RuleIds : Exists(x) <=> x < m
    BY <1>1, <2>a, <2>4, FirstFreeRule
  <2>6. /\ rules' = [r \in RuleIds |-> IF r \in m .. k THEN Staged(b)[r - m + 1] ELSE rules[r]]
        /\ writer' = [r \in RuleIds |-> IF r \in m .. k THEN {q} ELSE writer[r]]
        /\ UNCHANGED <<active, simulated>>
    BY <1>3, <2>a, <2>b DEF InsertBundle
  <2>7. k \in Nat /\ m <= k /\ m \in Nat
    BY <1>1, <2>3, <2>5, <2>b
  <2>8. ASSUME NEW r \in RuleIds, r \in m .. k
        PROVE  /\ r - m + 1 \in 1 .. Len(b) /\ rules'[r] = Staged(b)[r - m + 1]
               /\ "isActive" \in DOMAIN rules'[r]
               /\ rules'[r].isActive = b[r - m + 1].isActive
    <3>a. PICK i : i = r - m + 1
      OBVIOUS
    <3>1. i \in 1 .. Len(b) /\ i \in DOMAIN b
      BY <1>1, <2>3, <2>7, <2>8, <2>b, <3>a
    <3>2. rules'[r] = Staged(b)[i]
      BY <2>6, <2>8, <3>a
    <3>3. rules'[r] = NewRow(b[i].draft, b[i].version, b[i].isActive)
      BY <3>1, <3>2 DEF Staged
    <3>4. "isActive" \in DOMAIN rules'[r] /\ rules'[r].isActive = b[i].isActive
      BY <3>3 DEF NewRow
    <3> QED BY <3>1, <3>2, <3>4, <3>a
  <2>9. \A x \in RuleIds : Exists(x) => Exists(x)' /\ rules'[x] = rules[x]
    <3>1. \A x \in RuleIds : x < m => x \notin m .. k
      BY <1>1, <2>7
    <3> QED BY <2>5, <2>6, <3>1 DEF Exists
  <2>10. BundleIsClean(b, l) /\ (l = ActiveRules \/ Caused(q))
    BY <1>1, <2>2, <2>a DEF ReaderOK, At, Caused, Overlapped
  <2>11. ASSUME NEW x \in RuleIds, NEW y \in RuleIds, x \in m .. k, Clash(x, y)'
         PROVE  Caused(q)
    <3> SUFFICES ASSUME l = ActiveRules PROVE FALSE
      BY <2>10
    <3>1. /\ x # y /\ Exists(y)' /\ rules'[x].isActive /\ rules'[y].isActive
          /\ SameTarget(rules'[x], rules'[y]) /\ Contradicts(rules'[x], rules'[y])
      BY <2>11, ClashMeans
    <3>2. CASE y \in m .. k
      <4>1. ASSUME NEW u \in RuleIds, NEW v \in RuleIds, u \in m .. k, v \in m .. k, v < u,
                   rules'[u].isActive
            PROVE  ~Contradicts(rules'[u], rules'[v])
        <5>a. PICK i, j : i = u - m + 1 /\ j = v - m + 1
          OBVIOUS
        <5>1. /\ i \in 1 .. Len(b) /\ rules'[u] = Staged(b)[i] /\ b[i].isActive
              /\ j \in 1 .. Len(b) /\ rules'[v] = Staged(b)[j]
          BY <2>8, <4>1, <5>a
        <5>2. j \in 1 .. (i - 1)
          BY <1>1, <2>7, <4>1, <5>a, <5>1
        <5> QED BY <2>3, <2>10, <5>1, <5>2 DEF BundleIsClean
      <4>2. Contradicts(rules'[y], rules'[x])
        BY <3>1, ContradictionIsMutual
      <4>3. x < y \/ y < x
        BY <1>1, <3>1
      <4> QED BY <2>11, <3>1, <3>2, <4>1, <4>2, <4>3
    <3>3. CASE y \notin m .. k
      <4>1. rules'[y] = rules[y]
        BY <2>6, <3>3
      <4>2. <<y, rules[y]>> \in l
        BY <3>1, <4>1 DEF ActiveRules, Exists
      <4>a. PICK i : i = x - m + 1
        OBVIOUS
      <4>3. i \in 1 .. Len(b) /\ rules'[x] = Staged(b)[i] /\ b[i].isActive
        BY <2>8, <2>11, <3>1, <4>a
      <4>4. \A e \in l : ~Contradicts(Staged(b)[i], e[2])
        BY <2>3, <2>10, <4>3 DEF BundleIsClean
      <4>5. ~Contradicts(Staged(b)[i], rules[y])
        BY <4>2, <4>4
      <4> QED BY <3>1, <4>1, <4>3, <4>5
    <3> QED BY <3>2, <3>3
  <2> DEFINE S == RuleIds \cap (m .. k)
  <2>12. /\ S \in SUBSET RuleIds /\ writer' = [r \in RuleIds |-> writer'[r]]
         /\ \A r \in S : writer'[r] = {q} /\ "isActive" \in DOMAIN rules'[r]
         /\ \A r \in RuleIds \ S : writer'[r] = writer[r] /\ rules'[r] = rules[r]
         /\ \A x \in S, y \in RuleIds : Clash(x, y)' => Caused(q)
    BY <2>6, <2>8, <2>11
  <2>13. /\ UNCHANGED <<active, simulated>> /\ job[q].phase # "audit"
         /\ job[q].kind \in WriteKinds
    BY <2>2, <2>6 DEF WriteKinds
  <2> HIDE DEF S
  <2> QED BY <2>1, <2>9, <2>12, <2>13, CachesWritten
<1> QED BY <1>2, <1>3

\* Every step of the rules module preserves what is said of the caches and of the conflicts.
THEOREM RuleCachesInvariance == RuleSpec => []CachesInv
<1>1. RequestInit /\ RuleInit => CachesInv
  <2> SUFFICES ASSUME RequestInit, RuleInit PROVE CachesInv
    OBVIOUS
  <2>1. /\ rules = [r \in RuleIds |-> IF r = 1 THEN NewRow(FirstRule, 1, TRUE) ELSE NoRule]
        /\ active = [p \in Processes |-> {}] /\ simulated = [p \in Processes |-> {}]
        /\ writer = [r \in RuleIds |-> {}]
    BY DEF RuleInit
  <2>2. CacheInv
    BY <2>1 DEF CacheInv
  <2>3. \A r \in RuleIds : Exists(r) => r = 1 /\ "isActive" \in DOMAIN rules[r]
    <3>1. "isActive" \in DOMAIN NewRow(FirstRule, 1, TRUE)
      BY DEF NewRow
    <3> QED BY <2>1, <3>1 DEF Exists
  <2>4. ConflictInv
    <3>1. \A a, b \in RuleIds : ~Clash(a, b)
      BY <2>3 DEF Clash
    <3> QED BY <2>1, <2>3, <3>1 DEF ConflictInv
  <2>5. ASSUME NEW q \in Requests PROVE ReaderOK(q) /\ CheckedOK(q)
    <3>1. job[q].phase = "idle"
      BY DEF RequestInit, NoJob
    <3> QED BY <3>1 DEF ReaderOK, CheckedOK, At
  <2> QED BY <2>2, <2>4, <2>5 DEF CachesInv
<1>2. RuleInv /\ CachesInv /\ [RuleNext]_<<requestVars, ruleVars>> => CachesInv'
  <2> SUFFICES ASSUME RuleInv, CachesInv, [RuleNext]_<<requestVars, ruleVars>>
               PROVE  CachesInv'
    OBVIOUS
  <2>1. ASSUME UNCHANGED <<job, alone, rules, writer>>, CacheInv' PROVE CachesInv'
    <3>1. ConflictInv'
      BY <2>1 DEF CachesInv, ConflictInv, Exists, Clash, Caused, Blame, Overlapped, Settled
    <3>2. ASSUME NEW q \in Requests PROVE ReaderOK(q)' /\ CheckedOK(q)'
      <4>1. ReaderOK(q) /\ CheckedOK(q)
        BY DEF CachesInv
      <4>2. ReaderOK(q)'
        BY <2>1, <4>1 DEF ReaderOK, At, ActiveRules, Exists, Overlapped, Blame, Settled,
                          BundleIsClean, Staged
      <4>3. CheckedOK(q)'
        BY <2>1, <4>1 DEF CheckedOK, At, RuleCopyOK, NoConflictInTable, Exists
      <4> QED BY <4>2, <4>3
    <3> QED BY <2>1, <3>1, <3>2 DEF CachesInv
  <2>2. CASE UNCHANGED <<requestVars, ruleVars>>
    <3>1. UNCHANGED <<job, alone, rules, writer, active, simulated>>
      BY <2>2 DEF requestVars, ruleVars
    <3>2. CacheInv'
      BY <3>1 DEF CachesInv, CacheInv, ListOK, ResultOK, ActiveRules, Exists, Overlapped,
                  Unaware, UnawareOf, Settled, At
    <3> QED BY <2>1, <3>1, <3>2
  <2>3. ASSUME NEW p \in Processes, Expire(p) PROVE CachesInv'
    <3>1. /\ UNCHANGED <<job, alone, rules, writer>>
          /\ active' = [active EXCEPT ![p] = {}] /\ simulated' = [simulated EXCEPT ![p] = {}]
      BY <2>3 DEF Expire, requestVars
    <3>2. /\ active' = [x \in Processes |-> active'[x]]
          /\ simulated' = [x \in Processes |-> simulated'[x]]
          /\ \A x \in Processes : /\ active'[x] \subseteq active[x]
                                  /\ simulated'[x] \subseteq simulated[x]
      BY <3>1 DEF CachesInv, CacheInv
    <3>3. ASSUME NEW x \in Processes, NEW c \in active'[x] PROVE ListOK(x, c)'
      <4>1. ListOK(x, c)
        BY <3>2, <3>3 DEF CachesInv, CacheInv
      <4> QED BY <3>1, <4>1 DEF ListOK, ActiveRules, Exists, Overlapped, Unaware, Settled, At
    <3>4. ASSUME NEW x \in Processes, NEW s \in simulated'[x] PROVE ResultOK(x, s)'
      <4>1. ResultOK(x, s)
        BY <3>2, <3>4 DEF CachesInv, CacheInv
      <4> QED BY <3>1, <4>1 DEF ResultOK, Exists, Overlapped, UnawareOf, Settled, At
    <3>5. CacheInv'
      BY <3>2, <3>3, <3>4 DEF CachesInv, CacheInv
    <3> QED BY <2>1, <3>1, <3>5
  <2>4. ASSUME NEW q \in Requests,
               \/ CreateRule(q) \/ InsertRule(q) \/ UpdateRule(q) \/ Activate(q) \/ Deactivate(q)
               \/ SoftDelete(q) \/ CheckRule(q) \/ SnapshotVersion(q) \/ DiffRule(q)
               \/ WriteRule(q) \/ FinishRule(q) \/ ContextRules(q) \/ ImportRules(q)
               \/ FillCache(q) \/ StageRules(q) \/ InsertBundle(q) \/ TestRule(q)
               \/ CacheSimulation(q) \/ RuleFails(q)
        PROVE  CachesInv'
    BY <2>4, CachesKeptByBegins, CachesKeptByWork, CachesKeptByWrite, CachesKeptByInserts
  <2> QED BY <2>2, <2>3, <2>4 DEF RuleNext
<1> QED BY <1>1, <1>2, RuleInvariance, PTL DEF RuleSpec

\* What a process has cached is out of date only when its reader overlapped another request
\* or a writer is elsewhere, is not done yet or has failed: FinishRule forgets, at its own
\* process, what the write has made stale, and a request that was alone read no older table.
THEOREM CachesAreExplained == RuleSpec => []StaleCacheIsExplained
<1>1. CachesInv => StaleCacheIsExplained
  BY CachesExplained
<1> QED BY <1>1, RuleCachesInvariance, PTL

\* Two active rules contradict each other only when a writer of them overlapped somebody,
\* or imported a bundle that was compared with a list some other writer had made stale: the
\* check of ensureNoConflict() is enough for a request that is alone.
THEOREM OnlyRacesConflict == RuleSpec => []ConflictsAreRaces
<1>1. CachesInv => ConflictsAreRaces
  BY CachesExplained
<1> QED BY <1>1, RuleCachesInvariance, PTL

-------------------------------------------------------------------------------
(* Applications: the version that is current never has a number that no    *)
(* version has, and what is published is one version or none.              *)

AppColumns == {"name", "status", "currentVersion", "publishedVersion"}

\* A row of application a, or a copy of it that a request keeps.
AppRowOK(a, row) ==
  /\ AppColumns \subseteq DOMAIN row
  /\ row.currentVersion = 0 \/ VersionTaken(a, row.currentVersion)
  /\ \A n \in row.publishedVersion : VersionTaken(a, n)
  /\ \A m, n \in row.publishedVersion : m = n

AppRowsInv ==
  /\ apps = [a \in AppIds |-> apps[a]]
  /\ \A a \in AppIds : HasApp(a) => AppRowOK(a, apps[a])

VersionsInv ==
  /\ IsFiniteSet(appVersions)
  /\ \A v \in appVersions : v.app \in AppIds /\ HasApp(v.app)
  /\ \A v, w \in appVersions : v.app = w.app /\ v.number = w.number => v = w
  /\ \A a \in AppIds : \E m \in Nat : NumbersOf(a) = 1 .. m
  /\ \A v \in appVersions : {"app", "number", "isPublished"} \subseteq DOMAIN v

\* update() and archive() between their read and their save().
Saves     == {"app_update", "app_archive"}
Saving(q) == job[q].kind \in Saves /\ job[q].phase \in {"diff", "write"}

AppJobOK(q) ==
  /\ Saving(q) => /\ job[q].app \in AppIds /\ HasApp(job[q].app)
                  /\ AppRowOK(job[q].app, job[q].next)
  /\ At(q, {"app_create"}, "insert") => \E name : job[q].next = NewApp(name, NoSchema, 0)
  /\ At(q, {"app_draft"}, "save") => job[q].app \in AppIds /\ HasApp(job[q].app)

\* Unless a save() has overlapped somebody, its copy agrees on what is published.
Raced     == \E q \in Requests : job[q].kind \in Saves /\ ~alone[q]
FlagsOK   == \A a \in AppIds : HasApp(a) => \A v \in Served(a) : v.isPublished
CopyOK(q) == Saving(q) => job[q].next.publishedVersion = apps[job[q].app].publishedVersion

AppInv ==
  /\ RequestInv /\ AppRowsInv /\ VersionsInv
  /\ \A q \in Requests : AppJobOK(q)
  /\ Raced \/ (FlagsOK /\ \A q \in Requests : CopyOK(q))

\* A step of q keeps what it says of its own job and of the tables, and takes no row away.
LEMMA AppStep ==
  ASSUME AppInv, NEW q \in Requests, RequestInv', Steps(q), AppRowsInv', VersionsInv',
         AppJobOK(q)', FlagsOK /\ CopyOK(q) => (FlagsOK /\ CopyOK(q))',
         \A a \in AppIds : HasApp(a) => HasApp(a)',
         \A v \in appVersions : \E w \in appVersions' : w.app = v.app /\ w.number = v.number
  PROVE  AppInv'
<1>1. ASSUME NEW x \in Requests \ {q} PROVE AppJobOK(x)'
  <2>1. job'[x] = job[x] /\ AppJobOK(x)
    BY DEF AppInv, Steps, OthersStay
  <2> QED BY <2>1 DEF AppJobOK, Saving, At, AppRowOK, VersionTaken
<1>2. CASE Raced
  <2>1. Raced'
    <3>1. PICK x \in Requests : job[x].kind \in Saves /\ ~alone[x]
      BY <1>2 DEF Raced
    <3>2. job[x].kind # "none"
      BY <3>1 DEF Saves
    <3>3. ~alone'[x] /\ job'[x].kind = job[x].kind
      BY <3>1, <3>2 DEF Steps, OthersStay
    <3> QED BY <3>1, <3>3 DEF Raced
  <2> QED BY <1>1, <2>1 DEF AppInv
<1>3. CASE ~Raced
  <2>1. FlagsOK /\ \A x \in Requests : CopyOK(x)
    BY <1>3 DEF AppInv
  <2>2. ASSUME ~Raced' PROVE FlagsOK' /\ \A x \in Requests : CopyOK(x)'
    <3>1. ASSUME NEW x \in Requests \ {q} PROVE ~Saving(x)'
      <4>1. job'[x] = job[x] /\ (Busy(x) => ~alone'[x])
        BY DEF Steps, OthersStay
      <4>2. Saving(x)' => Busy(x) /\ job'[x].kind \in Saves
        BY <4>1 DEF Saving, Busy, Outcomes
      <4> QED BY <2>2, <4>1, <4>2 DEF Raced
    <3>2. \A x \in Requests \ {q} : CopyOK(x)'
      BY <3>1 DEF CopyOK
    <3> QED BY <2>1, <3>2
  <2> QED BY <1>1, <2>2 DEF AppInv
<1> QED BY <1>2, <1>3

\* A step that leaves both tables as they are.
LEMMA AppIdle ==
  ASSUME AppInv, NEW q \in Requests, RequestInv', Steps(q), UNCHANGED appVars,
         AppJobOK(q)', CopyOK(q) => CopyOK(q)'
  PROVE  AppInv'
<1>1. UNCHANGED <<apps, appVersions>>
  BY DEF appVars
<1>2. AppRowsInv' /\ VersionsInv' /\ (FlagsOK <=> FlagsOK')
  BY <1>1 DEF AppInv, AppRowsInv, VersionsInv, HasApp, AppRowOK, VersionTaken, NumbersOf,
              FlagsOK, Served
<1> QED BY <1>1, <1>2, AppStep DEF HasApp

\* Requests that have ended keep no copy.
LEMMA HarmlessAppJobs ==
  ASSUME NEW q \in Requests, \/ job'[q].phase \in {"audit", "ok", "refused", "failed"}
  PROVE  AppJobOK(q)' /\ CopyOK(q)'
BY DEF AppJobOK, CopyOK, Saving, At

LEMMA AppAnswered ==
  ASSUME AppInv, NEW q \in Requests, NEW kind, NEW outcome \in Outcomes,
         Begins(q, Answered(kind, outcome))
  PROVE  /\ RequestInv' /\ Steps(q) /\ AppJobOK(q)' /\ CopyOK(q)'
         /\ UNCHANGED appVars => AppInv'
<1>1. RequestInv' /\ Steps(q) /\ job'[q] = Answered(kind, outcome)
  BY BeginsMeans, AnsweredFields DEF AppInv
<1>2. job'[q].phase \in {"audit", "ok", "refused", "failed"}
  BY <1>1 DEF Answered, NoJob, Outcomes
<1> QED BY <1>1, <1>2, HarmlessAppJobs, AppIdle

\* Steps of a request at work after which it only has to be audited, or is over.
LEMMA AppProceeds ==
  ASSUME AppInv, NEW q \in Requests, Busy(q),
         \/ Goes(q, "audit") \/ (\E outcome \in Outcomes : Ends(q, outcome)) \/ Fails(q)
  PROVE  /\ RequestInv' /\ Steps(q) /\ AppJobOK(q)' /\ CopyOK(q)'
         /\ UNCHANGED appVars => AppInv'
<1>1. RequestInv
  BY DEF AppInv
<1>2. /\ Proceeds(q) /\ job'[q].kind = job[q].kind
      /\ job'[q].phase \in {"audit", "ok", "refused", "failed"}
  <2>1. CASE Goes(q, "audit")
    <3>1. /\ Proceeds(q) /\ job'[q] = [job[q] EXCEPT !.phase = "audit"]
          /\ job'[q].phase = "audit"
      BY <1>1, <2>1, GoesMeans
    <3> QED BY <3>1
  <2>2. CASE (\E outcome \in Outcomes : Ends(q, outcome)) \/ Fails(q)
    BY <1>1, <2>2, EndsMeans DEF Outcomes
  <2> QED BY <2>1, <2>2
<1>3. RequestInv' /\ Steps(q)
  BY <1>1, <1>2, ProceedsMeans
<1> QED BY <1>2, <1>3, HarmlessAppJobs, AppIdle

\* createApp(), update(), archive() and the read before saveDraftSchema().
LEMMA AppBeginsKeep ==
  ASSUME AppInv, NEW q \in Requests,
         CreateApp(q) \/ UpdateApp(q) \/ ArchiveApp(q) \/ SeeDraft(q)
  PROVE  AppInv'
<1> USE DEF Outcomes
<1>1. UNCHANGED appVars /\ UNCHANGED <<apps, appVersions>> /\ RequestInv
  BY DEF CreateApp, UpdateApp, ArchiveApp, SeeDraft, appVars, AppInv
<1>2. CASE CreateApp(q)
  <2>1. PICK n \in Names :
          \/ Begins(q, Answered("app_create", "refused"))
          \/ Begins(q, AppJob("app_create", "insert", 0, NewApp(n, NoSchema, 0)))
    BY <1>2 DEF CreateApp
  <2>2. CASE Begins(q, Answered("app_create", "refused"))
    BY <1>1, <2>2, AppAnswered
  <2>3. CASE Begins(q, AppJob("app_create", "insert", 0, NewApp(n, NoSchema, 0)))
    <3> DEFINE j == AppJob("app_create", "insert", 0, NewApp(n, NoSchema, 0))
    <3>1. /\ JobFields \subseteq DOMAIN j /\ j.kind = "app_create" /\ j.phase = "insert"
          /\ j.next = NewApp(n, NoSchema, 0)
      BY DEF AppJob, JobFields
    <3> HIDE DEF j
    <3>2. Begins(q, j)
      BY <2>3 DEF j
    <3>3. RequestInv' /\ Steps(q) /\ job'[q] = j
      BY <1>1, <3>1, <3>2, BeginsMeans
    <3>4. AppJobOK(q)' /\ CopyOK(q)'
      BY <3>1, <3>3 DEF AppJobOK, CopyOK, Saving, Saves, At
    <3> QED BY <1>1, <3>3, <3>4, AppIdle
  <2> QED BY <2>1, <2>2, <2>3
<1>3. ASSUME NEW kind \in Saves, NEW a \in AppIds, HasApp(a), NEW next,
             AppColumns \subseteq DOMAIN next,
             next.currentVersion = apps[a].currentVersion,
             next.publishedVersion = apps[a].publishedVersion,
             Begins(q, AppJob(kind, "diff", a, next))
      PROVE  AppInv'
  <2> DEFINE j == AppJob(kind, "diff", a, next)
  <2>1. /\ JobFields \subseteq DOMAIN j /\ j.kind = kind /\ j.phase = "diff"
        /\ j.app = a /\ j.next = next
    BY DEF AppJob, JobFields
  <2> HIDE DEF j
  <2>2. Begins(q, j)
    BY <1>3 DEF j
  <2>3. RequestInv' /\ Steps(q) /\ job'[q] = j
    BY <1>1, <2>1, <2>2, BeginsMeans
  <2>4. AppRowOK(a, apps[a])
    BY <1>3 DEF AppInv, AppRowsInv
  <2>5. AppJobOK(q)' /\ CopyOK(q)'
    BY <1>1, <1>3, <2>1, <2>3, <2>4
       DEF AppJobOK, CopyOK, Saving, Saves, At, AppRowOK, VersionTaken, HasApp
  <2> QED BY <1>1, <2>3, <2>5, AppIdle
<1>4. ASSUME NEW a \in AppIds, HasApp(a)
      PROVE  AppColumns \subseteq DOMAIN apps[a]
  BY <1>4 DEF AppInv, AppRowsInv, AppRowOK
<1>5. CASE UpdateApp(q)
  <2>1. PICK a \in AppIds, n \in Names :
          /\ HasApp(a)
          /\ \/ Begins(q, Answered("app_update", "refused"))
             \/ Begins(q, AppJob("app_update", "diff", a, [apps[a] EXCEPT !.name = n]))
    BY <1>5 DEF UpdateApp
  <2>2. CASE Begins(q, Answered("app_update", "refused"))
    BY <1>1, <2>2, AppAnswered
  <2>3. CASE Begins(q, AppJob("app_update", "diff", a, [apps[a] EXCEPT !.name = n]))
    <3> DEFINE next == [apps[a] EXCEPT !.name = n]
    <3>1. /\ AppColumns \subseteq DOMAIN next /\ next.currentVersion = apps[a].currentVersion
          /\ next.publishedVersion = apps[a].publishedVersion
      BY <1>4, <2>1 DEF AppColumns
    <3> HIDE DEF next
    <3> QED BY <1>3, <2>1, <2>3, <3>1 DEF Saves, next
  <2> QED BY <2>1, <2>2, <2>3
<1>6. CASE ArchiveApp(q)
  <2>1. PICK a \in AppIds :
          /\ HasApp(a)
          /\ Begins(q, AppJob("app_archive", "diff", a, [apps[a] EXCEPT !.status = "archived"]))
    BY <1>6 DEF ArchiveApp
  <2> DEFINE next == [apps[a] EXCEPT !.status = "archived"]
  <2>2. /\ AppColumns \subseteq DOMAIN next /\ next.currentVersion = apps[a].currentVersion
        /\ next.publishedVersion = apps[a].publishedVersion
    BY <1>4, <2>1 DEF AppColumns
  <2>3. Begins(q, AppJob("app_archive", "diff", a, next))
    BY <2>1
  <2> HIDE DEF next
  <2> QED BY <1>3, <2>1, <2>2, <2>3 DEF Saves
<1>7. CASE SeeDraft(q)
  <2>1. PICK a \in AppIds, s \in Schemas, guarded \in BOOLEAN :
          /\ HasApp(a)
          /\ Begins(q, [kind |-> "app_draft", at |-> NoProcess, phase |-> "save", app |-> a,
                        schema |-> s, saw |-> apps[a].draftSchema,
                        expected |-> IF guarded THEN {apps[a].schemaRevision} ELSE {}])
    BY <1>7, Zenon DEF SeeDraft
  <2> DEFINE expected == IF guarded THEN {apps[a].schemaRevision} ELSE {}
             j == [kind |-> "app_draft", at |-> NoProcess, phase |-> "save", app |-> a,
                   schema |-> s, saw |-> apps[a].draftSchema, expected |-> expected]
  <2>2. /\ JobFields \subseteq DOMAIN j /\ j.kind = "app_draft" /\ j.phase = "save"
        /\ j.app = a
    BY DEF JobFields
  <2>3. Begins(q, j)
    BY <2>1, Zenon
  <2> HIDE DEF j
  <2>4. RequestInv' /\ Steps(q) /\ job'[q] = j
    BY <1>1, <2>2, <2>3, BeginsMeans
  <2>5. AppJobOK(q)' /\ CopyOK(q)'
    BY <1>1, <2>1, <2>2, <2>4 DEF AppJobOK, CopyOK, Saving, Saves, At, HasApp
  <2> QED BY <1>1, <2>4, <2>5, AppIdle
<1> QED BY <1>2, <1>5, <1>6, <1>7

LEMMA DiffAppKeeps ==
  ASSUME AppInv, NEW q \in Requests, DiffApp(q)
  PROVE  AppInv'
<1> DEFINE d == Differing(job[q].next, apps[job[q].app])
<1>1. /\ RequestInv /\ AppJobOK(q) /\ Busy(q) /\ Saving(q)
      /\ UNCHANGED appVars /\ UNCHANGED <<apps, appVersions>>
  BY DEF DiffApp, AppInv, At, Busy, Outcomes, Saving, Saves, appVars
<1>2. /\ job' = [job EXCEPT ![q] = [@ EXCEPT !.phase = "write", !.dirty = d]]
      /\ UNCHANGED alone
  BY DEF DiffApp
<1> HIDE DEF d
<1>3. /\ job' = [x \in Requests |-> job'[x]] /\ OthersStay(q)
      /\ job'[q] = [job[q] EXCEPT !.phase = "write", !.dirty = d]
  BY <1>1, <1>2 DEF RequestInv, OthersStay
<1>4. /\ JobFields \subseteq DOMAIN job'[q] /\ job'[q].phase = "write"
      /\ job'[q].kind = job[q].kind /\ job'[q].app = job[q].app
      /\ job'[q].next = job[q].next
  BY <1>1, <1>3 DEF RequestInv, JobFields
<1>5. RequestInv' /\ Steps(q)
  BY <1>1, <1>2, <1>3, <1>4, ProceedsMeans DEF Proceeds
<1>6. AppJobOK(q)' /\ (CopyOK(q) => CopyOK(q)')
  BY <1>1, <1>4 DEF AppJobOK, CopyOK, Saving, Saves, At, AppRowOK, VersionTaken, HasApp
<1> QED BY <1>1, <1>5, <1>6, AppIdle

\* An application with these columns is one.
LEMMA ColumnsMakeAnApp ==
  ASSUME NEW row, AppColumns \subseteq DOMAIN row
  PROVE  row # NoApp
<1>1. "currentVersion" \in DOMAIN row
  BY DEF AppColumns
<1>2. "currentVersion" \notin DOMAIN NoApp
  BY DEF NoApp
<1> QED BY <1>1, <1>2

\* The row of an application is replaced; what is published stays, or the save() was raced.
LEMMA AppRowReplaced ==
  ASSUME AppInv, NEW q \in Requests, RequestInv', Steps(q), AppJobOK(q)', CopyOK(q)',
         UNCHANGED appVersions, NEW a \in AppIds, HasApp(a), NEW row, AppRowOK(a, row),
         apps' = [apps EXCEPT ![a] = row],
         CopyOK(q) => row.publishedVersion = apps[a].publishedVersion
  PROVE  AppInv'
<1>1. /\ apps' = [x \in AppIds |-> apps'[x]] /\ apps'[a] = row
      /\ \A x \in AppIds \ {a} : apps'[x] = apps[x]
  BY DEF AppInv, AppRowsInv
<1>2. \A x \in AppIds : HasApp(x)' <=> HasApp(x)
  <2>1. row # NoApp
    BY ColumnsMakeAnApp DEF AppRowOK
  <2> QED BY <1>1, <2>1 DEF HasApp
<1>3. AppRowsInv'
  <2>1. ASSUME NEW x \in AppIds, HasApp(x) PROVE AppRowOK(x, apps[x])'
    <3>1. AppRowOK(x, apps[x])
      BY <2>1 DEF AppInv, AppRowsInv
    <3>2. AppRowOK(x, apps'[x])
      BY <1>1, <3>1
    <3> QED BY <3>2 DEF AppRowOK, VersionTaken
  <2> QED BY <1>1, <1>2, <2>1 DEF AppRowsInv
<1>4. VersionsInv'
  BY <1>2 DEF AppInv, VersionsInv, NumbersOf
<1>5. ASSUME FlagsOK, CopyOK(q) PROVE FlagsOK'
  <2>1. \A x \in AppIds : apps'[x].publishedVersion = apps[x].publishedVersion
    BY <1>1, <1>5
  <2>2. \A x \in AppIds : Served(x)' = Served(x)
    BY <2>1 DEF Served
  <2> QED BY <1>2, <1>5, <2>2 DEF FlagsOK
<1> QED BY <1>2, <1>3, <1>4, <1>5, AppStep

LEMMA WriteAppKeeps ==
  ASSUME AppInv, NEW q \in Requests, WriteApp(q) \/ saveDraftSchema(q)
  PROVE  AppInv'
<1>1. Busy(q) /\ AppJobOK(q)
  BY DEF WriteApp, saveDraftSchema, At, Busy, Outcomes, AppInv
<1>2. CASE WriteApp(q)
  <2> DEFINE a     == job[q].app
             next  == job[q].next
             dirty == job[q].dirty
             row   == Written(apps[a], next, dirty)
  <2>1. Saving(q) /\ a \in AppIds /\ HasApp(a) /\ AppRowOK(a, next)
    <3>1. Saving(q)
      BY <1>2 DEF WriteApp, At, Saving, Saves
    <3> QED BY <1>1, <3>1 DEF AppJobOK
  <2>2. AppRowOK(a, apps[a])
    BY <2>1 DEF AppInv, AppRowsInv
  <2>3. UNCHANGED appVersions
    BY <1>2 DEF WriteApp
  <2>4. CopyOK(q) => next.publishedVersion = apps[a].publishedVersion
    BY <2>1 DEF CopyOK
  <2>5. CASE Ends(q, "refused") /\ UNCHANGED apps
    BY <1>1, <2>3, <2>5, AppProceeds DEF appVars, Outcomes
  <2>6. CASE apps' = [apps EXCEPT ![a] = row] /\ Goes(q, "audit")
    <3>1. RequestInv' /\ Steps(q) /\ AppJobOK(q)' /\ CopyOK(q)'
      BY <1>1, <2>6, AppProceeds
    <3>2. /\ AppColumns \subseteq DOMAIN row
          /\ row.currentVersion \in {next.currentVersion, apps[a].currentVersion}
          /\ row.publishedVersion \in {next.publishedVersion, apps[a].publishedVersion}
      <4> HIDE DEF a, next, dirty
      <4> QED BY <2>2 DEF AppRowOK, AppColumns, Written
    <3> HIDE DEF row, a, next, dirty
    <3>3. AppRowOK(a, row)
      BY <2>1, <2>2, <3>2 DEF AppRowOK
    <3>4. CopyOK(q) => row.publishedVersion = apps[a].publishedVersion
      BY <2>4, <3>2
    <3> QED BY <2>1, <2>3, <2>6, <3>1, <3>3, <3>4, AppRowReplaced
  <2> QED BY <1>2, <2>5, <2>6 DEF WriteApp
<1>3. CASE saveDraftSchema(q)
  <2> DEFINE a   == job[q].app
             row == [apps[a] EXCEPT !.draftSchema = job[q].schema, !.schemaRevision = @ + 1]
  <2>1. UNCHANGED appVersions /\ a \in AppIds /\ HasApp(a)
    BY <1>1, <1>3 DEF saveDraftSchema, AppJobOK
  <2>2. AppRowOK(a, apps[a])
    BY <2>1 DEF AppInv, AppRowsInv
  <2>3. CASE Ends(q, "refused") /\ UNCHANGED apps
    BY <1>1, <2>1, <2>3, AppProceeds DEF appVars, Outcomes
  <2>4. CASE Ends(q, "ok") /\ apps' = [apps EXCEPT ![a] = row]
    <3>1. RequestInv' /\ Steps(q) /\ AppJobOK(q)' /\ CopyOK(q)'
      BY <1>1, <2>4, AppProceeds DEF Outcomes
    <3>2. /\ AppColumns \subseteq DOMAIN row
          /\ row.currentVersion = apps[a].currentVersion
          /\ row.publishedVersion = apps[a].publishedVersion
      BY <2>2 DEF AppRowOK, AppColumns
    <3> HIDE DEF row, a
    <3>3. AppRowOK(a, row)
      BY <2>2, <3>2 DEF AppRowOK
    <3> QED BY <2>1, <2>4, <3>1, <3>2, <3>3, AppRowReplaced
  <2>5. DraftAccepted(q) =>
          Ends(q, "ok") /\ apps' = [apps EXCEPT ![a] = row]
    BY <1>3 DEF saveDraftSchema
  <2> QED BY <1>3, <2>3, <2>4, <2>5 DEF saveDraftSchema
<1> QED BY <1>2, <1>3

LEMMA FirstFreeApp ==
  ASSUME VersionsInv, FreeApps # {}
  PROVE  /\ Min(FreeApps) \in AppIds /\ ~HasApp(Min(FreeApps))
         /\ \A v \in appVersions : v.app # Min(FreeApps)
<1>1. FreeApps \in SUBSET Nat
  BY AppsAssumption DEF FreeApps
<1>2. Min(FreeApps) \in FreeApps
  BY <1>1, SmallestElement
<1> QED BY <1>2 DEF FreeApps, VersionsInv

LEMMA InsertAppKeeps ==
  ASSUME AppInv, NEW q \in Requests, InsertApp(q)
  PROVE  AppInv'
<1>1. Busy(q) /\ UNCHANGED appVersions
  BY DEF InsertApp, At, Busy, Outcomes
<1>2. PICK name : job[q].next = NewApp(name, NoSchema, 0)
  BY DEF InsertApp, AppInv, AppJobOK
<1>3. CASE Ends(q, "refused") /\ UNCHANGED apps
  BY <1>1, <1>3, AppProceeds DEF appVars, Outcomes
<1>4. CASE /\ FreeApps # {} /\ apps' = [apps EXCEPT ![Min(FreeApps)] = job[q].next]
           /\ Goes(q, "audit")
  <2> DEFINE row == NewApp(name, NoSchema, 0)
  <2>1. RequestInv' /\ Steps(q) /\ AppJobOK(q)' /\ CopyOK(q)'
    BY <1>1, <1>4, AppProceeds
  <2>2. PICK b \in AppIds : /\ b = Min(FreeApps) /\ ~HasApp(b)
                           /\ \A v \in appVersions : v.app # b
    BY <1>4, FirstFreeApp DEF AppInv
  <2>3. apps' = [apps EXCEPT ![b] = row]
    BY <1>2, <1>4, <2>2
  <2>4. AppColumns \subseteq DOMAIN row /\ row.currentVersion = 0 /\ row.publishedVersion = {}
    BY DEF NewApp, AppColumns
  <2> HIDE DEF row
  <2>5. /\ apps' = [x \in AppIds |-> apps'[x]] /\ apps'[b] = row
        /\ \A x \in AppIds \ {b} : apps'[x] = apps[x]
    BY <2>2, <2>3 DEF AppInv, AppRowsInv
  <2>6. /\ \A x \in AppIds : HasApp(x) => HasApp(x)'
        /\ \A x \in AppIds \ {b} : HasApp(x)' => HasApp(x)
    BY <2>2, <2>5 DEF HasApp
  <2>7. AppRowsInv'
    <3>1. ASSUME NEW x \in AppIds, HasApp(x)' PROVE AppRowOK(x, apps[x])'
      <4>1. CASE x = b
        BY <2>4, <2>5, <4>1 DEF AppRowOK
      <4>2. CASE x # b
        <5>1. AppRowOK(x, apps[x]) /\ apps'[x] = apps[x]
          BY <2>5, <2>6, <3>1, <4>2 DEF AppInv, AppRowsInv
        <5> QED BY <1>1, <5>1 DEF AppRowOK, VersionTaken
      <4> QED BY <4>1, <4>2
    <3> QED BY <2>5, <3>1 DEF AppRowsInv
  <2>8. VersionsInv'
    BY <1>1, <2>6 DEF AppInv, VersionsInv, NumbersOf
  <2>9. FlagsOK => FlagsOK'
    <3>1. \A x \in AppIds \ {b} : Served(x)' = Served(x)
      BY <1>1, <2>5 DEF Served
    <3>2. apps'[b].publishedVersion = {}
      BY <2>4, <2>5
    <3>3. \A v \in Served(b)' : FALSE
      BY <3>2 DEF Served
    <3>4. ASSUME FlagsOK, NEW x \in AppIds, HasApp(x)', NEW v \in Served(x)'
          PROVE  v.isPublished
      BY <2>6, <3>1, <3>3, <3>4 DEF FlagsOK
    <3> QED BY <3>4 DEF FlagsOK
  <2> QED BY <1>1, <2>1, <2>6, <2>7, <2>8, <2>9, AppStep
<1> QED BY <1>3, <1>4 DEF InsertApp

\* A version gets the number after those that its application has.
LEMMA VersionAdded ==
  ASSUME AppInv, NEW a \in AppIds, HasApp(a)', NEW n \in Nat \ {0}, NumbersOf(a) = 1 .. (n - 1),
         NEW w, w.app = a, w.number = n, {"app", "number", "isPublished"} \subseteq DOMAIN w,
         appVersions' = appVersions \cup {w}, \A x \in AppIds : HasApp(x) => HasApp(x)'
  PROVE  VersionsInv' /\ ~VersionTaken(a, n)
<1>1. ~VersionTaken(a, n)
  <2>1. n \notin NumbersOf(a)
    OBVIOUS
  <2> QED BY <2>1 DEF NumbersOf, VersionTaken
<1>2. IsFiniteSet(appVersions')
  BY FS_AddElement DEF AppInv, VersionsInv
<1>3. \A v \in appVersions' : /\ v.app \in AppIds /\ HasApp(v.app)'
                              /\ {"app", "number", "isPublished"} \subseteq DOMAIN v
  <2>1. \A v \in appVersions : /\ v.app \in AppIds /\ HasApp(v.app)
                               /\ {"app", "number", "isPublished"} \subseteq DOMAIN v
    BY DEF AppInv, VersionsInv
  <2> QED BY <2>1
<1>4. \A v, x \in appVersions' : v.app = x.app /\ v.number = x.number => v = x
  BY <1>1 DEF AppInv, VersionsInv, VersionTaken
<1>5. ASSUME NEW x \in AppIds PROVE \E m \in Nat : NumbersOf(x)' = 1 .. m
  <2>1. CASE x = a
    <3>1. NumbersOf(x)' = NumbersOf(a) \cup {n}
      BY <2>1 DEF NumbersOf
    <3>2. NumbersOf(x)' = 1 .. n
      BY <3>1
    <3> QED BY <3>2
  <2>2. CASE x # a
    <3>1. NumbersOf(x)' = NumbersOf(x)
      BY <2>2 DEF NumbersOf
    <3> QED BY <3>1 DEF AppInv, VersionsInv
  <2> QED BY <2>1, <2>2
<1> QED BY <1>1, <1>2, <1>3, <1>4, <1>5 DEF VersionsInv

LEMMA CreateVersionKeeps ==
  ASSUME AppInv, NEW q \in Requests, NEW a \in AppIds, HasApp(a), NEW s \in Schemas,
         createVersion(q, a, s)
  PROVE  AppInv'
<1> USE DEF Outcomes
<1>1. CASE Begins(q, Answered("app_version", "refused")) /\ UNCHANGED appVars
  BY <1>1, AppAnswered
<1> DEFINE n == apps[a].currentVersion + 1
           w == [app |-> a, number |-> n, isPublished |-> FALSE, schema |-> s]
           row == [apps[a] EXCEPT !.currentVersion = n, !.draftSchema = s]
<1>2. CASE /\ ~VersionTaken(a, n) /\ appVersions' = appVersions \cup {w}
           /\ apps' = [apps EXCEPT ![a] = row] /\ Begins(q, Answered("app_version", "ok"))
  <2>1. RequestInv' /\ Steps(q) /\ AppJobOK(q)' /\ CopyOK(q)'
    BY <1>2, AppAnswered
  <2>2. AppRowOK(a, apps[a])
    BY DEF AppInv, AppRowsInv
  <2>3. PICK m \in Nat : NumbersOf(a) = 1 .. m
    BY DEF AppInv, VersionsInv
  <2>4. apps[a].currentVersion \in 0 .. m
    <3>1. apps[a].currentVersion = 0 \/ apps[a].currentVersion \in NumbersOf(a)
      BY <2>2 DEF AppRowOK, VersionTaken, NumbersOf
    <3> QED BY <2>3, <3>1
  <2>5. n = m + 1
    <3>1. n \notin 1 .. m
      BY <1>2, <2>3 DEF VersionTaken, NumbersOf
    <3> QED BY <2>4, <3>1
  <2>6. /\ w.app = a /\ w.number = n /\ {"app", "number", "isPublished"} \subseteq DOMAIN w
        /\ w \in appVersions'
    BY <1>2
  <2>7. /\ AppColumns \subseteq DOMAIN row /\ row.currentVersion = n
        /\ row.publishedVersion = apps[a].publishedVersion
    BY <2>2 DEF AppRowOK, AppColumns
  <2> HIDE DEF n, w, row
  <2>8. /\ apps' = [x \in AppIds |-> apps'[x]] /\ apps'[a] = row
        /\ \A x \in AppIds \ {a} : apps'[x] = apps[x]
    BY <1>2 DEF AppInv, AppRowsInv
  <2>9. \A x \in AppIds : HasApp(x)' <=> HasApp(x)
    <3>1. row # NoApp
      BY <2>7, ColumnsMakeAnApp
    <3> QED BY <2>8, <3>1 DEF HasApp
  <2>10. VersionsInv'
    <3>1. n \in Nat \ {0} /\ n - 1 = m
      BY <2>5
    <3> QED BY <1>2, <2>3, <2>6, <2>9, <3>1, VersionAdded
  <2>11. AppRowsInv'
    <3>1. ASSUME NEW x \in AppIds, HasApp(x)' PROVE AppRowOK(x, apps[x])'
      <4>1. AppRowOK(x, apps[x])
        BY <2>9, <3>1 DEF AppInv, AppRowsInv
      <4>2. CASE x = a
        <5>1. \E v \in appVersions' : v.app = a /\ v.number = row.currentVersion
          BY <2>6, <2>7
        <5> QED BY <1>2, <2>7, <2>8, <4>1, <4>2, <5>1 DEF AppRowOK, VersionTaken
      <4>3. CASE x # a
        BY <1>2, <2>8, <4>1, <4>3 DEF AppRowOK, VersionTaken
      <4> QED BY <4>2, <4>3
    <3> QED BY <2>8, <3>1 DEF AppRowsInv
  <2>12. FlagsOK => FlagsOK'
    <3>1. ASSUME NEW x \in AppIds, HasApp(x) PROVE Served(x)' = Served(x)
      <4>1. apps'[x].publishedVersion = apps[x].publishedVersion
        BY <2>7, <2>8
      <4>2. w \notin Served(x)'
        <5>1. x = a => n \notin apps[x].publishedVersion
          BY <1>2, <2>2 DEF AppRowOK
        <5> QED BY <2>6, <4>1, <5>1 DEF Served
      <4> QED BY <1>2, <4>1, <4>2 DEF Served
    <3> QED BY <2>9, <3>1 DEF FlagsOK
  <2> QED BY <1>2, <2>1, <2>9, <2>10, <2>11, <2>12, AppStep
<1>3. apps' = [apps EXCEPT ![a].currentVersion = n, ![a].draftSchema = s]
        => apps' = [apps EXCEPT ![a] = row]
  BY DEF AppInv, AppRowsInv
<1> QED BY <1>1, <1>2, <1>3 DEF createVersion

\* At most one version is served.
LEMMA ServedIsOne ==
  ASSUME AppInv, NEW a \in AppIds, HasApp(a)
  PROVE  Served(a) = {} \/ \E v \in appVersions : Served(a) = {v} /\ v.app = a
<1>1. AppRowOK(a, apps[a])
  BY DEF AppInv, AppRowsInv
<1>2. \A v, w \in Served(a) : v = w
  BY <1>1 DEF Served, AppRowOK, AppInv, VersionsInv
<1>3. ASSUME NEW v \in Served(a) PROVE Served(a) = {v} /\ v \in appVersions /\ v.app = a
  BY <1>2 DEF Served
<1> QED BY <1>3

\* Only the flag of a version changes: numbers stay.
LEMMA FlagChanged ==
  ASSUME AppInv, NEW v \in appVersions, NEW flag, NEW w, w = [v EXCEPT !.isPublished = flag],
         appVersions' = (appVersions \ {v}) \cup {w}, \A x \in AppIds : HasApp(x)' <=> HasApp(x)
  PROVE  /\ VersionsInv' /\ w.app = v.app /\ w.number = v.number /\ w.isPublished = flag
         /\ \A x \in AppIds : NumbersOf(x)' = NumbersOf(x)
         /\ \A x \in appVersions : \E y \in appVersions' : y.app = x.app /\ y.number = x.number
<1>1. /\ w.app = v.app /\ w.number = v.number /\ w.isPublished = flag
      /\ {"app", "number", "isPublished"} \subseteq DOMAIN w
  BY DEF AppInv, VersionsInv
<1>2. IsFiniteSet(appVersions')
  <2>1. IsFiniteSet(appVersions \ {v})
    BY FS_RemoveElement DEF AppInv, VersionsInv
  <2> QED BY <2>1, FS_AddElement
<1>3. \A x \in AppIds : NumbersOf(x)' = NumbersOf(x)
  BY <1>1 DEF NumbersOf
<1>4. \A x \in appVersions : \E y \in appVersions' : y.app = x.app /\ y.number = x.number
  BY <1>1
<1>5. /\ \A x \in appVersions' : /\ x.app \in AppIds /\ HasApp(x.app)'
                                 /\ {"app", "number", "isPublished"} \subseteq DOMAIN x
      /\ \A x, y \in appVersions' : x.app = y.app /\ x.number = y.number => x = y
  <2>1. /\ \A x \in appVersions : /\ x.app \in AppIds /\ HasApp(x.app)
                                  /\ {"app", "number", "isPublished"} \subseteq DOMAIN x
        /\ \A x, y \in appVersions : x.app = y.app /\ x.number = y.number => x = y
    BY DEF AppInv, VersionsInv
  <2> QED BY <1>1, <2>1
<1>6. VersionsInv'
  BY <1>2, <1>3, <1>5 DEF AppInv, VersionsInv
<1> QED BY <1>1, <1>3, <1>4, <1>6

\* publishVersion() and unpublishVersion(): flag and row of one transaction.
LEMMA FlagAndRow ==
  ASSUME AppInv, NEW q \in Requests, NEW kind, Begins(q, Answered(kind, "ok")),
         NEW a \in AppIds, HasApp(a), NEW v \in appVersions, v.app = a, NEW flag, NEW w,
         w = [v EXCEPT !.isPublished = flag], appVersions' = (appVersions \ {v}) \cup {w},
         NEW row, AppColumns \subseteq DOMAIN row,
         row.currentVersion = apps[a].currentVersion,
         \/ row.publishedVersion = {v.number} /\ flag = TRUE
         \/ row.publishedVersion = {},
         apps' = [apps EXCEPT ![a] = row]
  PROVE  AppInv'
<1>1. RequestInv' /\ Steps(q) /\ AppJobOK(q)' /\ CopyOK(q)'
  BY AppAnswered DEF Outcomes
<1>2. /\ apps' = [x \in AppIds |-> apps'[x]] /\ apps'[a] = row
      /\ \A x \in AppIds \ {a} : apps'[x] = apps[x]
  BY DEF AppInv, AppRowsInv
<1>3. \A x \in AppIds : HasApp(x)' <=> HasApp(x)
  <2>1. row # NoApp
    BY ColumnsMakeAnApp
  <2> QED BY <1>2, <2>1 DEF HasApp
<1>4. /\ VersionsInv' /\ w.app = a /\ w.number = v.number /\ w.isPublished = flag
      /\ \A x \in appVersions : \E y \in appVersions' : y.app = x.app /\ y.number = x.number
  BY <1>3, FlagChanged
<1>5. AppRowsInv'
  <2>1. ASSUME NEW x \in AppIds, HasApp(x)' PROVE AppRowOK(x, apps[x])'
    <3>1. AppRowOK(x, apps[x])
      BY <1>3, <2>1 DEF AppInv, AppRowsInv
    <3>2. AppRowOK(x, apps[x]) => AppRowOK(x, apps[x])' \/ x = a
      BY <1>2, <1>4 DEF AppRowOK, VersionTaken
    <3>3. CASE x = a
      <4>1. row.currentVersion = 0 \/ \E y \in appVersions' : y.app = a /\ y.number = row.currentVersion
        BY <1>4, <3>1, <3>3 DEF AppRowOK, VersionTaken
      <4>2. \A n \in row.publishedVersion : \E y \in appVersions' : y.app = a /\ y.number = n
        BY <1>4
      <4>3. \A m, n \in row.publishedVersion : m = n
        OBVIOUS
      <4> QED BY <1>2, <3>3, <4>1, <4>2, <4>3 DEF AppRowOK, VersionTaken
    <3> QED BY <3>1, <3>2, <3>3
  <2> QED BY <1>2, <2>1 DEF AppRowsInv
<1>6. FlagsOK => FlagsOK'
  <2>1. ASSUME NEW x \in AppIds \ {a} PROVE Served(x)' = Served(x)
    BY <1>2, <1>4 DEF Served
  <2>2. \A y \in Served(a)' : y.isPublished
    <3>1. ASSUME NEW y \in appVersions', y.app = a, y.number \in row.publishedVersion
          PROVE  y = w /\ flag = TRUE
      <4>1. y.number = v.number /\ flag = TRUE
        BY <3>1
      <4>2. y # w => y \in appVersions /\ y # v
        OBVIOUS
      <4>3. \A z \in appVersions : z.app = v.app /\ z.number = v.number => z = v
        BY DEF AppInv, VersionsInv
      <4> QED BY <3>1, <4>1, <4>2, <4>3
    <3> QED BY <1>2, <1>4, <3>1 DEF Served
  <2> QED BY <1>3, <2>1, <2>2 DEF FlagsOK
<1> QED BY <1>1, <1>3, <1>4, <1>5, <1>6, AppStep

LEMMA PublishKeeps ==
  ASSUME AppInv, NEW q \in Requests,
         \/ \E v \in appVersions : publishVersion(q, v)
         \/ \E a \in {x \in AppIds : HasApp(x)} : unpublishVersion(q, a)
  PROVE  AppInv'
<1> USE DEF Outcomes
<1>1. ASSUME NEW v \in appVersions, publishVersion(q, v) PROVE AppInv'
  <2> DEFINE w   == [v EXCEPT !.isPublished = TRUE]
             row == [apps[v.app] EXCEPT !.publishedVersion = {v.number}, !.status = "published"]
  <2>1. v.app \in AppIds /\ HasApp(v.app)
    BY DEF AppInv, VersionsInv
  <2>2. CASE Begins(q, Answered("app_publish", "refused")) /\ UNCHANGED appVars
    BY <2>2, AppAnswered
  <2>3. CASE /\ appVersions' = (appVersions \ {v}) \cup {w} /\ apps' = [apps EXCEPT ![v.app] = row]
             /\ Begins(q, Answered("app_publish", "ok"))
    <3>1. AppRowOK(v.app, apps[v.app])
      BY <2>1 DEF AppInv, AppRowsInv
    <3>2. /\ AppColumns \subseteq DOMAIN row /\ row.currentVersion = apps[v.app].currentVersion
          /\ row.publishedVersion = {v.number}
      BY <3>1 DEF AppRowOK, AppColumns
    <3> HIDE DEF row
    <3> QED BY <2>1, <2>3, <3>2, FlagAndRow
  <2>4. apps' = [apps EXCEPT ![v.app].publishedVersion = {v.number}, ![v.app].status = "published"]
          => apps' = [apps EXCEPT ![v.app] = row]
    BY <2>1 DEF AppInv, AppRowsInv
  <2> QED BY <1>1, <2>2, <2>3, <2>4 DEF publishVersion
<1>2. ASSUME NEW a \in AppIds, HasApp(a), unpublishVersion(q, a) PROVE AppInv'
  <2> DEFINE row == [apps[a] EXCEPT !.publishedVersion = {}, !.status = "draft"]
  <2>1. CASE Begins(q, Answered("app_unpublish", "refused")) /\ UNCHANGED appVars
    BY <2>1, AppAnswered
  <2>2. CASE /\ apps[a].publishedVersion # {}
             /\ appVersions' = (appVersions \ Served(a))
                  \cup {[v EXCEPT !.isPublished = FALSE] : v \in Served(a)}
             /\ apps' = [apps EXCEPT ![a] = row]
             /\ Begins(q, Answered("app_unpublish", "ok"))
    <3>1. AppRowOK(a, apps[a])
      BY <1>2 DEF AppInv, AppRowsInv
    <3>2. Served(a) # {}
      BY <2>2, <3>1 DEF AppRowOK, VersionTaken, Served
    <3>3. PICK v \in appVersions : Served(a) = {v} /\ v.app = a
      BY <1>2, <3>2, ServedIsOne
    <3>4. /\ AppColumns \subseteq DOMAIN row /\ row.currentVersion = apps[a].currentVersion
          /\ row.publishedVersion = {}
      BY <3>1 DEF AppRowOK, AppColumns
    <3>5. appVersions' = (appVersions \ {v}) \cup {[v EXCEPT !.isPublished = FALSE]}
      BY <2>2, <3>3
    <3> HIDE DEF row
    <3> QED BY <1>2, <2>2, <3>3, <3>4, <3>5, FlagAndRow
  <2>3. apps' = [apps EXCEPT ![a].publishedVersion = {}, ![a].status = "draft"]
          => apps' = [apps EXCEPT ![a] = row]
    BY DEF AppInv, AppRowsInv
  <2> QED BY <1>2, <2>1, <2>2, <2>3 DEF unpublishVersion
<1> QED BY <1>1, <1>2

LEMMA DuplicateKeeps ==
  ASSUME AppInv, NEW q \in Requests, NEW a \in AppIds, HasApp(a), NEW name,
         duplicate(q, a, name)
  PROVE  AppInv'
<1> USE DEF Outcomes
<1>1. CASE Begins(q, Answered("app_duplicate", "refused")) /\ UNCHANGED appVars
  BY <1>1, AppAnswered
<1>2. CASE /\ FreeApps # {}
           /\ LET b == Min(FreeApps)
              IN /\ apps' = [apps EXCEPT ![b] =
                      NewApp(name, apps[a].draftSchema, Cardinality(Served(a)))]
                 /\ appVersions' = appVersions \cup
                      {[v EXCEPT !.app = b, !.number = 1, !.isPublished = FALSE] :
                         v \in Served(a)}
           /\ Begins(q, Answered("app_duplicate", "ok"))
  <2> DEFINE row == NewApp(name, apps[a].draftSchema, Cardinality(Served(a)))
  <2>1. RequestInv' /\ Steps(q) /\ AppJobOK(q)' /\ CopyOK(q)'
    BY <1>2, AppAnswered
  <2>2. PICK b \in AppIds : /\ b = Min(FreeApps) /\ ~HasApp(b)
                           /\ \A v \in appVersions : v.app # b
    BY <1>2, FirstFreeApp DEF AppInv
  <2>3. /\ apps' = [apps EXCEPT ![b] = row]
        /\ appVersions' = appVersions \cup
             {[v EXCEPT !.app = b, !.number = 1, !.isPublished = FALSE] : v \in Served(a)}
    BY <1>2, <2>2
  <2>4. /\ AppColumns \subseteq DOMAIN row /\ row.currentVersion = Cardinality(Served(a))
        /\ row.publishedVersion = {}
    BY DEF NewApp, AppColumns
  <2>5. row # NoApp
    BY <2>4, ColumnsMakeAnApp
  <2> HIDE DEF row
  <2>6. /\ apps' = [x \in AppIds |-> apps'[x]] /\ apps'[b] = row
        /\ \A x \in AppIds \ {b} : apps'[x] = apps[x]
    BY <2>2, <2>3 DEF AppInv, AppRowsInv
  <2>7. /\ \A x \in AppIds : HasApp(x) => HasApp(x)'
        /\ \A x \in AppIds \ {b} : HasApp(x)' => HasApp(x)
        /\ HasApp(b)'
    BY <2>2, <2>5, <2>6 DEF HasApp
  <2>8. /\ appVersions \subseteq appVersions' /\ VersionsInv'
        /\ row.currentVersion = 0 \/ \E w \in appVersions' : w.app = b /\ w.number = row.currentVersion
        /\ \A w \in appVersions' : w \in appVersions \/ w.app = b
    <3>1. CASE Served(a) = {}
      <4>1. appVersions' = appVersions /\ row.currentVersion = 0
        <5>1. Cardinality({}) = 0
          BY FS_EmptySet
        <5>2. appVersions' = appVersions
          BY <2>3, <3>1
        <5> QED BY <2>4, <3>1, <5>1, <5>2
      <4>2. VersionsInv'
        BY <2>7, <4>1 DEF AppInv, VersionsInv, NumbersOf
      <4> QED BY <4>1, <4>2
    <3>2. ASSUME NEW v \in appVersions, Served(a) = {v}
          PROVE  /\ VersionsInv' /\ appVersions \subseteq appVersions'
                 /\ \E w \in appVersions' : w.app = b /\ w.number = row.currentVersion
                 /\ \A w \in appVersions' : w \in appVersions \/ w.app = b
      <4> DEFINE w == [v EXCEPT !.app = b, !.number = 1, !.isPublished = FALSE]
      <4>1. appVersions' = appVersions \cup {w}
        BY <2>3, <3>2
      <4>2. row.currentVersion = 1
        BY <2>4, <3>2, FS_Singleton
      <4>3. w.app = b /\ w.number = 1 /\ {"app", "number", "isPublished"} \subseteq DOMAIN w
        <5>1. {"app", "number", "isPublished"} \subseteq DOMAIN v
          BY DEF AppInv, VersionsInv
        <5> QED BY <5>1
      <4> HIDE DEF w
      <4>4. NumbersOf(b) = 1 .. (1 - 1)
        BY <2>2 DEF NumbersOf
      <4>5. VersionsInv'
        <5>1. 1 \in Nat \ {0}
          OBVIOUS
        <5> QED BY <2>7, <4>1, <4>3, <4>4, <5>1, VersionAdded
      <4> QED BY <4>1, <4>2, <4>3, <4>5
    <3> QED BY <3>1, <3>2, ServedIsOne
  <2>9. AppRowsInv'
    <3>1. ASSUME NEW x \in AppIds, HasApp(x)' PROVE AppRowOK(x, apps[x])'
      <4>1. CASE x = b
        BY <2>4, <2>6, <2>8, <4>1 DEF AppRowOK, VersionTaken
      <4>2. CASE x # b
        <5>1. AppRowOK(x, apps[x]) /\ apps'[x] = apps[x]
          BY <2>6, <2>7, <3>1, <4>2 DEF AppInv, AppRowsInv
        <5> QED BY <2>8, <5>1 DEF AppRowOK, VersionTaken
      <4> QED BY <4>1, <4>2
    <3> QED BY <2>6, <3>1 DEF AppRowsInv
  <2>10. FlagsOK => FlagsOK'
    <3>1. \A x \in AppIds \ {b} : Served(x)' = Served(x)
      BY <2>6, <2>8 DEF Served
    <3>2. apps'[b].publishedVersion = {}
      BY <2>4, <2>6
    <3>3. \A v \in Served(b)' : FALSE
      BY <3>2 DEF Served
    <3>4. ASSUME FlagsOK, NEW x \in AppIds, HasApp(x)', NEW v \in Served(x)'
          PROVE  v.isPublished
      BY <2>7, <3>1, <3>3, <3>4 DEF FlagsOK
    <3> QED BY <3>4 DEF FlagsOK
  <2> QED BY <2>1, <2>7, <2>8, <2>9, <2>10, AppStep
<1> QED BY <1>1, <1>2 DEF duplicate

\* Every step of the applications module preserves the invariant.
THEOREM AppInvariance == AppSpec => []AppInv
<1>1. RequestInit /\ AppInit => AppInv
  <2> SUFFICES ASSUME RequestInit, AppInit PROVE AppInv
    OBVIOUS
  <2>1. 1 \in AppIds
    BY AppsAssumption
  <2> DEFINE name   == CHOOSE x \in Names : TRUE
             schema == CHOOSE x \in Schemas : SchemaErrors(x) = {}
  <2>2. apps = [a \in AppIds |-> IF a = 1 THEN NewApp(name, schema, 1) ELSE NoApp]
    BY DEF AppInit
  <2> HIDE DEF name, schema
  <2> DEFINE row == NewApp(name, schema, 1)
             v   == [app |-> 1, number |-> 1, isPublished |-> FALSE,
                     schema |-> apps[1].draftSchema]
  <2>3. /\ AppColumns \subseteq DOMAIN row /\ row.currentVersion = 1
        /\ row.publishedVersion = {}
    BY DEF NewApp, AppColumns
  <2>4. appVersions = {v}
    BY DEF AppInit
  <2>5. v.app = 1 /\ v.number = 1 /\ {"app", "number", "isPublished"} \subseteq DOMAIN v
    OBVIOUS
  <2>6. row # NoApp
    BY <2>3, ColumnsMakeAnApp
  <2> HIDE DEF row, v
  <2>7. /\ apps = [a \in AppIds |-> apps[a]] /\ apps[1] = row
        /\ \A a \in AppIds : HasApp(a) <=> a = 1
    <3>1. apps = [a \in AppIds |-> IF a = 1 THEN row ELSE NoApp]
      BY <2>2 DEF row
    <3> QED BY <2>1, <2>6, <3>1 DEF HasApp
  <2>8. AppRowsInv
    BY <2>3, <2>4, <2>5, <2>7 DEF AppRowsInv, AppRowOK, VersionTaken
  <2>9. VersionsInv
    <3>1. IsFiniteSet(appVersions)
      BY <2>4, FS_Singleton
    <3>2. ASSUME NEW a \in AppIds PROVE \E m \in Nat : NumbersOf(a) = 1 .. m
      <4>1. CASE a = 1
        <5>1. NumbersOf(a) = 1 .. 1
          BY <2>4, <2>5, <4>1 DEF NumbersOf
        <5> QED BY <5>1
      <4>2. CASE a # 1
        <5>1. NumbersOf(a) = 1 .. 0
          BY <2>4, <2>5, <4>2 DEF NumbersOf
        <5> QED BY <5>1
      <4> QED BY <4>1, <4>2
    <3> QED BY <2>1, <2>4, <2>5, <2>7, <3>1, <3>2 DEF VersionsInv
  <2>10. \A q \in Requests : AppJobOK(q) /\ CopyOK(q)
    BY DEF RequestInit, NoJob, AppJobOK, CopyOK, Saving, Saves, At
  <2>11. FlagsOK
    BY <2>3, <2>7 DEF FlagsOK, Served
  <2> QED BY <2>8, <2>9, <2>10, <2>11, RequestsBegin DEF AppInv
<1>2. AppInv /\ [AppNext]_<<requestVars, appVars>> => AppInv'
  <2> SUFFICES ASSUME AppInv, [AppNext]_<<requestVars, appVars>> PROVE AppInv'
    OBVIOUS
  <2>1. CASE UNCHANGED <<requestVars, appVars>>
    <3>1. UNCHANGED <<job, alone, apps, appVersions>>
      BY <2>1 DEF requestVars, appVars
    <3>2. RequestInv' /\ AppRowsInv' /\ VersionsInv'
      BY <3>1 DEF AppInv, RequestInv, Solitude, Busy, AppRowsInv, VersionsInv, HasApp, AppRowOK,
                  VersionTaken, NumbersOf
    <3>3. ASSUME NEW q \in Requests PROVE AppJobOK(q)' /\ (CopyOK(q) <=> CopyOK(q)')
      BY <3>1 DEF AppInv, AppJobOK, CopyOK, Saving, At, AppRowOK, VersionTaken, HasApp
    <3>4. (Raced <=> Raced') /\ (FlagsOK <=> FlagsOK')
      BY <3>1 DEF Raced, FlagsOK, HasApp, Served
    <3> QED BY <3>2, <3>3, <3>4 DEF AppInv
  <2>2. ASSUME NEW q \in Requests,
               \/ CreateApp(q) \/ InsertApp(q) \/ UpdateApp(q) \/ ArchiveApp(q) \/ DiffApp(q)
               \/ WriteApp(q) \/ SeeDraft(q) \/ saveDraftSchema(q) \/ AuditApp(q) \/ AppFails(q)
        PROVE  AppInv'
    <3>1. CASE AuditApp(q) \/ AppFails(q)
      <4>1. Busy(q) /\ UNCHANGED appVars /\ (Ends(q, "ok") \/ Fails(q))
        BY <3>1 DEF AuditApp, AppFails, Audited, At, Busy, Outcomes, Fails
      <4> QED BY <4>1, AppProceeds DEF Outcomes
    <3> QED BY <2>2, <3>1, AppBeginsKeep, InsertAppKeeps, DiffAppKeeps, WriteAppKeeps
  <2>3. ASSUME NEW q \in Requests, NEW a \in AppIds, HasApp(a),
               \/ \E s \in Schemas : createVersion(q, a, s)
               \/ \E n \in Names : duplicate(q, a, n)
        PROVE  AppInv'
    BY <2>3, CreateVersionKeeps, DuplicateKeeps
  <2>4. CASE AppNext
    BY <2>2, <2>3, <2>4, PublishKeeps DEF AppNext
  <2> QED BY <2>1, <2>4
<1> QED BY <1>1, <1>2, PTL DEF AppSpec

\* Versions are numbered 1, 2, 3... without a gap or a repetition, although a save() of
\* update() or archive() may write current_version back: createVersion() takes the number
\* after current_version, and is refused when a version has it.
THEOREM VersionsAreNumbered == AppSpec => []AppVersionsDense
<1>1. AppInv => AppVersionsDense
  <2> SUFFICES ASSUME AppInv, NEW a \in AppIds, HasApp(a)
               PROVE  /\ NumbersOf(a) = 1 .. Cardinality(NumbersOf(a))
                      /\ Cardinality({v \in appVersions : v.app = a})
                           = Cardinality(NumbersOf(a))
                      /\ apps[a].currentVersion \in NumbersOf(a) \cup {0}
    BY DEF AppVersionsDense
  <2> DEFINE V == {v \in appVersions : v.app = a}
             f == [v \in V |-> v.number]
  <2>1. PICK m \in Nat : NumbersOf(a) = 1 .. m
    BY DEF AppInv, VersionsInv
  <2>2. Cardinality(NumbersOf(a)) = m
    <3>1. Cardinality(1 .. m) = m
      BY FS_Interval
    <3> QED BY <2>1, <3>1
  <2>3. IsFiniteSet(V)
    BY FS_Subset DEF AppInv, VersionsInv
  <2>4. NumbersOf(a) = {v.number : v \in V}
    BY DEF NumbersOf
  <2>5. \A v, w \in V : v.number = w.number => v = w
    BY DEF AppInv, VersionsInv
  <2>6. f \in Bijection(V, NumbersOf(a))
    <3> HIDE DEF V
    <3>1. f \in [V -> NumbersOf(a)]
      BY <2>4
    <3>2. \A v, w \in V : f[v] = f[w] => v = w
      BY <2>5
    <3>3. \A n \in NumbersOf(a) : \E v \in V : f[v] = n
      BY <2>4
    <3> QED BY <3>1, <3>2, <3>3 DEF Bijection, Injection, Surjection, IsInjective
  <2>7. Cardinality(V) = Cardinality(NumbersOf(a))
    <3>1. ExistsBijection(V, NumbersOf(a))
      BY <2>6 DEF ExistsBijection
    <3> HIDE DEF V
    <3> QED BY <2>3, <3>1, FS_Bijection
  <2>8. apps[a].currentVersion \in NumbersOf(a) \cup {0}
    BY DEF AppInv, AppRowsInv, AppRowOK, VersionTaken, NumbersOf
  <2> QED BY <2>1, <2>2, <2>7, <2>8
<1> QED BY <1>1, AppInvariance, PTL

\* What getPublishedVersion() serves is marked as published, unless a save() of update() or
\* archive() overlapped another request and wrote published_version_id back.
THEOREM PublishedIsMarked == AppSpec => []ServedIsPublished
<1>1. AppInv => ServedIsPublished
  BY DEF AppInv, Raced, Saves, FlagsOK, ServedIsPublished
<1> QED BY <1>1, AppInvariance, PTL

-------------------------------------------------------------------------------
(* Skills: an update is read, embedded, compared and written by a request  *)
(* that was alone, or its row is excused.                                  *)

SkillColumns == {"type", "name", "content", "embedding", "isActive", "isMandatory", "version"}

SkillRow(row) == DOMAIN row = SkillColumns
Sound(row) == \A e \in row.embedding : e.content = row.content
Excused(s) == s \in skewed \/ \E q \in editors[s] : ~alone[q]

Editing(q) ==
  At(q, SkillKinds, "embed") \/ At(q, SkillKinds, "diff") \/ At(q, SkillKinds, "write")

\* The copy of a request that is alone is sound when it is compared, and differs from the
\* row in the columns it has found.
EditOK(q) ==
  /\ job[q].skill \in SkillIds /\ HasSkill(job[q].skill)
  /\ {"next", "dirty", "skill"} \subseteq DOMAIN job[q] /\ SkillRow(job[q].next)
  /\ alone[q] /\ job[q].phase # "embed" => Sound(job[q].next) \/ Excused(job[q].skill)
  /\ alone[q] /\ job[q].phase = "write" =>
       job[q].dirty = Differing(job[q].next, skills[job[q].skill])

\* Only when an item was refused is the i-th that passed another one than the i-th.
ImportOK(q) ==
  /\ job[q].bundle \in SkillBundles
  /\ Len(job[q].kept) \in Nat /\ Len(job[q].kept) <= Len(job[q].bundle)
  /\ Len(job[q].kept) = 0 => job[q].kept = <<>>

SkillJobOK(q) ==
  /\ Editing(q) => EditOK(q)
  /\ At(q, {"skill_create"}, "insert") => SkillRow(job[q].next)
  /\ At(q, {"skill_import"}, "batch") => ImportOK(q)

SkillTable ==
  /\ skills = [s \in SkillIds |-> skills[s]] /\ editors = [s \in SkillIds |-> editors[s]]
  /\ \A s \in SkillIds : HasSkill(s) => SkillRow(skills[s])
  /\ \A r, s \in SkillIds : HasSkill(s) /\ r <= s => HasSkill(r)
  /\ \A s \in SkillIds : \A q \in editors[s] : q \in Requests /\ job[q].kind # "none"

SkillsFound == \A s \in SkillIds : HasSkill(s) => Sound(skills[s]) \/ Excused(s)

SkillInv ==
  /\ RequestInv /\ SkillTable /\ SkillsFound
  /\ \A q \in Requests : SkillJobOK(q)

\* A skill with these columns is one.
LEMMA ColumnsMakeASkill ==
  ASSUME NEW row, SkillRow(row)
  PROVE  row # NoSkill
<1>1. "name" \in DOMAIN row
  BY DEF SkillRow, SkillColumns
<1>2. "name" \notin DOMAIN NoSkill
  BY DEF NoSkill
<1> QED BY <1>1, <1>2

LEMMA NewSkillFields ==
  ASSUME NEW draft, NEW embedding
  PROVE  /\ SkillRow(NewSkill(draft, embedding))
         /\ NewSkill(draft, embedding).content = draft.content
         /\ NewSkill(draft, embedding).embedding = embedding
BY DEF NewSkill, SkillRow, SkillColumns

LEMMA EmbeddingsAreSound ==
  ASSUME NEW x, NEW e \in Embedding(x)
  PROVE  e.content = x.content
BY DEF Embedding

LEMMA PatchedFields ==
  ASSUME NEW row, SkillRow(row), NEW p
  PROVE  SkillRow(Patched(row, p)) /\ Patched(row, p).embedding = row.embedding
BY DEF Patched, SkillRow, SkillColumns

LEMMA FirstFreeSkill ==
  ASSUME SkillTable, FreeSkills # {}
  PROVE  /\ Min(FreeSkills) \in SkillIds /\ SkillIds \subseteq Nat \ {0}
         /\ \A s \in SkillIds : HasSkill(s) <=> s < Min(FreeSkills)
<1>1. SkillIds \subseteq Nat \ {0} /\ FreeSkills \in SUBSET Nat
  BY SkillsAssumption DEF FreeSkills
<1>2. Min(FreeSkills) \in FreeSkills /\ \A x \in FreeSkills : Min(FreeSkills) <= x
  BY <1>1, SmallestElement
<1> DEFINE m == Min(FreeSkills)
<1>3. m \in SkillIds /\ ~HasSkill(m)
  BY <1>2 DEF FreeSkills
<1> HIDE DEF m
<1>4. ASSUME NEW s \in SkillIds PROVE HasSkill(s) <=> s < m
  <2>1. s \in Nat /\ m \in Nat
    BY <1>1, <1>3
  <2>2. HasSkill(s) => ~(m <= s)
    BY <1>3 DEF SkillTable
  <2>3. ~HasSkill(s) => m <= s
    BY <1>2 DEF FreeSkills, m
  <2> QED BY <2>1, <2>2, <2>3
<1> QED BY <1>1, <1>3, <1>4 DEF m

LEMMA KeptOfBundle ==
  ASSUME NEW b \in SkillBundles
  PROVE  /\ Len(InOrder(Passing(b))) \in Nat /\ Len(InOrder(Passing(b))) <= Len(b)
         /\ Len(InOrder(Passing(b))) = 0 => InOrder(Passing(b)) = <<>>
<1> DEFINE P == Passing(b)
           n == Len(b)
<1>1. n \in Nat /\ P \subseteq 1..n
  <2>1. Len(b) \in Nat /\ DOMAIN b = 1..Len(b)
    BY SkillsAssumption
  <2>2. P \subseteq DOMAIN b
    BY DEF Passing
  <2> QED BY <2>1, <2>2
<1>2. IsFiniteSet(1..n) /\ Cardinality(1..n) = n
  <2> HIDE DEF n, P
  <2> QED BY <1>1, FS_Interval
<1>3. IsFiniteSet(P) /\ Cardinality(P) <= n /\ Cardinality(P) \in Nat
  <2> DEFINE I == 1..n
  <2>1. IsFiniteSet(I) /\ P \subseteq I /\ Cardinality(I) = n
    BY <1>1, <1>2
  <2> HIDE DEF P, n, I
  <2>2. IsFiniteSet(P) /\ Cardinality(P) <= Cardinality(I)
    BY <2>1, FS_Subset
  <2>3. Cardinality(P) \in Nat
    BY <2>2, FS_CardinalityType
  <2> QED BY <2>1, <2>2, <2>3 DEF I
<1>4. Len(InOrder(P)) = Cardinality(P)
  <2> HIDE DEF P
  <2> QED BY <1>3 DEF InOrder
<1>5. Cardinality(P) = 0 => InOrder(P) = <<>>
  <2> HIDE DEF P
  <2> SUFFICES ASSUME Cardinality(P) = 0 PROVE InOrder(P) = <<>>
    OBVIOUS
  <2>1. 1..Cardinality(P) = {}
    OBVIOUS
  <2> QED BY <2>1 DEF InOrder
<1> QED BY <1>3, <1>4, <1>5

-------------------------------------------------------------------------------
(* What a step leaves. *)

\* What excuses a row stays, as long as its editors do.
LEMMA ExcusesStay ==
  ASSUME SkillTable, NEW q \in Requests, Steps(q), skewed \subseteq skewed',
         NEW s \in SkillIds, editors[s] \subseteq editors'[s], Excused(s)
  PROVE  Excused(s)'
<1>1. CASE s \in skewed
  BY <1>1 DEF Excused
<1>2. CASE s \notin skewed
  <2>1. PICK x \in editors[s] : ~alone[x]
    BY <1>2 DEF Excused
  <2>2. x \in Requests /\ job[x].kind # "none"
    BY <2>1 DEF SkillTable
  <2>3. x \in editors'[s] /\ ~alone'[x]
    BY <2>1, <2>2 DEF Steps
  <2> QED BY <2>3 DEF Excused
<1> QED BY <1>1, <1>2

\* Whoever was alone until now is not at work while q takes a step.
LEMMA OtherSkillJobs ==
  ASSUME SkillInv, NEW q \in Requests, Steps(q), NEW x \in Requests \ {q},
         \A s \in SkillIds : HasSkill(s) => HasSkill(s)'
  PROVE  SkillJobOK(x)'
<1>1. job'[x] = job[x] /\ SkillJobOK(x) /\ (Busy(x) => ~alone'[x])
  BY DEF SkillInv, Steps, OthersStay
<1>2. Editing(x)' => Editing(x) /\ ~alone'[x]
  BY <1>1 DEF Editing, At, Busy, Outcomes
<1>3. Editing(x)' => EditOK(x)'
  BY <1>1, <1>2 DEF SkillJobOK, EditOK
<1>4. At(x, {"skill_import"}, "batch")' => ImportOK(x)'
  BY <1>1 DEF SkillJobOK, ImportOK, At
<1>5. At(x, {"skill_create"}, "insert")' => SkillRow(job'[x].next)
  BY <1>1 DEF SkillJobOK, At
<1> QED BY <1>3, <1>4, <1>5 DEF SkillJobOK

LEMMA EditorsHaveKinds ==
  ASSUME SkillTable, NEW q \in Requests, Steps(q), NEW x \in Requests, job[x].kind # "none"
  PROVE  job'[x].kind # "none"
BY DEF Steps, OthersStay

\* A step that leaves the table as it is.
LEMMA SkillIdle ==
  ASSUME SkillInv, NEW q \in Requests, RequestInv', Steps(q), UNCHANGED skillVars, SkillJobOK(q)'
  PROVE  SkillInv'
<1>1. UNCHANGED <<skills, editors, skewed>> /\ SkillTable /\ SkillsFound
  BY DEF skillVars, SkillInv
<1>2. \A s \in SkillIds : HasSkill(s)' <=> HasSkill(s)
  BY <1>1 DEF HasSkill
<1>3. \A x \in Requests : SkillJobOK(x)'
  BY <1>2, OtherSkillJobs
<1>4. \A s \in SkillIds : \A x \in editors'[s] : x \in Requests /\ job'[x].kind # "none"
  BY <1>1, EditorsHaveKinds DEF SkillTable
<1>5. SkillTable'
  BY <1>1, <1>2, <1>4 DEF SkillTable
<1>6. SkillsFound'
  <2> SUFFICES ASSUME NEW s \in SkillIds, HasSkill(s) PROVE Sound(skills'[s]) \/ Excused(s)'
    BY <1>2 DEF SkillsFound, Sound
  <2>1. Sound(skills[s]) \/ Excused(s)
    BY <1>1 DEF SkillsFound
  <2>2. Excused(s) => Excused(s)'
    BY <1>1, ExcusesStay
  <2> QED BY <1>1, <2>1, <2>2
<1> QED BY <1>3, <1>5, <1>6 DEF SkillInv

\* Requests that have ended keep no copy.
LEMMA HarmlessSkillJobs ==
  ASSUME NEW q \in Requests, job'[q].phase \in {"audit", "ok", "refused", "failed"}
  PROVE  SkillJobOK(q)'
BY DEF SkillJobOK, Editing, At

LEMMA SkillAnswered ==
  ASSUME SkillInv, NEW q \in Requests, NEW kind, NEW outcome \in Outcomes,
         Begins(q, Answered(kind, outcome)), UNCHANGED skillVars
  PROVE  SkillInv'
<1>1. RequestInv' /\ Steps(q) /\ job'[q] = Answered(kind, outcome)
  BY BeginsMeans, AnsweredFields DEF SkillInv
<1>2. job'[q].phase \in {"audit", "ok", "refused", "failed"}
  BY <1>1 DEF Answered, NoJob, Outcomes
<1> QED BY <1>1, <1>2, HarmlessSkillJobs, SkillIdle

\* Steps of a request at work after which it only has to be audited, or is over.
LEMMA SkillProceeds ==
  ASSUME SkillInv, NEW q \in Requests, Busy(q),
         \/ Goes(q, "audit") \/ (\E outcome \in Outcomes : Ends(q, outcome)) \/ Fails(q)
  PROVE  /\ RequestInv' /\ Steps(q) /\ SkillJobOK(q)' /\ UNCHANGED alone
         /\ UNCHANGED skillVars => SkillInv'
<1>1. RequestInv
  BY DEF SkillInv
<1>2. /\ Proceeds(q) /\ job'[q].kind = job[q].kind
      /\ job'[q].phase \in {"audit", "ok", "refused", "failed"}
  <2>1. CASE Goes(q, "audit")
    <3>1. /\ Proceeds(q) /\ job'[q] = [job[q] EXCEPT !.phase = "audit"]
          /\ job'[q].phase = "audit"
      BY <1>1, <2>1, GoesMeans
    <3> QED BY <3>1
  <2>2. CASE (\E outcome \in Outcomes : Ends(q, outcome)) \/ Fails(q)
    BY <1>1, <2>2, EndsMeans DEF Outcomes
  <2> QED BY <2>1, <2>2
<1>3. RequestInv' /\ Steps(q) /\ UNCHANGED alone
  BY <1>1, <1>2, ProceedsMeans DEF Proceeds
<1> QED BY <1>2, <1>3, HarmlessSkillJobs, SkillIdle

-------------------------------------------------------------------------------
(* Requests begin. *)

SkillJobFields == JobFields \cup {"skill", "next", "dirty"}

LEMMA SkillJobMeans ==
  ASSUME NEW kind, NEW phase, NEW s, NEW next
  PROVE  LET j == SkillJob(kind, phase, s, next)
         IN /\ SkillJobFields \subseteq DOMAIN j /\ j.kind = kind /\ j.phase = phase
            /\ j.skill = s /\ j.next = next
BY DEF SkillJob, SkillJobFields, JobFields

\* update() and remove() read a row that is sound, or excused.
LEMMA EditBegins ==
  ASSUME SkillInv, NEW q \in Requests, NEW kind, NEW phase \in {"embed", "diff"},
         NEW s \in SkillIds, HasSkill(s), NEW next, SkillRow(next),
         phase = "diff" => /\ next.content = skills[s].content
                           /\ next.embedding = skills[s].embedding,
         Begins(q, SkillJob(kind, phase, s, next)), UNCHANGED skillVars
  PROVE  SkillInv'
<1> PICK j : j = SkillJob(kind, phase, s, next)
  OBVIOUS
<1>1. /\ SkillJobFields \subseteq DOMAIN j /\ j.kind = kind /\ j.phase = phase
      /\ j.skill = s /\ j.next = next
  BY SkillJobMeans
<1>2. Begins(q, j) /\ JobFields \subseteq DOMAIN j /\ RequestInv
  BY <1>1 DEF SkillJobFields, SkillInv
<1>3. RequestInv' /\ Steps(q) /\ job'[q] = j
  BY <1>2, BeginsMeans
<1>4. UNCHANGED <<skills, editors, skewed>>
  BY DEF skillVars
<1>5. EditOK(q)'
  <2>1. s \in SkillIds /\ HasSkill(s)' /\ {"next", "dirty", "skill"} \subseteq DOMAIN j /\ SkillRow(next)
    BY <1>1, <1>4 DEF HasSkill, SkillJobFields
  <2>2. phase = "diff" => Sound(next) \/ Excused(s)'
    <3>1. Sound(skills[s]) \/ Excused(s)
      BY DEF SkillInv, SkillsFound
    <3>2. Excused(s) => Excused(s)'
      BY <1>3, <1>4, ExcusesStay DEF SkillInv
    <3> QED BY <3>1, <3>2 DEF Sound
  <2>3. j.phase # "embed" => phase = "diff"
    BY <1>1
  <2>4. j.phase # "write"
    BY <1>1
  <2> QED BY <1>1, <1>3, <2>1, <2>2, <2>3, <2>4 DEF EditOK
<1>6. SkillJobOK(q)'
  BY <1>1, <1>3, <1>5 DEF SkillJobOK, At
<1> QED BY <1>3, <1>6, SkillIdle

LEMMA SkillBeginsKeep ==
  ASSUME SkillInv, NEW q \in Requests,
         CreateSkill(q) \/ UpdateSkill(q) \/ RemoveSkill(q) \/ ImportSkills(q)
  PROVE  SkillInv'
<1>1. UNCHANGED skillVars /\ RequestInv /\ "refused" \in Outcomes
  BY DEF CreateSkill, UpdateSkill, RemoveSkill, ImportSkills, SkillInv, Outcomes
<1>2. ASSUME NEW s \in SkillIds, HasSkill(s) PROVE SkillRow(skills[s])
  BY <1>2 DEF SkillInv, SkillTable
<1>3. CASE CreateSkill(q)
  <2>1. PICK d \in SkillDrafts :
          Begins(q, IF IsCatalog(d) /\ CatalogExists THEN Answered("skill_create", "refused")
                    ELSE SkillJob("skill_create", "insert", 0, NewSkill(d, {})))
    BY <1>3 DEF CreateSkill
  <2>2. CASE Begins(q, Answered("skill_create", "refused"))
    BY <1>1, <2>2, SkillAnswered
  <2>3. CASE Begins(q, SkillJob("skill_create", "insert", 0, NewSkill(d, {})))
    <3> PICK j : j = SkillJob("skill_create", "insert", 0, NewSkill(d, {}))
      OBVIOUS
    <3>1. /\ SkillJobFields \subseteq DOMAIN j /\ j.kind = "skill_create" /\ j.phase = "insert"
          /\ j.next = NewSkill(d, {})
      BY SkillJobMeans
    <3>2. Begins(q, j) /\ JobFields \subseteq DOMAIN j
      BY <2>3, <3>1 DEF SkillJobFields
    <3>3. RequestInv' /\ Steps(q) /\ job'[q] = j
      BY <1>1, <3>2, BeginsMeans
    <3>4. SkillRow(j.next)
      BY <3>1, NewSkillFields
    <3>5. SkillJobOK(q)'
      BY <3>1, <3>3, <3>4 DEF SkillJobOK, Editing, At
    <3> QED BY <1>1, <3>3, <3>5, SkillIdle
  <2> QED BY <2>1, <2>2, <2>3
<1>4. CASE UpdateSkill(q)
  <2>1. PICK s \in SkillIds, p \in SkillPatches :
          /\ HasSkill(s)
          /\ Begins(q, IF IsCatalog(skills[s]) /\ p.isMandatory = {FALSE}
                       THEN Answered("skill_update", "refused")
                       ELSE SkillJob("skill_update",
                              IF Patched(skills[s], p).content # skills[s].content
                              THEN "embed" ELSE "diff", s, Patched(skills[s], p)))
    BY <1>4 DEF UpdateSkill
  <2>2. PICK next : next = Patched(skills[s], p)
    OBVIOUS
  <2>3. PICK phase \in {"embed", "diff"} :
          phase = IF next.content # skills[s].content THEN "embed" ELSE "diff"
    OBVIOUS
  <2>4. \/ Begins(q, Answered("skill_update", "refused"))
        \/ Begins(q, SkillJob("skill_update", phase, s, next))
    BY <2>1, <2>2, <2>3
  <2>5. SkillRow(next) /\ next.embedding = skills[s].embedding
    BY <1>2, <2>1, <2>2, PatchedFields
  <2>6. CASE Begins(q, Answered("skill_update", "refused"))
    BY <1>1, <2>6, SkillAnswered
  <2>7. CASE Begins(q, SkillJob("skill_update", phase, s, next))
    <3>1. phase = "diff" => next.content = skills[s].content
      BY <2>3
    <3> QED BY <1>1, <2>1, <2>5, <2>7, <3>1, EditBegins
  <2> QED BY <2>4, <2>6, <2>7
<1>5. CASE RemoveSkill(q)
  <2>1. PICK s \in SkillIds :
          /\ HasSkill(s)
          /\ Begins(q, IF IsCatalog(skills[s]) /\ skills[s].isMandatory
                       THEN Answered("skill_remove", "refused")
                       ELSE SkillJob("skill_remove", "diff", s,
                                     [skills[s] EXCEPT !.isActive = FALSE]))
    BY <1>5 DEF RemoveSkill
  <2>2. PICK next : next = [skills[s] EXCEPT !.isActive = FALSE]
    OBVIOUS
  <2>3. PICK phase \in {"embed", "diff"} : phase = "diff"
    OBVIOUS
  <2>4. \/ Begins(q, Answered("skill_remove", "refused"))
        \/ Begins(q, SkillJob("skill_remove", phase, s, next))
    BY <2>1, <2>2, <2>3
  <2>5. /\ SkillRow(next) /\ next.embedding = skills[s].embedding
        /\ next.content = skills[s].content
    BY <1>2, <2>1, <2>2 DEF SkillRow, SkillColumns
  <2>6. CASE Begins(q, Answered("skill_remove", "refused"))
    BY <1>1, <2>6, SkillAnswered
  <2>7. CASE Begins(q, SkillJob("skill_remove", phase, s, next))
    BY <1>1, <2>1, <2>5, <2>7, EditBegins
  <2> QED BY <2>4, <2>6, <2>7
<1>6. CASE ImportSkills(q)
  <2>1. PICK b \in SkillBundles :
          Begins(q, [kind |-> "skill_import", at |-> NoProcess, phase |-> "batch",
                     bundle |-> b, kept |-> InOrder(Passing(b))])
    BY <1>6 DEF ImportSkills
  <2>2. PICK kept : kept = InOrder(Passing(b))
    OBVIOUS
  <2>3. PICK j : j = [kind |-> "skill_import", at |-> NoProcess, phase |-> "batch",
                      bundle |-> b, kept |-> kept]
    OBVIOUS
  <2>4. /\ JobFields \subseteq DOMAIN j /\ j.kind = "skill_import" /\ j.phase = "batch"
        /\ j.bundle = b /\ j.kept = kept
    BY <2>3 DEF JobFields
  <2>5. Begins(q, j)
    BY <2>1, <2>2, <2>3
  <2>6. RequestInv' /\ Steps(q) /\ job'[q] = j
    BY <1>1, <2>4, <2>5, BeginsMeans
  <2>7. Len(kept) \in Nat /\ Len(kept) <= Len(b) /\ (Len(kept) = 0 => kept = <<>>)
    BY <2>2, KeptOfBundle
  <2>8. ImportOK(q)'
    BY <2>4, <2>6, <2>7 DEF ImportOK
  <2>9. SkillJobOK(q)'
    BY <2>4, <2>6, <2>8 DEF SkillJobOK, Editing, At
  <2> QED BY <1>1, <2>6, <2>9, SkillIdle
<1> QED BY <1>3, <1>4, <1>5, <1>6

-------------------------------------------------------------------------------
(* An update goes on. *)

\* A request that is alone keeps a sound copy, and what it found in the row.
LEMMA EditGoesOn ==
  ASSUME SkillInv, NEW q \in Requests, Editing(q), UNCHANGED alone, UNCHANGED skillVars,
         NEW next, SkillRow(next), NEW phase \in {"diff", "write"}, NEW dirty, NEW j,
         job' = [job EXCEPT ![q] = j], DOMAIN j = DOMAIN job[q],
         j.kind = job[q].kind, j.phase = phase, j.skill = job[q].skill, j.next = next,
         j.dirty = dirty,
         alone[q] => Sound(next) \/ Excused(job[q].skill),
         phase = "write" => dirty = Differing(next, skills[job[q].skill])
  PROVE  SkillInv'
<1>1. RequestInv /\ EditOK(q) /\ SkillTable /\ Busy(q)
  BY DEF SkillInv, SkillJobOK, Editing, At, Busy, Outcomes
<1>2. JobFields \subseteq DOMAIN j
  BY <1>1 DEF RequestInv
<1>3. RequestInv' /\ job'[q] = j /\ Steps(q)
  BY <1>1, <1>2, JobBecomes
<1>4. UNCHANGED <<skills, editors, skewed>>
  BY DEF skillVars
<1>5. PICK s \in SkillIds : s = job[q].skill /\ HasSkill(s)
  BY <1>1 DEF EditOK
<1>6. Excused(s) => Excused(s)'
  BY <1>1, <1>3, <1>4, ExcusesStay
<1>7. {"next", "dirty", "skill"} \subseteq DOMAIN j
  BY <1>1 DEF EditOK
<1>8. HasSkill(s)'
  BY <1>4, <1>5 DEF HasSkill
<1>9. EditOK(q)'
  BY <1>3, <1>4, <1>5, <1>6, <1>7, <1>8 DEF EditOK
<1>10. SkillJobOK(q)'
  BY <1>3, <1>9 DEF SkillJobOK, At
<1> QED BY <1>3, <1>10, SkillIdle

LEMMA SkillReadsKeep ==
  ASSUME SkillInv, NEW q \in Requests, RegenerateEmbedding(q) \/ DiffSkill(q)
  PROVE  SkillInv'
<1>1. /\ Editing(q) /\ EditOK(q) /\ RequestInv
      /\ UNCHANGED alone /\ UNCHANGED skillVars
  BY DEF RegenerateEmbedding, DiffSkill, Editing, At, SkillKinds, SkillInv, SkillJobOK
<1>2. PICK old : old = job[q]
  OBVIOUS
<1>3. JobFields \cup {"next", "dirty", "skill"} \subseteq DOMAIN old /\ SkillRow(old.next)
  BY <1>1, <1>2 DEF RequestInv, EditOK
<1>4. CASE RegenerateEmbedding(q)
  <2>1. PICK next : next = [old.next EXCEPT !.embedding = Embedding(old.next)]
    OBVIOUS
  <2>2. PICK j : j = [old EXCEPT !.phase = "diff", !.next = next]
    OBVIOUS
  <2>3. job' = [job EXCEPT ![q] = j]
    BY <1>2, <1>4, <2>1, <2>2 DEF RegenerateEmbedding
  <2>4. /\ DOMAIN j = DOMAIN old /\ j.kind = old.kind /\ j.phase = "diff" /\ j.skill = old.skill
        /\ j.next = next /\ j.dirty = old.dirty
    BY <1>3, <2>2 DEF JobFields
  <2>5. /\ SkillRow(next) /\ next.content = old.next.content
        /\ next.embedding = Embedding(old.next)
    BY <1>3, <2>1 DEF SkillRow, SkillColumns
  <2>6. Sound(next)
    BY <2>5, EmbeddingsAreSound DEF Sound
  <2> QED BY <1>1, <1>2, <2>3, <2>4, <2>5, <2>6, EditGoesOn
<1>5. CASE DiffSkill(q)
  <2>1. PICK dirty : dirty = Differing(old.next, skills[old.skill])
    OBVIOUS
  <2>2. PICK j : j = [old EXCEPT !.phase = "write", !.dirty = dirty]
    OBVIOUS
  <2>3. job' = [job EXCEPT ![q] = j]
    BY <1>2, <1>5, <2>1, <2>2 DEF DiffSkill
  <2>4. /\ DOMAIN j = DOMAIN old /\ j.kind = old.kind /\ j.phase = "write" /\ j.skill = old.skill
        /\ j.next = old.next /\ j.dirty = dirty
    BY <1>3, <2>2 DEF JobFields
  <2>5. alone[q] => Sound(old.next) \/ Excused(old.skill)
    BY <1>1, <1>2, <1>5 DEF DiffSkill, At, EditOK
  <2> QED BY <1>1, <1>2, <1>3, <2>1, <2>3, <2>4, <2>5, EditGoesOn
<1> QED BY <1>4, <1>5

-------------------------------------------------------------------------------
(* The writes. *)

\* The row of a skill is replaced, or the first free one is taken.
LEMMA SkillRowWritten ==
  ASSUME SkillInv, NEW q \in Requests, RequestInv', Steps(q), SkillJobOK(q)',
         job[q].kind # "none", NEW s \in SkillIds, NEW row, SkillRow(row), NEW by,
         skills' = [skills EXCEPT ![s] = row], editors' = [editors EXCEPT ![s] = by],
         UNCHANGED skewed,
         \/ HasSkill(s) /\ by = editors[s] \cup {q}
         \/ FreeSkills # {} /\ s = Min(FreeSkills) /\ by = {q},
         Sound(row) \/ Excused(s)'
  PROVE  SkillInv'
<1>1. SkillTable /\ SkillsFound
  BY DEF SkillInv
<1>2. /\ skills' = [x \in SkillIds |-> skills'[x]] /\ editors' = [x \in SkillIds |-> editors'[x]]
      /\ skills'[s] = row /\ editors'[s] = by
      /\ \A x \in SkillIds \ {s} : skills'[x] = skills[x] /\ editors'[x] = editors[x]
  BY <1>1 DEF SkillTable
<1>3. HasSkill(s)' /\ \A x \in SkillIds \ {s} : HasSkill(x)' <=> HasSkill(x)
  BY <1>2, ColumnsMakeASkill DEF HasSkill
<1>4. \A x \in Requests : SkillJobOK(x)'
  BY <1>3, OtherSkillJobs
<1>5. \A r, x \in SkillIds : HasSkill(x)' /\ r <= x => HasSkill(r)'
  <2>1. CASE HasSkill(s)
    BY <1>1, <1>3, <2>1 DEF SkillTable
  <2>2. CASE FreeSkills # {} /\ s = Min(FreeSkills)
    <3>1. SkillIds \subseteq Nat \ {0} /\ \A x \in SkillIds : HasSkill(x) <=> x < s
      BY <1>1, <2>2, FirstFreeSkill
    <3>2. \A x \in SkillIds : HasSkill(x)' <=> x <= s
      BY <1>3, <3>1
    <3>3. \A r, x \in SkillIds : x <= s /\ r <= x => r <= s
      BY <3>1
    <3> QED BY <3>2, <3>3
  <2> QED BY <2>1, <2>2
<1>6. ASSUME NEW x \in SkillIds, NEW y \in editors'[x]
      PROVE  y \in Requests /\ job'[y].kind # "none"
  <2>1. y \in Requests /\ job[y].kind # "none"
    <3>1. y = q \/ y \in editors[x]
      BY <1>2, <1>6
    <3> QED BY <1>1, <3>1 DEF SkillTable
  <2> QED BY <1>1, <2>1, EditorsHaveKinds
<1>7. \A x \in SkillIds : HasSkill(x)' => SkillRow(skills'[x])
  BY <1>1, <1>2, <1>3 DEF SkillTable
<1>8. SkillTable'
  BY <1>2, <1>5, <1>6, <1>7 DEF SkillTable, SkillRow
<1>9. ASSUME NEW x \in SkillIds, HasSkill(x)'
      PROVE  Sound(skills'[x]) \/ Excused(x)'
  <2>1. CASE x = s
    BY <1>2, <2>1
  <2>2. CASE x # s
    <3>1. Sound(skills[x]) \/ Excused(x)
      BY <1>1, <1>3, <1>9, <2>2 DEF SkillsFound
    <3>2. Excused(x) => Excused(x)'
      BY <1>1, <1>2, <2>2, ExcusesStay
    <3> QED BY <1>2, <2>2, <3>1, <3>2
  <2> QED BY <2>1, <2>2
<1>10. SkillsFound'
  BY <1>9 DEF SkillsFound, Sound
<1> QED BY <1>4, <1>8, <1>10 DEF SkillInv

LEMMA InsertSkillKeeps ==
  ASSUME SkillInv, NEW q \in Requests, InsertSkill(q)
  PROVE  SkillInv'
<1>1. /\ Busy(q) /\ SkillJobOK(q) /\ Goes(q, "audit") /\ FreeSkills # {} /\ UNCHANGED skewed
      /\ job[q].kind # "none"
  BY DEF InsertSkill, At, Busy, Outcomes, SkillInv
<1>2. SkillRow(job[q].next)
  BY <1>1 DEF SkillJobOK, InsertSkill
<1>3. PICK s, row, by :
        /\ s = Min(FreeSkills) /\ by = {q}
        /\ row = [job[q].next EXCEPT !.embedding = Embedding(job[q].next)]
  OBVIOUS
<1>4. s \in SkillIds
  BY <1>1, <1>3, FirstFreeSkill DEF SkillInv
<1>5. /\ SkillRow(row) /\ row.content = job[q].next.content
      /\ row.embedding = Embedding(job[q].next)
  BY <1>2, <1>3 DEF SkillRow, SkillColumns
<1>6. Sound(row)
  BY <1>5, EmbeddingsAreSound DEF Sound
<1>7. skills' = [skills EXCEPT ![s] = row] /\ editors' = [editors EXCEPT ![s] = by]
  BY <1>3 DEF InsertSkill
<1>8. RequestInv' /\ Steps(q) /\ SkillJobOK(q)'
  BY <1>1, SkillProceeds
<1> QED BY <1>1, <1>3, <1>4, <1>5, <1>6, <1>7, <1>8, SkillRowWritten

\* The UPDATE of a request that is alone makes the row its copy.
LEMMA WriteSkillKeeps ==
  ASSUME SkillInv, NEW q \in Requests, WriteSkill(q)
  PROVE  SkillInv'
<1>1. /\ Busy(q) /\ Editing(q) /\ SkillJobOK(q) /\ Goes(q, "audit") /\ UNCHANGED skewed
      /\ job[q].kind # "none" /\ job[q].phase = "write" /\ SkillTable
  BY DEF WriteSkill, At, Busy, Outcomes, SkillKinds, Editing, SkillInv
<1>2. EditOK(q)
  BY <1>1 DEF SkillJobOK
<1>3. PICK s \in SkillIds : s = job[q].skill /\ HasSkill(s)
  BY <1>2 DEF EditOK
<1>4. PICK old, next, dirty : old = skills[s] /\ next = job[q].next /\ dirty = job[q].dirty
  OBVIOUS
<1>5. PICK row, by : row = Written(old, next, dirty) /\ by = editors[s] \cup {q}
  OBVIOUS
<1>6. skills' = [skills EXCEPT ![s] = row] /\ editors' = [editors EXCEPT ![s] = by]
  BY <1>3, <1>4, <1>5 DEF WriteSkill
<1>7. SkillRow(old) /\ SkillRow(next)
  BY <1>1, <1>2, <1>3, <1>4 DEF SkillTable, EditOK
<1>8. /\ SkillRow(row)
      /\ \A c \in SkillColumns : row[c] = IF c \in dirty THEN next[c] ELSE old[c]
  BY <1>5, <1>7 DEF SkillRow, Written
<1>9. RequestInv' /\ Steps(q) /\ SkillJobOK(q)' /\ UNCHANGED alone
  BY <1>1, SkillProceeds
<1>10. editors'[s] = by
  BY <1>1, <1>6 DEF SkillTable
<1>11. Sound(row) \/ Excused(s)'
  <2>1. CASE ~alone[q]
    <3>1. q \in editors'[s] /\ ~alone'[q]
      BY <1>5, <1>9, <1>10, <2>1
    <3> QED BY <3>1 DEF Excused
  <2>2. CASE alone[q]
    <3>1. Sound(next) \/ Excused(s)
      BY <1>1, <1>2, <1>3, <1>4, <2>2 DEF EditOK
    <3>2. dirty = Differing(next, old)
      BY <1>1, <1>2, <1>3, <1>4, <2>2 DEF EditOK
    <3>3. \A c \in SkillColumns : row[c] = next[c]
      BY <1>7, <1>8, <3>2 DEF Differing, SkillRow
    <3>4. row.content = next.content /\ row.embedding = next.embedding
      BY <3>3 DEF SkillColumns
    <3>5. Excused(s) => Excused(s)'
      BY <1>1, <1>5, <1>9, <1>10, ExcusesStay
    <3> QED BY <3>1, <3>4, <3>5 DEF Sound
  <2> QED BY <2>1, <2>2
<1> QED BY <1>1, <1>3, <1>5, <1>6, <1>8, <1>9, <1>11, SkillRowWritten

\* importSkills(): the new rows are sound, or every one of them is excused.
LEMMA InsertSkillsKeep ==
  ASSUME SkillInv, NEW q \in Requests, InsertSkills(q)
  PROVE  SkillInv'
<1>1. /\ Busy(q) /\ SkillJobOK(q) /\ Ends(q, "ok") /\ job[q].kind # "none" /\ SkillTable
      /\ SkillsFound
  BY DEF InsertSkills, At, Busy, Outcomes, SkillInv
<1>2. ImportOK(q)
  BY <1>1 DEF SkillJobOK, InsertSkills
<1>3. PICK b, kept : b = job[q].bundle /\ kept = job[q].kept
  OBVIOUS
<1>4. PICK first : first = IF kept = <<>> THEN 0 ELSE Min(FreeSkills)
  OBVIOUS
<1>5. PICK new : new = first..(first + Len(kept) - 1)
  OBVIOUS
<1>6. /\ skills' = [s \in SkillIds |->
           IF s \in new THEN NewSkill(b[s - first + 1], Embedding(b[kept[s - first + 1]]))
           ELSE skills[s]]
      /\ editors' = [s \in SkillIds |-> IF s \in new THEN {q} ELSE editors[s]]
      /\ skewed' = skewed \cup {s \in new : kept[s - first + 1] # s - first + 1}
      /\ Cardinality(FreeSkills) >= Len(kept)
  BY <1>3, <1>4, <1>5 DEF InsertSkills
<1>7. /\ b \in SkillBundles /\ Len(kept) \in Nat /\ Len(b) \in Nat /\ Len(kept) <= Len(b)
      /\ Len(kept) = 0 => kept = <<>>
  BY <1>2, <1>3, SkillsAssumption DEF ImportOK
<1>8. RequestInv' /\ Steps(q) /\ SkillJobOK(q)'
  BY <1>1, SkillProceeds DEF Outcomes
<1>9. SkillIds \subseteq Nat \ {0} /\ IsFiniteSet(FreeSkills)
  <2>1. FreeSkills \in SUBSET SkillIds
    BY DEF FreeSkills
  <2> QED BY <2>1, SkillsAssumption, FS_Subset
\* The new rows are the first free ones.
<1>10. \/ new = {}
       \/ /\ first \in Nat /\ Len(kept) > 0
          /\ \A x \in SkillIds : HasSkill(x) <=> x < first
  <2>1. CASE Len(kept) = 0
    <3>1. first = 0
      BY <1>4, <1>7, <2>1
    <3> QED BY <1>5, <2>1, <3>1
  <2>2. CASE Len(kept) > 0
    <3>1. FreeSkills # {}
      <4>1. Cardinality({}) = 0
        BY FS_EmptySet
      <4>2. Cardinality(FreeSkills) >= Len(kept)
        BY <1>6
      <4>3. CASE FreeSkills = {}
        <5>1. Cardinality(FreeSkills) = 0
          BY <4>1, <4>3
        <5> QED BY <1>7, <2>2, <4>2, <5>1
      <4> QED BY <4>3
    <3>2. kept # <<>>
      BY <2>2
    <3>3. first = Min(FreeSkills)
      BY <1>4, <3>2
    <3>4. first \in SkillIds /\ \A x \in SkillIds : HasSkill(x) <=> x < first
      BY <1>1, <3>1, <3>3, FirstFreeSkill
    <3> QED BY <1>9, <2>2, <3>4
  <2> QED BY <1>7, <2>1, <2>2
<1>11. \A s \in SkillIds : HasSkill(s) => s \notin new
  BY <1>5, <1>9, <1>10
<1>12. \A s \in SkillIds : s \notin new => skills'[s] = skills[s] /\ editors'[s] = editors[s]
  BY <1>6
<1>13. \A s \in SkillIds \cap new : SkillRow(skills'[s]) /\ editors'[s] = {q}
  BY <1>6, NewSkillFields
<1>14. \A s \in SkillIds : HasSkill(s)' <=> HasSkill(s) \/ s \in new
  BY <1>11, <1>12, <1>13, ColumnsMakeASkill DEF HasSkill
<1>15. \A x \in Requests : SkillJobOK(x)'
  BY <1>8, <1>14, OtherSkillJobs
<1>16. \A r, s \in SkillIds : HasSkill(s)' /\ r <= s => HasSkill(r)'
  <2>1. CASE new = {}
    BY <1>1, <1>14, <2>1 DEF SkillTable
  <2>2. CASE /\ first \in Nat /\ Len(kept) > 0
             /\ \A x \in SkillIds : HasSkill(x) <=> x < first
    <3>1. PICK last : last = first + Len(kept) - 1
      OBVIOUS
    <3>2. last \in Int /\ last >= first
      BY <1>7, <2>2, <3>1
    <3>3. \A s \in SkillIds : HasSkill(s)' <=> s <= last
      BY <1>5, <1>9, <1>14, <2>2, <3>1, <3>2
    <3> QED BY <1>9, <3>2, <3>3
  <2> QED BY <1>10, <2>1, <2>2
<1>17. ASSUME NEW s \in SkillIds, NEW y \in editors'[s]
       PROVE  y \in Requests /\ job'[y].kind # "none"
  <2>1. y \in Requests /\ job[y].kind # "none"
    BY <1>1, <1>12, <1>13, <1>17 DEF SkillTable
  <2> QED BY <1>1, <1>8, <2>1, EditorsHaveKinds
<1>18. \A s \in SkillIds : HasSkill(s)' => SkillRow(skills'[s])
  BY <1>1, <1>12, <1>13, <1>14 DEF SkillTable
<1>19. SkillTable'
  BY <1>6, <1>16, <1>17, <1>18 DEF SkillTable, SkillRow
<1>20. ASSUME NEW s \in SkillIds, HasSkill(s)' PROVE Sound(skills'[s]) \/ Excused(s)'
  <2>1. CASE s \notin new
    <3>1. Sound(skills[s]) \/ Excused(s)
      BY <1>1, <1>14, <1>20, <2>1 DEF SkillsFound
    <3>2. skewed \subseteq skewed'
      BY <1>6
    <3>3. Excused(s) => Excused(s)'
      BY <1>1, <1>8, <1>12, <2>1, <3>2, ExcusesStay
    <3> QED BY <1>12, <2>1, <3>1, <3>3
  <2>2. CASE s \in new /\ kept[s - first + 1] # s - first + 1
    <3>1. s \in skewed'
      BY <1>6, <2>2
    <3> QED BY <3>1 DEF Excused
  <2>3. CASE s \in new /\ kept[s - first + 1] = s - first + 1
    <3>1. PICK i : i = s - first + 1
      OBVIOUS
    <3>2. kept[i] = i
      BY <2>3, <3>1
    <3>3. PICK draft : draft = b[i]
      OBVIOUS
    <3>4. skills'[s] = NewSkill(draft, Embedding(draft))
      BY <1>6, <2>3, <3>1, <3>2, <3>3
    <3>5. /\ NewSkill(draft, Embedding(draft)).content = draft.content
          /\ NewSkill(draft, Embedding(draft)).embedding = Embedding(draft)
      BY NewSkillFields
    <3>6. Sound(skills'[s])
      BY <3>4, <3>5, EmbeddingsAreSound DEF Sound
    <3> QED BY <3>6
  <2> QED BY <2>1, <2>2, <2>3
<1>21. SkillsFound'
  BY <1>20 DEF SkillsFound, Sound
<1> QED BY <1>8, <1>15, <1>19, <1>21 DEF SkillInv

-------------------------------------------------------------------------------
(* The invariant. *)

LEMMA SkillsStart ==
  ASSUME RequestInit, SkillInit
  PROVE  SkillInv
<1>1. RequestInv
  BY RequestsBegin
<1>2. \A q \in Requests : SkillJobOK(q)
  BY DEF RequestInit, NoJob, SkillJobOK, Editing, At
<1>3. PICK row : row = NewSkill(FirstSkill, Embedding(FirstSkill))
  OBVIOUS
<1>4. SkillRow(row) /\ row.content = FirstSkill.content /\ row.embedding = Embedding(FirstSkill)
  BY <1>3, NewSkillFields
<1>5. Sound(row) /\ row # NoSkill
  BY <1>4, EmbeddingsAreSound, ColumnsMakeASkill DEF Sound
<1>6. /\ skills = [s \in SkillIds |-> IF s = 1 THEN row ELSE NoSkill]
      /\ editors = [s \in SkillIds |-> {}]
  BY <1>3 DEF SkillInit
<1>7. \A s \in SkillIds : (HasSkill(s) <=> s = 1) /\ (s = 1 => skills[s] = row) /\ editors[s] = {}
  BY <1>5, <1>6 DEF HasSkill
<1>8. \A r, s \in SkillIds : HasSkill(s) /\ r <= s => HasSkill(r)
  BY <1>7, SkillsAssumption
<1>9. skills = [s \in SkillIds |-> skills[s]] /\ editors = [s \in SkillIds |-> editors[s]]
  BY <1>6
<1>10. SkillTable
  BY <1>4, <1>7, <1>8, <1>9 DEF SkillTable
<1>11. SkillsFound
  BY <1>5, <1>7 DEF SkillsFound
<1> QED BY <1>1, <1>2, <1>10, <1>11 DEF SkillInv

LEMMA SkillsStep ==
  ASSUME SkillInv, [SkillNext]_<<requestVars, skillVars>>
  PROVE  SkillInv'
<1>1. CASE SkillNext
  <2> SUFFICES ASSUME NEW q \in Requests,
                      \/ CreateSkill(q) \/ InsertSkill(q) \/ UpdateSkill(q) \/ RegenerateEmbedding(q)
                      \/ RemoveSkill(q) \/ DiffSkill(q) \/ WriteSkill(q) \/ ImportSkills(q)
                      \/ InsertSkills(q) \/ AuditSkill(q) \/ SkillFails(q)
               PROVE  SkillInv'
    BY <1>1 DEF SkillNext
  <2>1. CASE CreateSkill(q) \/ UpdateSkill(q) \/ RemoveSkill(q) \/ ImportSkills(q)
    BY <2>1, SkillBeginsKeep
  <2>2. CASE RegenerateEmbedding(q) \/ DiffSkill(q)
    BY <2>2, SkillReadsKeep
  <2>3. CASE InsertSkill(q)
    BY <2>3, InsertSkillKeeps
  <2>4. CASE WriteSkill(q)
    BY <2>4, WriteSkillKeeps
  <2>5. CASE InsertSkills(q)
    BY <2>5, InsertSkillsKeep
  <2>6. CASE AuditSkill(q)
    <3>1. /\ Busy(q) /\ UNCHANGED skillVars /\ \E outcome \in Outcomes : Ends(q, outcome)
      BY <2>6 DEF AuditSkill, Audited, At, Busy, Outcomes
    <3> QED BY <3>1, SkillProceeds
  <2>7. CASE SkillFails(q)
    <3>1. Busy(q) /\ UNCHANGED skillVars /\ Fails(q)
      BY <2>7 DEF SkillFails, Fails
    <3> QED BY <3>1, SkillProceeds
  <2> QED BY <2>1, <2>2, <2>3, <2>4, <2>5, <2>6, <2>7
<1>2. CASE UNCHANGED <<requestVars, skillVars>>
  <2>1. UNCHANGED <<job, alone, skills, editors, skewed>>
    BY <1>2 DEF requestVars, skillVars
  <2>2. RequestInv'
    BY <2>1 DEF SkillInv, RequestInv, Solitude, Busy
  <2>3. SkillTable' /\ SkillsFound'
    BY <2>1 DEF SkillInv, SkillTable, SkillsFound, HasSkill, Excused
  <2>4. ASSUME NEW q \in Requests PROVE SkillJobOK(q)'
    <3>1. SkillJobOK(q)
      BY DEF SkillInv
    <3> QED BY <2>1, <3>1 DEF SkillJobOK, Editing, At, EditOK, ImportOK, HasSkill, Excused
  <2> QED BY <2>2, <2>3, <2>4 DEF SkillInv
<1> QED BY <1>1, <1>2

\* update(), remove() and importSkills(): a request that was alone compares a sound copy with
\* a row nobody else has changed since, and a bundle of which nothing was refused gets each
\* item its own embedding.
THEOREM SkillInvariance == SkillSpec => []SkillInv
<1>1. RequestInit /\ SkillInit => SkillInv
  BY SkillsStart
<1>2. SkillInv /\ [SkillNext]_<<requestVars, skillVars>> => SkillInv'
  BY SkillsStep
<1> QED BY <1>1, <1>2, PTL DEF SkillSpec

\* A skill is found by its present content: only overlapping updates, or a bundle of which
\* importSkills() refused an item, leave the embedding of another text.
THEOREM SkillsAreFound == SkillSpec => []EmbeddingIsOfContent
<1>1. SkillInv => EmbeddingIsOfContent
  BY DEF SkillInv, SkillsFound, Sound, Excused, EmbeddingIsOfContent
<1> QED BY <1>1, SkillInvariance, PTL
===============================================================================
