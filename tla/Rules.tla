-------------------------------- MODULE Rules --------------------------------
(***************************************************************************)
(* The rules of one organization (src/modules/rules/rules.service.ts): the *)
(* table, the snapshots of former versions, and two caches in the memory   *)
(* of each process, of the active rules and of simulation results.         *)
(*                                                                         *)
(* An optional value is a set of at most one element.  A condition is a    *)
(* function from some keys to values.  Names, priorities and descriptions  *)
(* are data; requests refused for their role are left out.                 *)
(***************************************************************************)
EXTENDS HttpRequests

CONSTANTS RuleIds,      \* primary keys, 1..n in the order of insertion
          FirstRule,    \* the draft of the rule that exists already
          Drafts,       \* rules a client creates: Content, type, scope, workflow, agent
          Contents,     \* conditions and instructions an update sets
          Bundles       \* sequences of imported items: a draft, its version and is_active

\* The DTOs ask for at least one item (ArrayMinSize) and versions from 1 (Min).
ASSUME RulesAssumption ==
  /\ RuleIds \subseteq Nat \ {0} /\ \E n \in RuleIds : RuleIds = 1..n
  /\ \A b \in Bundles : /\ Len(b) \in Nat \ {0} /\ DOMAIN b = 1..Len(b)
                        /\ \A i \in 1..Len(b) : b[i].version \in Nat \ {0}

VARIABLES
  rules,      \* [RuleIds -> Rule or NoRule] table rule
  snapshots,  \* rows of rule_version
  active,     \* [Processes -> an optional list] activeRuleCache
  simulated,  \* [Processes -> results] simulationCache
  writer,     \* history: [RuleIds -> the request that wrote the row last]
  born        \* history: [RuleIds -> the version it was inserted with]

ruleVars == <<rules, snapshots, active, simulated, writer, born>>

NoRule  == [version |-> 0]
Exists(r) == rules[r] # NoRule

WriteKinds == {"rule_create", "rule_update", "rule_activate", "rule_deactivate",
               "rule_delete", "rule_import"}
ReadKinds  == {"rule_context", "rule_test"}

\* Columns an update can change, and their snapshot in rule_version.
Changeable(row) == [condition |-> row.condition, instruction |-> row.instruction,
                    isActive |-> row.isActive]
Snapshot(r, row) == [rule |-> r, version |-> row.version, was |-> Changeable(row)]

NewRow(draft, version, isActive) ==
  [type |-> draft.type, scope |-> draft.scope, workflow |-> draft.workflow,
   agent |-> draft.agent, condition |-> draft.condition,
   instruction |-> draft.instruction, version |-> version, isActive |-> isActive]

FreeIds == {r \in RuleIds : ~Exists(r)}
ActiveRules == {<<r, rules[r]>> : r \in {x \in RuleIds : Exists(x) /\ rules[x].isActive}}

-------------------------------------------------------------------------------
(* When two rules contradict each other. *)

Contradictable == {"ACTOR_MAPPING", "STRUCTURAL_CONSTRAINT"}

\* The aliases of what a rule speaks about and of what it decides.
SubjectKeys == [ACTOR_MAPPING |-> <<"source_label", "source", "actor", "alias">>,
                STRUCTURAL_CONSTRAINT |-> <<"structure", "pattern", "element">>]
DecisionKeys == [ACTOR_MAPPING |-> <<"canonical", "canonical_actor", "target", "mapped_actor">>,
                 STRUCTURAL_CONSTRAINT |-> <<"mode", "constraint", "requirement">>]

\* The value of the first of the keys that the condition has, as an optional value.
pickFirstValue(condition, keys) ==
  LET present(f) == {i \in DOMAIN keys : keys[i] \in DOMAIN f}
  IN {f[keys[Min(present(f))]] : f \in {g \in condition : present(g) # {}}}

conditionsOverlap(left, right) ==
  \/ left = {} /\ right = {}
  \/ \E f \in left, g \in right : \E k \in DOMAIN f \cap DOMAIN g : f[k] = g[k]

\* The candidate's type decides which keys are compared.
hasTypeSpecificConflict(candidate, existing) ==
  LET subject(row)  == pickFirstValue(row.condition, SubjectKeys[candidate.type])
      decision(row) == pickFirstValue(row.condition, DecisionKeys[candidate.type])
      comparable == /\ subject(candidate) = subject(existing) /\ subject(candidate) # {}
                    /\ decision(candidate) # {} /\ decision(existing) # {}
  IN IF comparable THEN decision(candidate) # decision(existing)
     ELSE candidate.instruction # existing.instruction

Contradicts(candidate, existing) ==
  /\ candidate.type \in Contradictable
  /\ conditionsOverlap(candidate.condition, existing.condition)
  /\ hasTypeSpecificConflict(candidate, existing)

SameTarget(a, b) == /\ a.type = b.type /\ a.scope = b.scope
                    /\ a.agent = b.agent /\ a.workflow = b.workflow

\* The query of ensureNoConflict(), for a candidate that is to be active.
NoConflictInTable(candidate, excluded) ==
  \A r \in RuleIds \ excluded :
    Exists(r) /\ rules[r].isActive /\ SameTarget(candidate, rules[r])
      => ~Contradicts(candidate, rules[r])

\* assertScopeConsistency(); the workflow is one of the organization's.
ScopeIsConsistent(draft) ==
  /\ draft.scope = "WORKFLOW" => draft.workflow # {}
  /\ draft.scope = "ORG" => draft.workflow = {}
  /\ draft.scope = "AGENT" => draft.agent # {}

-------------------------------------------------------------------------------
RuleInit ==
  /\ rules = [r \in RuleIds |-> IF r = 1 THEN NewRow(FirstRule, 1, TRUE) ELSE NoRule]
  /\ snapshots = {}
  /\ active = [p \in Processes |-> {}]
  /\ simulated = [p \in Processes |-> {}]
  /\ writer = [r \in RuleIds |-> {}]
  /\ born = [r \in RuleIds |-> 1]

RuleJob(kind, p, phase, r, old, next) ==
  [kind |-> kind, at |-> p, phase |-> phase, rule |-> r, old |-> old, next |-> next,
   dirty |-> {}]

\* create(): the conflict check is the first read of the rules.
CreateRule(q) ==
  /\ \E p \in Processes, d \in Drafts :
       LET row == NewRow(d, 1, TRUE)
       IN Begins(q, IF ScopeIsConsistent(d) /\ NoConflictInTable(row, {})
                    THEN RuleJob("rule_create", p, "insert", 0, row, row)
                    ELSE Answered("rule_create", "refused"))
  /\ UNCHANGED ruleVars

InsertRule(q) ==
  /\ At(q, {"rule_create"}, "insert")
  /\ FreeIds # {}
  /\ LET r == Min(FreeIds)
     IN /\ rules' = [rules EXCEPT ![r] = job[q].next]
        /\ writer' = [writer EXCEPT ![r] = {q}]
        /\ born' = [born EXCEPT ![r] = 1]
        /\ job' = [job EXCEPT ![q].phase = "audit", ![q].rule = r]
  /\ UNCHANGED <<snapshots, active, simulated, alone, faults>>

\* A request that changes row r into next: old is the row as it was read.
ChangeRule(q, kind, r, next, phase) ==
  \E p \in Processes :
    Begins(q, RuleJob(kind, p, phase, r, rules[r],
                      [next EXCEPT !.version = rules[r].version + 1]))

\* update(): nothing happens when the dto changes nothing.
UpdateRule(q) ==
  /\ \E r \in RuleIds, c \in Contents, on \in BOOLEAN :
       LET next == [rules[r] EXCEPT !.condition = c.condition,
                                    !.instruction = c.instruction, !.isActive = on]
       IN /\ Exists(r)
          /\ IF next = rules[r] THEN Begins(q, Answered("rule_update", "ok"))
             ELSE ChangeRule(q, "rule_update", r, next, IF on THEN "check" ELSE "snapshot")
  /\ UNCHANGED ruleVars

Activate(q) ==
  /\ \E r \in RuleIds :
       /\ Exists(r)
       /\ IF rules[r].isActive THEN Begins(q, Answered("rule_activate", "ok"))
          ELSE ChangeRule(q, "rule_activate", r, [rules[r] EXCEPT !.isActive = TRUE], "check")
  /\ UNCHANGED ruleVars

Deactivate(q) ==
  /\ \E r \in RuleIds :
       /\ Exists(r)
       /\ IF ~rules[r].isActive THEN Begins(q, Answered("rule_deactivate", "ok"))
          ELSE ChangeRule(q, "rule_deactivate", r, [rules[r] EXCEPT !.isActive = FALSE],
                          "snapshot")
  /\ UNCHANGED ruleVars

\* softDelete(): a deleted rule is an inactive one; an inactive one is only audited.
SoftDelete(q) ==
  /\ \E r \in RuleIds :
       /\ Exists(r)
       /\ ChangeRule(q, "rule_delete", r, [rules[r] EXCEPT !.isActive = FALSE],
                     IF rules[r].isActive THEN "snapshot" ELSE "audit")
  /\ UNCHANGED ruleVars

\* update() and activate() without ensureNoConflict().
AcceptRule(q) ==
  /\ At(q, WriteKinds, "check")
  /\ Goes(q, "snapshot")
  /\ UNCHANGED ruleVars

\* ensureNoConflict() of update() and activate().
CheckRule(q) ==
  /\ At(q, WriteKinds, "check")
  /\ IF NoConflictInTable(job[q].next, {job[q].rule}) THEN Goes(q, "snapshot")
     ELSE Ends(q, "refused")
  /\ UNCHANGED ruleVars

\* An update whose version row is left out.
SkipSnapshot(q) ==
  /\ At(q, WriteKinds, "snapshot")
  /\ Goes(q, "diff")
  /\ UNCHANGED ruleVars

\* snapshotRuleVersion() stores the row as it was read, in a statement of its own.
SnapshotVersion(q) ==
  /\ At(q, WriteKinds, "snapshot")
  /\ snapshots' = snapshots \cup {Snapshot(job[q].rule, job[q].old)}
  /\ Goes(q, "diff")
  /\ UNCHANGED <<rules, active, simulated, writer, born>>

DiffRule(q) ==
  /\ At(q, WriteKinds, "diff")
  /\ job' = [job EXCEPT ![q].phase = "write",
                        ![q].dirty = Differing(job[q].next, rules[job[q].rule])]
  /\ UNCHANGED <<alone, faults>> /\ UNCHANGED ruleVars

WriteRule(q) ==
  /\ At(q, WriteKinds, "write")
  /\ LET r == job[q].rule
     IN /\ rules' = [rules EXCEPT ![r] = Written(@, job[q].next, job[q].dirty)]
        /\ writer' = [writer EXCEPT ![r] = {q}]
  /\ Goes(q, "audit")
  /\ UNCHANGED <<snapshots, active, simulated, born>>

-------------------------------------------------------------------------------
(* The caches. *)

Invalidated(q) == [active EXCEPT ![job[q].at] = {}]

\* The request returns after the audit log and leaves the caches as they are.
FinishKeepingCache(q) ==
  /\ At(q, WriteKinds, "audit")
  /\ Ends(q, "ok")
  /\ UNCHANGED ruleVars

\* After the audit log, invalidateOrgRuleCache() and invalidateRuleSimulationCache():
\* only the caches of this process.  A bundle has no results to forget.
FinishRule(q) ==
  /\ At(q, WriteKinds, "audit")
  /\ active' = Invalidated(q)
  /\ simulated' = [simulated EXCEPT ![job[q].at] = {s \in @ : s.rule # job[q].rule}]
  /\ Ends(q, "ok")
  /\ UNCHANGED <<rules, snapshots, writer, born>>

\* getCachedActiveRules(): from the cache at once, or from the table and then the cache.
ReadRules(q, kind, p, answered, bundle) ==
  Begins(q, [kind |-> kind, at |-> p, rule |-> 0, bundle |-> bundle,
             list |-> IF active[p] = {} THEN ActiveRules ELSE UNION {c.list : c \in active[p]},
             phase |-> IF active[p] = {} THEN "fill" ELSE answered])

\* listActiveRulesForContext() and previewForSession().
ContextRules(q) ==
  /\ \E p \in Processes : ReadRules(q, "rule_context", p, "ok", <<>>)
  /\ UNCHANGED ruleVars

ImportRules(q) ==
  /\ \E p \in Processes, b \in Bundles : ReadRules(q, "rule_import", p, "stage", b)
  /\ UNCHANGED ruleVars

FillCache(q) ==
  /\ At(q, {"rule_context", "rule_import"}, "fill")
  /\ active' = [active EXCEPT ![job[q].at] = {[list |-> job[q].list, by |-> q]}]
  /\ IF job[q].kind = "rule_context" THEN Ends(q, "ok") ELSE Goes(q, "stage")
  /\ UNCHANGED <<rules, snapshots, simulated, writer, born>>

\* importRules() compares every item with the list and with the items before it,
\* whatever their type and scope.
Staged(b) == [i \in DOMAIN b |-> NewRow(b[i].draft, b[i].version, b[i].isActive)]
BundleIsClean(b, list) ==
  \A i \in DOMAIN b :
    /\ ScopeIsConsistent(b[i].draft)
    /\ b[i].isActive =>
         /\ \A e \in list : ~Contradicts(Staged(b)[i], e[2])
         /\ \A j \in 1..(i - 1) : ~Contradicts(Staged(b)[i], Staged(b)[j])

StageRules(q) ==
  /\ At(q, {"rule_import"}, "stage")
  /\ IF BundleIsClean(job[q].bundle, job[q].list) THEN Goes(q, "insert") ELSE Ends(q, "refused")
  /\ UNCHANGED ruleVars

\* One transaction for the whole bundle.
InsertBundle(q) ==
  /\ At(q, {"rule_import"}, "insert")
  /\ Cardinality(FreeIds) >= Len(job[q].bundle)
  /\ LET first == Min(FreeIds)
         new   == first..(first + Len(job[q].bundle) - 1)
     IN /\ rules' = [r \in RuleIds |->
             IF r \in new THEN Staged(job[q].bundle)[r - first + 1] ELSE rules[r]]
        /\ writer' = [r \in RuleIds |-> IF r \in new THEN {q} ELSE writer[r]]
        /\ born' = [r \in RuleIds |-> IF r \in new THEN rules'[r].version ELSE born[r]]
  /\ Goes(q, "audit")
  /\ UNCHANGED <<snapshots, active, simulated>>

\* testRule(): the rule is read, then looked up in the cache, then simulated.
TestRule(q) ==
  /\ \E p \in Processes, r \in RuleIds :
       /\ Exists(r)
       /\ Begins(q, IF \E s \in simulated[p] : s.rule = r
                    THEN Answered("rule_test", "ok")
                    ELSE RuleJob("rule_test", p, "simulate", r, rules[r], rules[r]))
  /\ UNCHANGED ruleVars

CacheSimulation(q) ==
  /\ At(q, {"rule_test"}, "simulate")
  /\ simulated' = [simulated EXCEPT ![job[q].at] =
       {s \in @ : s.rule # job[q].rule} \cup
       {[rule |-> job[q].rule, of |-> job[q].old, by |-> q]}]
  /\ Ends(q, "ok")
  /\ UNCHANGED <<rules, snapshots, active, writer, born>>

\* The time to live of what process p holds is over.
Expire(p) ==
  /\ active[p] # {} \/ simulated[p] # {}
  /\ active' = [active EXCEPT ![p] = {}]
  /\ simulated' = [simulated EXCEPT ![p] = {}]
  /\ UNCHANGED <<rules, snapshots, writer, born>> /\ UNCHANGED requestVars

RuleFails(q) == job[q].kind \in WriteKinds \cup ReadKinds /\ Fails(q) /\ UNCHANGED ruleVars

RuleNext ==
  \/ \E q \in Requests :
       \/ CreateRule(q) \/ InsertRule(q) \/ UpdateRule(q) \/ Activate(q) \/ Deactivate(q)
       \/ SoftDelete(q) \/ CheckRule(q) \/ SnapshotVersion(q) \/ DiffRule(q) \/ WriteRule(q)
       \/ FinishRule(q) \/ ContextRules(q) \/ ImportRules(q) \/ FillCache(q) \/ StageRules(q)
       \/ InsertBundle(q) \/ TestRule(q) \/ CacheSimulation(q) \/ RuleFails(q)
  \/ \E p \in Processes : Expire(p)

RuleSpec == RequestInit /\ RuleInit /\ [][RuleNext]_<<requestVars, ruleVars>>

-------------------------------------------------------------------------------
RuleTypeOK ==
  /\ \A r \in RuleIds : Exists(r) => /\ rules[r].version \in Nat \ {0}
                                     /\ rules[r].isActive \in BOOLEAN
                                     /\ ScopeIsConsistent(rules[r])
  /\ \A s \in snapshots : s.rule \in RuleIds /\ s.version \in Nat
  /\ \A p \in Processes : Cardinality(active[p]) <= 1
  /\ writer \in [RuleIds -> {{}} \cup {{q} : q \in Requests}]

\* No version number of a rule is ever without its snapshot, whatever updates
\* overlap and whichever call fails: the snapshot of the row that was read comes
\* before the save that counts up its version.
RuleHistoryComplete ==
  \A r \in RuleIds : Exists(r) =>
    \A n \in born[r]..(rules[r].version - 1) :
      \E s \in snapshots : s.rule = r /\ s.version = n

\* Requests that a cache at process p may not know of: they overlapped, run at
\* another process, are still to invalidate it or failed before they could.
Unnoticed(q, p) ==
  job[q].kind \in WriteKinds /\ (job[q].at # p \/ Busy(q) \/ job[q].phase = "failed")

\* What a process has cached is out of date only when its reader overlapped
\* another request, or when a writer is elsewhere, unfinished or has failed.
StaleCacheIsExplained ==
  \A p \in Processes :
    /\ \A c \in active[p] :
         c.list = ActiveRules \/ ~alone[c.by] \/ \E q \in Requests : Unnoticed(q, p)
    /\ \A s \in simulated[p] :
         s.of = rules[s.rule] \/ ~alone[s.by] \/ \E q \in Requests : Unnoticed(q, p)

\* Two active rules contradict each other only when the requests that wrote them
\* overlapped somebody, or when a bundle was compared with a list that an
\* overlapping, failed or distant writer had made stale.
ConflictsAreRaces ==
  \A a, b \in RuleIds :
    /\ a # b /\ Exists(a) /\ Exists(b) /\ rules[a].isActive /\ rules[b].isActive
    /\ SameTarget(rules[a], rules[b]) /\ Contradicts(rules[a], rules[b])
    => \E q \in writer[a] \cup writer[b] :
         \/ ~alone[q]
         \/ job[q].kind = "rule_import" /\ \E x \in Requests : ~alone[x] \/ Unnoticed(x, job[q].at)
===============================================================================
