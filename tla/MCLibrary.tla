------------------------------ MODULE MCLibrary ------------------------------
(***************************************************************************)
(* Rules, skills and applications of one organization.  The components     *)
(* share no table, so a behaviour sends its requests to one of them; what  *)
(* overlaps are requests of any kinds of that component.                   *)
(***************************************************************************)
EXTENDS Rules, Skills, Applications, TLC

vars == <<requestVars, ruleVars, skillVars, appVars>>

Init == RequestInit /\ RuleInit /\ SkillInit /\ AppInit

Only(kinds) == \A q \in Requests : job[q].kind \in kinds \cup {"none"}

Next == \/ Only(WriteKinds \cup ReadKinds) /\ RuleNext /\ UNCHANGED <<skillVars, appVars>>
        \/ Only(SkillKinds) /\ SkillNext /\ UNCHANGED <<ruleVars, appVars>>
        \/ Only(AppKinds) /\ AppNext /\ UNCHANGED <<ruleVars, skillVars>>

Spec == Init /\ [][Next]_vars

\* The ranges of the three tables, the caches and the requests.
TypeOK == RequestTypeOK /\ RuleTypeOK /\ SkillTypeOK /\ AppTypeOK

Symmetry == Permutations(Requests) \cup Permutations(Processes)

-------------------------------------------------------------------------------
(* Rules: two that contradict each other by their instructions, a mapping  *)
(* of an actor, and one without the workflow its scope calls for.          *)
Rule(type, scope, condition, instruction) ==
  [type |-> type, scope |-> scope, workflow |-> {}, agent |-> {},
   condition |-> condition, instruction |-> instruction]
Mapping(key, target) == {[x \in {key, "canonical"} |-> IF x = key THEN "clerk" ELSE target]}

MCFirstRule == Rule("ACTOR_MAPPING", "ORG", {}, "i1")
MCDrafts == {Rule("ACTOR_MAPPING", "ORG", {}, "i2"),
             Rule("STRUCTURAL_CONSTRAINT", "WORKFLOW", {}, "i1")}
MCContents == {[condition |-> Mapping("source", "officer"), instruction |-> "i1"]}
Item(draft, version, isActive) == [draft |-> draft, version |-> version, isActive |-> isActive]
MCBundles == {<<Item(Rule("ACTOR_MAPPING", "ORG", {}, "i2"), 1, FALSE),
                Item(Rule("ACTOR_MAPPING", "ORG", Mapping("source", "agent"), "i2"), 3, TRUE)>>}

(* Skills: catalogs and vocabulary with two contents. *)
Skill(type, content) == [type |-> type, name |-> "n1", content |-> content,
                         isMandatory |-> FALSE]
MCFirstSkill == Skill("ACTOR_CATALOG", "c1")
MCSkillDrafts == {Skill("ACTOR_CATALOG", "c2"), Skill("VOCABULARY", "c1")}
Patch(content, isActive) == [name |-> {}, content |-> content, isActive |-> isActive,
                             isMandatory |-> {}]
MCSkillPatches == {Patch({"c2"}, {}), Patch({"c3"}, {}), Patch({}, {FALSE}),
                   [Patch({}, {TRUE}) EXCEPT !.name = {"n2"}],
                   [Patch({}, {}) EXCEPT !.isMandatory = {FALSE}]}
MCSkillBundles == {<<Skill("ACTOR_CATALOG", "c2"), Skill("VOCABULARY", "c3")>>,
                   <<Skill("VOCABULARY", "c3"), Skill("ACTOR_CATALOG", "c2")>>}

(* Applications: a schema with two pages, one with none, and one that names a component twice. *)
Node(depth, id) == [depth |-> depth, id |-> id, wellFormed |-> TRUE]
Page(id, nodes) == [id |-> id, route |-> id, rooted |-> TRUE, nodes |-> nodes]
MCSchemas ==
  {[schemaVersion |-> "1.0.0", pages |-> <<>>],
   [schemaVersion |-> "1.0.0", pages |-> <<Page("a", <<Node(0, 1), Node(1, 2)>>),
                                           Page("b", <<Node(0, 3)>>)>>],
   [schemaVersion |-> "1.0.0", pages |-> <<Page("a", <<Node(0, 1), Node(1, 1)>>)>>]}
MCNoSchema == [schemaVersion |-> "none", pages |-> <<>>]
===============================================================================
