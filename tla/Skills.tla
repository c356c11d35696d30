-------------------------------- MODULE Skills --------------------------------
(***************************************************************************)
(* The skills of one organization                                          *)
(* (src/modules/skills/services/skills.service.ts).  A skill carries an    *)
(* embedding of its name and content, made by a call of FastAPI between    *)
(* the read of a request and its write; here an embedding is the text it   *)
(* was made from.  ACTOR_CATALOG skills are mandatory and meant to be one  *)
(* of a kind; no constraint of the database says so.                       *)
(*                                                                         *)
(* Searches, analytics and the domains and agents of a skill are left out. *)
(***************************************************************************)
EXTENDS HttpRequests

CONSTANTS SkillIds,      \* primary keys, 1..n in the order of insertion
          FirstSkill,    \* the draft of the skill that exists already
          SkillDrafts,   \* skills a client creates: type, name, content, isMandatory
          SkillPatches,  \* updates: optional name, content, isActive and isMandatory
          SkillBundles,  \* sequences of drafts to import
          FastApiEnabled \* without FastAPI there are no embeddings

ASSUME SkillsAssumption ==
  /\ SkillIds \subseteq Nat \ {0} /\ IsFiniteSet(SkillIds)
  /\ \A b \in SkillBundles : Len(b) \in Nat /\ DOMAIN b = 1..Len(b)
  /\ FastApiEnabled \in BOOLEAN

VARIABLES
  skills,   \* [SkillIds -> Skill or NoSkill] table skill
  editors,  \* history: [SkillIds -> requests that wrote the row]
  skewed    \* history: skills of a bundle that come after a refused item

skillVars == <<skills, editors, skewed>>

SkillKinds == {"skill_create", "skill_update", "skill_remove", "skill_import"}

NoSkill      == [version |-> 0]
HasSkill(s)  == skills[s] # NoSkill
IsCatalog(x) == x.type = "ACTOR_CATALOG"
FreeSkills   == {s \in SkillIds : ~HasSkill(s)}

\* validateActorCatalogUniqueness() and the same query in importSkills().
CatalogExists == \E s \in SkillIds : HasSkill(s) /\ IsCatalog(skills[s]) /\ skills[s].isActive

\* generateEmbedding() of prepareContentForEmbedding().
Embedding(x) == IF FastApiEnabled THEN {[name |-> x.name, content |-> x.content]} ELSE {}

NewSkill(draft, embedding) ==
  [type |-> draft.type, name |-> draft.name, content |-> draft.content,
   embedding |-> embedding, isActive |-> TRUE,
   isMandatory |-> draft.isMandatory \/ IsCatalog(draft), version |-> 1]

SkillInit ==
  /\ skills = [s \in SkillIds |->
       IF s = 1 THEN NewSkill(FirstSkill, Embedding(FirstSkill)) ELSE NoSkill]
  /\ editors = [s \in SkillIds |-> {}]
  /\ skewed = {}

-------------------------------------------------------------------------------
SkillJob(kind, phase, s, next) ==
  [kind |-> kind, at |-> NoProcess, phase |-> phase, skill |-> s, next |-> next,
   dirty |-> {}]

CreateSkill(q) ==
  /\ \E d \in SkillDrafts :
       Begins(q, IF IsCatalog(d) /\ CatalogExists THEN Answered("skill_create", "refused")
                 ELSE SkillJob("skill_create", "insert", 0, NewSkill(d, {})))
  /\ UNCHANGED skillVars

\* FastAPI has answered: the row is inserted.
InsertSkill(q) ==
  /\ At(q, {"skill_create"}, "insert")
  /\ FreeSkills # {}
  /\ LET s == Min(FreeSkills)
     IN /\ skills' = [skills EXCEPT ![s] =
                        [job[q].next EXCEPT !.embedding = Embedding(job[q].next)]]
        /\ editors' = [editors EXCEPT ![s] = {q}]
  /\ Goes(q, "audit")
  /\ UNCHANGED skewed

\* The fields of a dto that are defined replace those of the copy; isMandatory is
\* read and never applied.
Patched(row, p) ==
  LET value(new, old) == IF new = {} THEN old ELSE CHOOSE x \in new : TRUE
      content == value(p.content, row.content)
  IN [row EXCEPT !.name = value(p.name, @), !.content = content,
                 !.isActive = value(p.isActive, @),
                 !.version = IF content # row.content THEN @ + 1 ELSE @]

UpdateSkill(q) ==
  /\ \E s \in SkillIds, p \in SkillPatches :
       /\ HasSkill(s)
       /\ Begins(q, IF IsCatalog(skills[s]) /\ p.isMandatory = {FALSE}
                    THEN Answered("skill_update", "refused")
                    ELSE SkillJob("skill_update",
                           IF Patched(skills[s], p).content # skills[s].content
                           THEN "embed" ELSE "diff", s, Patched(skills[s], p)))
  /\ UNCHANGED skillVars

\* An update of the content that keeps the embedding.
KeepEmbedding(q) ==
  /\ At(q, {"skill_update"}, "embed")
  /\ Goes(q, "diff")
  /\ UNCHANGED skillVars

RegenerateEmbedding(q) ==
  /\ At(q, {"skill_update"}, "embed")
  /\ job' = [job EXCEPT ![q] = [@ EXCEPT
       !.phase = "diff", !.next = [job[q].next EXCEPT !.embedding = Embedding(job[q].next)]]]
  /\ UNCHANGED <<alone, faults>> /\ UNCHANGED skillVars

RemoveSkill(q) ==
  /\ \E s \in SkillIds :
       /\ HasSkill(s)
       /\ Begins(q, IF IsCatalog(skills[s]) /\ skills[s].isMandatory
                    THEN Answered("skill_remove", "refused")
                    ELSE SkillJob("skill_remove", "diff", s,
                                  [skills[s] EXCEPT !.isActive = FALSE]))
  /\ UNCHANGED skillVars

DiffSkill(q) ==
  /\ At(q, SkillKinds, "diff")
  /\ job' = [job EXCEPT ![q] = [@ EXCEPT
       !.phase = "write", !.dirty = Differing(job[q].next, skills[job[q].skill])]]
  /\ UNCHANGED <<alone, faults>> /\ UNCHANGED skillVars

WriteSkill(q) ==
  /\ At(q, SkillKinds, "write")
  /\ LET s == job[q].skill
     IN /\ skills' = [skills EXCEPT ![s] = Written(@, job[q].next, job[q].dirty)]
        /\ editors' = [editors EXCEPT ![s] = @ \cup {q}]
  /\ Goes(q, "audit")
  /\ UNCHANGED skewed

\* importSkills(): which items pass, all of them read before the first insert.
Passing(b) == {i \in DOMAIN b : ~(IsCatalog(b[i]) /\ CatalogExists)}

\* A set of numbers as the sequence in which a loop meets them.
InOrder(S) ==
  [n \in 1..Cardinality(S) |-> CHOOSE i \in S : Cardinality({j \in S : j <= i}) = n]

ImportSkills(q) ==
  /\ \E b \in SkillBundles :
       Begins(q, [kind |-> "skill_import", at |-> NoProcess, phase |-> "batch",
                  bundle |-> b, kept |-> InOrder(Passing(b))])
  /\ UNCHANGED skillVars

\* After the batch of embeddings, one transaction inserts as many skills as there are
\* items that passed: the i-th dto of the BUNDLE with the embedding of the i-th item
\* that passed.
InsertSkills(q) ==
  /\ At(q, {"skill_import"}, "batch")
  /\ Cardinality(FreeSkills) >= Len(job[q].kept)
  /\ LET b     == job[q].bundle
         kept  == job[q].kept
         first == IF kept = <<>> THEN 0 ELSE Min(FreeSkills)
         new   == first..(first + Len(kept) - 1)
     IN /\ skills' = [s \in SkillIds |->
             IF s \in new THEN NewSkill(b[s - first + 1], Embedding(b[kept[s - first + 1]]))
             ELSE skills[s]]
        /\ editors' = [s \in SkillIds |-> IF s \in new THEN {q} ELSE editors[s]]
        /\ skewed' = skewed \cup {s \in new : kept[s - first + 1] # s - first + 1}
  /\ Ends(q, "ok")

AuditSkill(q) == Audited(q, SkillKinds) /\ UNCHANGED skillVars
SkillFails(q) == job[q].kind \in SkillKinds /\ Fails(q) /\ UNCHANGED skillVars

SkillNext ==
  \E q \in Requests :
    \/ CreateSkill(q) \/ InsertSkill(q) \/ UpdateSkill(q) \/ RegenerateEmbedding(q)
    \/ RemoveSkill(q) \/ DiffSkill(q) \/ WriteSkill(q) \/ ImportSkills(q) \/ InsertSkills(q)
    \/ AuditSkill(q) \/ SkillFails(q)

SkillSpec == RequestInit /\ SkillInit /\ [][SkillNext]_<<requestVars, skillVars>>

-------------------------------------------------------------------------------
SkillTypeOK ==
  /\ \A s \in SkillIds : HasSkill(s) => /\ skills[s].version \in Nat \ {0}
                                        /\ skills[s].isActive \in BOOLEAN
                                        /\ IsCatalog(skills[s]) => skills[s].isMandatory
  /\ editors \in [SkillIds -> SUBSET Requests]
  /\ skewed \subseteq SkillIds

\* A skill is found by what it says: its embedding was made from its present content,
\* except where overlapping saves mixed its columns, or where its item of an imported bundle
\* came after a refused one.
EmbeddingIsOfContent ==
  \A s \in SkillIds : HasSkill(s) =>
    \/ \A e \in skills[s].embedding : e.content = skills[s].content
    \/ s \in skewed
    \/ \E q \in editors[s] : ~alone[q]

\* "ACTOR_CATALOG: enforce ... uniqueness": an organization has one active catalog.
OneCatalog ==
  Cardinality({s \in SkillIds : HasSkill(s) /\ IsCatalog(skills[s]) /\ skills[s].isActive}) <= 1
===============================================================================
