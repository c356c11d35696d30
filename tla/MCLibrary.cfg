\* Any three requests of one component on two server processes, one failed call.
CONSTANTS
  Requests = {q1, q2, q3}
  Processes = {p1, p2}
  NoProcess = NoProcess
  MaxFaults = 1
  Kinds = {"rule_create", "rule_update", "rule_activate", "rule_deactivate", "rule_delete",
           "rule_import", "rule_context", "rule_test",
           "skill_create", "skill_update", "skill_remove", "skill_import",
           "app_create", "app_update", "app_draft", "app_version", "app_publish",
           "app_unpublish", "app_duplicate", "app_archive"}
  RuleIds = {1, 2, 3}
  FirstRule <- MCFirstRule
  Drafts <- MCDrafts
  Contents <- MCContents
  Bundles <- MCBundles
  SkillIds = {1, 2, 3}
  FirstSkill <- MCFirstSkill
  SkillDrafts <- MCSkillDrafts
  SkillPatches <- MCSkillPatches
  SkillBundles <- MCSkillBundles
  FastApiEnabled = TRUE
  AppIds = {1, 2}
  Names = {"n1", "n2"}
  Schemas <- MCSchemas
  MaxDepth = 1
  MaxNodes = 3
  MaxPages = 2
  NoSchema <- MCNoSchema
SPECIFICATION Spec
CHECK_DEADLOCK FALSE
SYMMETRY Symmetry
INVARIANTS RuleHistoryComplete StaleCacheIsExplained ConflictsAreRaces
           EmbeddingIsOfContent AppVersionsDense ServedIsPublished
