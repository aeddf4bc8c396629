SPECIFICATION Spec
CONSTANTS
    Users = {u1}
    People = {x1, x2}
    Texts = {t1}
    Words = {"a", "b", "v1:c"}
    Prefixed = {"v1:c"}
    Untitled = "a"
    None = None
    Garbage = Garbage
    MaxEdits = 2
    MaxRuns = 2
    Documents = {"terms1", "terms2", "marketing1", "marketing2"}
    DocType <- TwoTypes
    EffectiveAt <- TwoVersions
    Required = {"terms1", "terms2", "marketing2"}
    Calls = {c1, c2, c3}
    Subscriptions = {s1, s2}
    Statuses = {"ACTIVE", "ON_HOLD"}
    Syncs = {y1, y2}
    Never = Never
    MaxTime = 2
SYMMETRY Symmetry
CHECK_DEADLOCK FALSE
INVARIANTS BackfillTypeOK PassedTablesSealed LookupsMatch AdmittedHasAgreed EventTrail PlanFollowsSubscriptions
PROPERTIES ScriptKeepsTexts LockedOutOnlyByNewVersion
