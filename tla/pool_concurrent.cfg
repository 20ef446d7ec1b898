SPECIFICATION Spec
CONSTANTS
    SeedIds = {s1, s2}
    ChildIds = {}
    UserIds = {}
    Jobs = {1, 2, 3}
    MaxRounds = 2
    TopK = 1
    MaxMatches = 1
    MaxEdits = 1
    MaxControls = 0
    PatchResets = {TRUE}
    Overlap = TRUE
    EditInRound = TRUE
SYMMETRY PoolSymmetry
CHECK_DEADLOCK FALSE
INVARIANTS
    SurvivorReviewed PromotedJudgedAndReviewed
