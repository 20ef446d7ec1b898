SPECIFICATION Spec
CONSTANTS
    SeedIds = {s1, s2}
    ChildIds = {c1}
    UserIds = {u1}
    Jobs = {1, 2}
    MaxRounds = 2
    TopK = 2
    MaxMatches = 1
    MaxEdits = 1
    MaxControls = 1
    PatchResets = {TRUE}
    Overlap = FALSE
    EditInRound = FALSE
SYMMETRY PoolSymmetry
CHECK_DEADLOCK FALSE
INVARIANTS
    RowMatchesChain PromotionFinal
PROPERTIES
    TerminalStays
