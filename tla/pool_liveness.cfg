SPECIFICATION Spec
CONSTANTS
    SeedIds = {s1, s2}
    ChildIds = {}
    UserIds = {}
    Jobs = {1, 2, 3}
    MaxRounds = 2
    TopK = 1
    MaxMatches = 1
    MaxEdits = 0
    MaxControls = 0
    PatchResets = {}
    Overlap = TRUE
    EditInRound = TRUE
CHECK_DEADLOCK FALSE
PROPERTIES JobsEnd
