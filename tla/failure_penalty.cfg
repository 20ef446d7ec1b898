SPECIFICATION FailureSpec
CHECK_DEADLOCK FALSE
CONSTANTS
    c1 = c1  c2 = c2  b1 = b1  s1 = s1  manual = manual
    Candidates = {c1, c2}
    TextOf <- OwnTexts
    BatchOf <- OneBatch
    SourceOf <- OneSource
    Evidence = {c1}
    Relations = {}
    RelatedBatches = {}
    ManualRefs = {manual}
    OtherRefs <- MarkerRefs
    Failures = {"f1"}
    MaxNodes = 6
    MaxVersions = 4
    MaxEdits = 1
    MaxRuns = 2
    Mortal = FALSE
INVARIANT PenaltyOnce
