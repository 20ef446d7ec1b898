SPECIFICATION MCSpec
CHECK_DEADLOCK FALSE
CONSTANTS
    a1 = a1  a2 = a2  a3 = a3  e3 = e3  twin = twin
    b1 = b1  b2 = b2  b3 = b3  s1 = s1  s2 = s2
    manual = manual  t1 = t1  t2 = t2  t3 = t3  t4 = t4
    Candidates = {a1, a2, a3, e3, twin}
    TextOf <- Texts
    BatchOf <- BatchesOf
    SourceOf <- SourcesOf
    Evidence = {e3, twin}
    Relations <- SomeRelations
    RelatedBatches = {b1}
    ManualRefs = {manual}
    OtherRefs <- MarkerRefs
    Failures = {"f1"}
    GraphNodes = 5
    MaxNodes = 6
    MaxVersions = 4
    MaxEdits = 1
    MaxRuns = 2
    Mortal = TRUE
INVARIANTS
    ConfirmedOnce OneActiveRow EdgesJoinActiveNodes RelationsDrawn
    MarkersOnce AttachedComplete
PROPERTIES
    ArchivedForGood AttachedOnce
