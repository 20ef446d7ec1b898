SPECIFICATION MCSpec
CHECK_DEADLOCK FALSE
CONSTANTS
    j1 = j1  j2 = j2  m0 = m0  m1 = m1  t1 = t1  t2 = t2  t3 = t3  lost = lost
    Jobs = {j1, j2}
    Lenient = {j2}
    Planned = 1
    Memos = {m0, m1}
    NoMemo = m0
    Grounded = {m1}
    Answers <- SomeAnswers
    Unplaced = {lost}
    Numbered = {t1}
    Width = 1
    MaxFaults = 1
    Messages = 4
    Stamp <- Stamps
    Synchronous = {2}
    MaxSlips = 1
INVARIANTS
    OwnMemo Accounted OneStory UsedInMemcell MemcellsApart
PROPERTIES
    StatusForward PipelinesEnd
