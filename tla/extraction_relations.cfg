SPECIFICATION ExtractSpec
CONSTANTS
    j1 = j1  m0 = m0  m1 = m1  t1 = t1  t2 = t2  t3 = t3  lost = lost  j2 = j2
    Jobs = {j1}
    Lenient = {}
    Planned = 1
    Memos = {m0, m1}
    NoMemo = m0
    Grounded = {m1}
    Answers <- OtherClaims
    Unplaced = {lost}
    Numbered = {}
    Width = 2
    MaxFaults = 0
CHECK_DEADLOCK FALSE
INVARIANTS RelationsOwnChunk
