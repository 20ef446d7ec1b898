SPECIFICATION StatusSpec
CONSTANTS
    Calls = {"c1", "c2"}
    Background = {"c1"}
    InProcess = {"c2"}
    MaxLapses = 0
CHECK_DEADLOCK FALSE
INVARIANTS KeptUntilFinished
