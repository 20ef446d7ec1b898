------------------------------ MODULE LeaseLock ------------------------------
(***************************************************************************)
(* What a lock with a time to live promises: one task at a time is in the  *)
(* section, nobody is handed the section while another is in it, and the   *)
(* lease of the one inside may lapse at any time.                          *)
(***************************************************************************)
CONSTANT Tasks
VARIABLE section \* the tasks inside under a lease that has not lapsed

Init == section = {}

Enter(t) == section = {} /\ section' = {t}
LeaveOrLapse == section # {} /\ section' = {}

Next == LeaveOrLapse \/ \E t \in Tasks : Enter(t)

Spec == Init /\ [][Next]_section
=============================================================================
