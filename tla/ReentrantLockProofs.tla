------------------------- MODULE ReentrantLockProofs -------------------------
(***************************************************************************)
(* Theorems about ReentrantLock for any tasks, attempts and bounds.        *)
(***************************************************************************)
EXTENDS ReentrantLock, TLAPS

\* The inductive invariant.  CountCovers alone is not kept: the deletion of
\* the key by an outermost release needs the count to tell how many blocks
\* are left, which LockTypeOK's link of owner and count gives.
LockInv == LockTypeOK /\ CountCovers

LEMMA LockInvInit == LockInit => LockInv
BY LockAssumption DEF LockInit, Free, LockInv, LockTypeOK, CountCovers, LockAssumption

\* What the two scripts leave in the hash, for an owner and for another.
LEMMA ScriptsTyped ==
    ASSUME LockTypeOK, NEW t \in Tasks
    PROVE  /\ Taken(t) \in [owner : Owners \cup {NoOwner}, count : Nat]
           /\ Taken(t).owner = NoOwner <=> Taken(t).count = 0
           /\ Released(t) \in [owner : Owners \cup {NoOwner}, count : Nat]
           /\ Released(t).owner = NoOwner <=> Released(t).count = 0
<1>1. lock.count \in Nat /\ Owner[t] \in Owners /\ NoOwner \notin Owners
    BY LockAssumption DEF LockTypeOK, LockAssumption
<1>2. /\ Taken(t) \in [owner : Owners \cup {NoOwner}, count : Nat]
      /\ Taken(t).owner = NoOwner <=> Taken(t).count = 0
    BY <1>1 DEF LockTypeOK, Taken
<1>3. /\ Released(t) \in [owner : Owners \cup {NoOwner}, count : Nat]
      /\ Released(t).owner = NoOwner <=> Released(t).count = 0
    BY <1>1 DEF LockTypeOK, Released, Free
<1> QED BY <1>2, <1>3

\* An attempt that changes the hash keeps it covering every block, whether
\* or not its answer arrives.
LEMMA TakenCovers ==
    ASSUME LockInv, OwnersDistinct, NEW t \in Tasks, lock' \in {lock, Taken(t)}, fresh' = fresh
    PROVE  CountCovers'
<1> SUFFICES ASSUME NEW u \in Tasks, fresh[u] > 0
             PROVE  lock'.owner = Owner[u] /\ lock'.count >= fresh[u]
    BY DEF CountCovers
<1>1. lock.owner = Owner[u] /\ lock.count >= fresh[u] /\ lock.count \in Nat /\ fresh[u] \in Nat
    BY DEF LockInv, LockTypeOK, CountCovers
<1>2. Owner[u] # NoOwner
    BY LockAssumption DEF LockAssumption
<1> QED BY <1>1, <1>2 DEF Taken, Granted

LEMMA LockInvNext == LockInv /\ OwnersDistinct /\ [LockNext]_lockVars => LockInv'
<1> SUFFICES ASSUME LockInv, OwnersDistinct, [LockNext]_lockVars PROVE LockInv'
    OBVIOUS
<1> USE DEF LockInv
<1>1. ASSUME NEW t \in Tasks, Acquire(t) PROVE LockInv'
    BY <1>1, LockAssumption DEF Acquire, LockTypeOK, CountCovers, LockAssumption
<1>2. ASSUME NEW t \in Tasks, AttemptGranted(t) PROVE LockInv'
  <2>1. LockTypeOK'
    BY <1>2, ScriptsTyped, LockAssumption DEF AttemptGranted, LockTypeOK, LockAssumption
  <2>2. ASSUME NEW u \in Tasks, fresh'[u] > 0
        PROVE  lock'.owner = Owner[u] /\ lock'.count >= fresh'[u]
    <3>1. lock' = [owner |-> Owner[t], count |-> lock.count + 1]
      BY <1>2 DEF AttemptGranted, Taken
    <3>2. lock.count \in Nat /\ fresh \in [Tasks -> Nat]
      BY DEF LockTypeOK
    <3>3. CASE u = t
      <4>1. fresh'[u] = fresh[u] + 1
        BY <1>2, <3>2, <3>3 DEF AttemptGranted
      <4>2. lock.count >= fresh[u]
        BY <3>2 DEF CountCovers
      <4> QED BY <3>1, <3>2, <3>3, <4>1, <4>2
    <3>4. CASE u # t
      <4>1. fresh'[u] = fresh[u]
        BY <1>2, <3>2, <3>4 DEF AttemptGranted
      <4>2. lock.owner = Owner[u] /\ Owner[u] # NoOwner
        BY <2>2, <4>1, LockAssumption DEF CountCovers, LockAssumption
      <4>3. Owner[u] = Owner[t]
        BY <1>2, <4>2 DEF AttemptGranted, Granted
      <4> QED BY <3>4, <4>3 DEF OwnersDistinct
    <3> QED BY <3>3, <3>4
  <2> QED BY <2>1, <2>2 DEF CountCovers
<1>3. ASSUME NEW t \in Tasks, AttemptFails(t) \/ AttemptRaises(t) PROVE LockInv'
  <2>1. lock' \in {lock, Taken(t)} /\ fresh' = fresh /\ depth' = depth
    BY <1>3 DEF AttemptFails, AttemptRaises
  <2>2. tries' \in [Tasks -> 0..Attempts]
    BY <1>3, LockAssumption DEF AttemptFails, AttemptRaises, TryAgain, LockTypeOK, LockAssumption
  <2>3. LockTypeOK'
    BY <2>1, <2>2, ScriptsTyped DEF LockTypeOK
  <2> QED BY <2>1, <2>3, TakenCovers
<1>4. ASSUME NEW t \in Tasks, EndBlock(t) PROVE LockInv'
  <2>1. LockTypeOK'
    BY <1>4, ScriptsTyped DEF EndBlock, LockTypeOK, Less
  <2>2. ASSUME NEW u \in Tasks, fresh'[u] > 0
        PROVE  lock'.owner = Owner[u] /\ lock'.count >= fresh'[u]
    <3>1. lock.count \in Nat /\ fresh[u] \in Nat /\ fresh[t] \in Nat
      BY DEF LockTypeOK
    <3>2. fresh[u] > 0 /\ fresh'[u] = IF u = t THEN fresh[u] - 1 ELSE fresh[u]
      BY <1>4, <2>2, <3>1 DEF EndBlock, Less, LockTypeOK
    <3>3. lock.owner = Owner[u] /\ lock.count >= fresh[u]
      BY <3>2 DEF CountCovers
    <3>4. CASE lock' = lock
      BY <3>1, <3>2, <3>3, <3>4
    <3>5. CASE lock' = Released(t)
      <4>1. CASE u = t
        BY <2>2, <3>1, <3>2, <3>3, <3>5, <4>1 DEF Released, LockTypeOK
      <4>2. CASE u # t
        <5>1. lock.owner # Owner[t]
          BY <3>3, <4>2 DEF OwnersDistinct
        <5> QED BY <3>2, <3>3, <3>5, <4>2, <5>1 DEF Released
      <4> QED BY <4>1, <4>2
    <3> QED BY <1>4, <3>4, <3>5 DEF EndBlock
  <2> QED BY <2>1, <2>2 DEF CountCovers
<1>5. ASSUME NEW t \in Tasks, TaskDies(t) PROVE LockInv'
    BY <1>5, LockAssumption DEF TaskDies, LockTypeOK, CountCovers, LockAssumption
<1>6. ASSUME Vanish PROVE LockInv'
    BY <1>6 DEF Vanish, Free, LockTypeOK, CountCovers
<1>7. CASE UNCHANGED lockVars
    BY <1>7 DEF lockVars, LockTypeOK, CountCovers
<1> QED BY <1>1, <1>2, <1>3, <1>4, <1>5, <1>6, <1>7 DEF LockNext, Attempt

\* While processes compute distinct ids, the count never falls below the
\* blocks its owner is in on this key, however many answers are lost and
\* however often the key expires (LUA_ACQUIRE_SCRIPT, LUA_RELEASE_SCRIPT).
THEOREM LockCountCovers ==
    ASSUME OwnersDistinct
    PROVE  LockSpec => []CountCovers
<1>1. LockInv /\ [LockNext]_lockVars => LockInv'
    BY LockInvNext
<1>2. LockInv => CountCovers
    BY DEF LockInv
<1> QED BY <1>1, <1>2, LockInvInit, PTL DEF LockSpec

-----------------------------------------------------------------------------
(* The lock implements LeaseLock. *)

Section == {t \in Tasks : fresh[t] > 0}

\* At most one task is in a block entered on the present key.
LEMMA SectionSingle ==
    ASSUME CountCovers, OwnersDistinct, NEW t \in Section, NEW u \in Section
    PROVE  t = u
BY DEF CountCovers, OwnersDistinct, Section

LEMMA LeaseStep ==
    ASSUME LockInv, OwnersDistinct, [LockNext]_lockVars
    PROVE  \/ Section' = Section
           \/ Section # {} /\ Section' = {}
           \/ \E t \in Tasks : Section = {} /\ Section' = {t}
<1> USE DEF LockInv
<1>0. fresh \in [Tasks -> Nat]
    BY DEF LockTypeOK
<1>1. ASSUME fresh' = fresh PROVE Section' = Section
    BY <1>1 DEF Section
<1>2. ASSUME NEW t \in Tasks, AttemptGranted(t)
      PROVE  \/ Section' = Section
             \/ Section = {} /\ Section' = {t}
  <2>1. Section' = Section \cup {t}
    BY <1>0, <1>2 DEF AttemptGranted, Section
  <2>2. ASSUME NEW u \in Section PROVE u = t
    <3>1. lock.owner = Owner[u] /\ Owner[u] # NoOwner
      BY LockAssumption DEF CountCovers, Section, LockAssumption
    <3>2. Owner[u] = Owner[t]
      BY <1>2, <3>1 DEF AttemptGranted, Granted
    <3> QED BY <3>2 DEF OwnersDistinct, Section
  <2> QED BY <2>1, <2>2
<1>3. ASSUME NEW t \in Tasks, EndBlock(t) \/ TaskDies(t)
      PROVE  \/ Section' = Section
             \/ Section # {} /\ Section' = {}
  <2>1. \A u \in Tasks : u # t => fresh'[u] = fresh[u]
    BY <1>0, <1>3 DEF EndBlock, TaskDies
  <2>2. fresh'[t] <= fresh[t]
    BY <1>0, <1>3 DEF EndBlock, TaskDies, Less
  <2>3. Section' \subseteq Section /\ Section \ {t} \subseteq Section'
    BY <1>0, <2>1, <2>2, <1>3 DEF Section, EndBlock, TaskDies, Less
  <2> QED BY <2>3, SectionSingle
<1>4. ASSUME Vanish PROVE Section' = {}
    BY <1>4 DEF Vanish, Section
<1>5. Section' = {} => Section' = Section \/ Section # {}
    OBVIOUS
<1> QED
    BY <1>1, <1>2, <1>3, <1>4, <1>5
    DEF LockNext, Attempt, Acquire, AttemptFails, AttemptRaises, lockVars

\* Every behaviour of the lock is one of LeaseLock: nobody enters while
\* another is in a block of the present key, and no release hands it over.
THEOREM LockKeepsLease ==
    ASSUME OwnersDistinct
    PROVE  LockSpec => LeaseKept
<1>1. LockInit => Lease!Init
    BY DEF LockInit, Lease!Init
<1>2. LockInv /\ [LockNext]_lockVars => [Lease!Next]_Section
  <2> SUFFICES ASSUME LockInv, [LockNext]_lockVars PROVE [Lease!Next]_Section
    OBVIOUS
  <2> QED BY LeaseStep DEF Lease!Next, Lease!Enter, Lease!LeaveOrLapse, Section
<1>3. LockInv /\ [LockNext]_lockVars => LockInv'
    BY LockInvNext
<1> QED BY <1>1, <1>2, <1>3, LockInvInit, PTL DEF LockSpec, LeaseKept, Lease!Spec, Section

-----------------------------------------------------------------------------
(* Without expiry the lease never lapses, and the lock is a mutex. *)

AllFresh == LockInv /\ depth = fresh

LEMMA AllFreshNext ==
    ASSUME ~Expires, OwnersDistinct, AllFresh, [LockNext]_lockVars
    PROVE  AllFresh'
<1>1. LockInv'
    BY LockInvNext DEF AllFresh
<1>2. depth' = fresh'
  <2>1. ASSUME NEW t \in Tasks, EndBlock(t) PROVE depth' = fresh'
    <3>1. depth[t] = fresh[t] /\ depth[t] \in Nat /\ depth[t] > 0
      BY <2>1 DEF EndBlock, AllFresh, LockInv, LockTypeOK
    <3>2. Less(fresh[t]) = depth[t] - 1
      BY <3>1 DEF Less
    <3>3. /\ depth' = [depth EXCEPT ![t] = depth[t] - 1]
          /\ fresh' = [fresh EXCEPT ![t] = Less(fresh[t])]
      BY <2>1 DEF EndBlock
    <3> QED BY <3>2, <3>3 DEF AllFresh
  <2>2. ASSUME NEW t \in Tasks, Acquire(t) \/ Attempt(t) \/ TaskDies(t) PROVE depth' = fresh'
    BY <2>2 DEF Acquire, Attempt, AttemptGranted, AttemptFails, AttemptRaises, TaskDies, AllFresh
  <2>3. CASE UNCHANGED lockVars
    BY <2>3 DEF lockVars, AllFresh
  <2> QED BY <2>1, <2>2, <2>3 DEF LockNext, Vanish
<1> QED BY <1>1, <1>2 DEF AllFresh

\* While no key expires and no two tasks share an id, two tasks are never
\* both in a block they acquired.
THEOREM LockExcludes ==
    ASSUME ~Expires, OwnersDistinct
    PROVE  LockSpec => []MutualExclusion
<1>1. LockInit => AllFresh
    BY LockInvInit DEF LockInit, AllFresh
<1>2. AllFresh /\ [LockNext]_lockVars => AllFresh'
    BY AllFreshNext
<1>3. AllFresh => MutualExclusion
    BY SectionSingle DEF AllFresh, LockInv, MutualExclusion, Section
<1> QED BY <1>1, <1>2, <1>3, PTL DEF LockSpec

=============================================================================
