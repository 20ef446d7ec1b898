---------------------------- MODULE ReentrantLock ----------------------------
(***************************************************************************)
(* The reentrant lock on one resource: a Redis hash {owner, count} with a  *)
(* time to live, taken and released by Lua scripts that Redis runs         *)
(* atomically, from tasks of any number of server processes.               *)
(*                                                                         *)
(* A task nests "async with" blocks on the resource.  depth[t] counts the  *)
(* blocks it is in with acquired = True; blocks end innermost first.  The  *)
(* network may lose a call before the script runs or its answer after.     *)
(* The time to live is abstracted: the key may vanish at any time.         *)
(***************************************************************************)
EXTENDS Integers

CONSTANTS Tasks,    \* tasks that use the lock, of all processes
          Owners,   \* owner ids, "task_<id(task)>"
          Owner,    \* the owner id each task computes
          NoOwner,  \* the key does not exist
          Attempts, \* retry_count: max(1, blocking_timeout / DEFAULT_RETRY_INTERVAL)
          MaxDepth, \* bound on nested blocks
          MaxCount, \* bound on the count, which lost answers drive up
          Expires   \* whether the key may expire or be deleted by force_unlock

ASSUME LockAssumption ==
    /\ Owner \in [Tasks -> Owners] /\ NoOwner \notin Owners
    /\ Attempts \in Nat \ {0} /\ MaxDepth \in Nat \ {0} /\ MaxCount \in Nat \ {0}
    /\ Expires \in BOOLEAN

\* True of the tasks of one process; two processes may compute the same id.
OwnersDistinct == \A t, u \in Tasks : Owner[t] = Owner[u] => t = u

VARIABLES lock,  \* the Redis hash
          depth, \* blocks each task is in, having acquired
          tries, \* attempts a task has left in _acquire_lock; 0 outside it
          fresh  \* history: blocks it is in, entered since the key last expired

lockVars == <<lock, depth, tries, fresh>>

Free == [owner |-> NoOwner, count |-> 0]

LockInit ==
    /\ lock = Free
    /\ depth = [t \in Tasks |-> 0]
    /\ tries = [t \in Tasks |-> 0]
    /\ fresh = [t \in Tasks |-> 0]

-----------------------------------------------------------------------------
(* The scripts *)

GrantedToAnyone(t) == TRUE

\* LUA_ACQUIRE_SCRIPT: free, or held by the same owner.
Granted(t) == lock.owner \in {NoOwner, Owner[t]}

Taken(t) == IF Granted(t) THEN [owner |-> Owner[t], count |-> lock.count + 1] ELSE lock

ReleasedAtOnce(t) == IF lock.owner = Owner[t] THEN Free ELSE lock

\* LUA_RELEASE_SCRIPT: only the owner counts down, and the last one deletes.
Released(t) ==
    IF lock.owner # Owner[t] THEN lock
    ELSE IF lock.count <= 1 THEN Free
    ELSE [lock EXCEPT !.count = @ - 1]

-----------------------------------------------------------------------------
(* Tasks *)

\* acquire, up to its first attempt.
Acquire(t) ==
    /\ tries[t] = 0 /\ depth[t] < MaxDepth
    /\ tries' = [tries EXCEPT ![t] = Attempts]
    /\ UNCHANGED <<lock, depth, fresh>>

\* An attempt that grants: the block begins with acquired = True.
AttemptGranted(t) ==
    /\ tries[t] > 0
    /\ Granted(t) /\ lock.count < MaxCount
    /\ lock' = Taken(t)
    /\ tries' = [tries EXCEPT ![t] = 0]
    /\ depth' = [depth EXCEPT ![t] = @ + 1]
    /\ fresh' = [fresh EXCEPT ![t] = @ + 1]

SameAgain(t) == tries[t]
TryAgain(t) == tries[t] - 1

\* An attempt refused, or whose call or answer the network lost: the loop
\* sleeps and tries again, and returns False after the last attempt.
AttemptFails(t) ==
    /\ tries[t] > 0
    /\ \/ UNCHANGED lock
       \/ lock.count < MaxCount /\ lock' = Taken(t)
    /\ tries' = [tries EXCEPT ![t] = TryAgain(t)]
    /\ UNCHANGED <<depth, fresh>>

\* The same with an error the loop does not catch, or a cancellation: the
\* exception leaves acquire with acquired = False.
AttemptRaises(t) ==
    /\ tries[t] > 0
    /\ \/ UNCHANGED lock
       \/ lock.count < MaxCount /\ lock' = Taken(t)
    /\ tries' = [tries EXCEPT ![t] = 0]
    /\ UNCHANGED <<depth, fresh>>

Less(n) == IF n = 0 THEN 0 ELSE n - 1

\* The innermost block ends and its finally releases once.  A lost call is
\* logged and forgotten; a lost answer changes nothing.
EndBlock(t) ==
    /\ tries[t] = 0 /\ depth[t] > 0
    /\ depth' = [depth EXCEPT ![t] = @ - 1]
    /\ lock' \in {lock, Released(t)}
    /\ fresh' = [fresh EXCEPT ![t] = Less(@)]
    /\ UNCHANGED tries

\* The task's process dies; a later task may get the same id.
TaskDies(t) ==
    /\ depth[t] > 0 \/ tries[t] > 0
    /\ depth' = [depth EXCEPT ![t] = 0]
    /\ tries' = [tries EXCEPT ![t] = 0]
    /\ fresh' = [fresh EXCEPT ![t] = 0]
    /\ UNCHANGED lock

\* The time to live runs out, or an operator calls force_unlock.
Vanish ==
    /\ Expires /\ lock # Free
    /\ lock' = Free
    /\ fresh' = [t \in Tasks |-> 0]
    /\ UNCHANGED <<depth, tries>>

Attempt(t) == AttemptGranted(t) \/ AttemptFails(t) \/ AttemptRaises(t)

LockNext ==
    \/ \E t \in Tasks : Acquire(t) \/ Attempt(t) \/ EndBlock(t) \/ TaskDies(t)
    \/ Vanish

\* Every attempt ends: the call answers, fails or times out, and the sleep
\* between attempts is bounded.
LockFairness == \A t \in Tasks : WF_lockVars(Attempt(t))

LockSpec == LockInit /\ [][LockNext]_lockVars /\ LockFairness

-----------------------------------------------------------------------------
(* Properties *)

\* The hash holds an owner exactly while it holds a positive count.
LockTypeOK ==
    /\ lock \in [owner : Owners \cup {NoOwner}, count : Nat]
    /\ lock.owner = NoOwner <=> lock.count = 0
    /\ depth \in [Tasks -> Nat]
    /\ tries \in [Tasks -> 0..Attempts]
    /\ fresh \in [Tasks -> Nat]

\* Whatever answers were lost, the count covers every block its owner entered
\* on this key, so no inner release frees the lock under an outer block.
CountCovers ==
    \A t \in Tasks : fresh[t] > 0 => lock.owner = Owner[t] /\ lock.count >= fresh[t]

\* While no key expires and processes do not share ids, two tasks are never
\* both in a block they acquired.
MutualExclusion == \A t, u \in Tasks : depth[t] > 0 /\ depth[u] > 0 => t = u

\* _acquire_lock ends, granted or not.
AcquireEnds == \A t \in Tasks : tries[t] > 0 ~> tries[t] = 0

\* A lock with a time to live: counting only blocks entered on the present
\* key, the lock behaves as LeaseLock.
Lease == INSTANCE LeaseLock WITH section <- {t \in Tasks : fresh[t] > 0}
LeaseKept == Lease!Spec
=============================================================================
