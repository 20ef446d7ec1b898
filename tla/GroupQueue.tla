----------------------------- MODULE GroupQueue ------------------------------
(***************************************************************************)
(* The message queue that server processes share in Redis: messages wait   *)
(* in a fixed number of partitions, and each consumer process owns some of *)
(* them.  Join, exit, keepalive, clean-up, rebalance, enqueue and get are  *)
(* Lua scripts that Redis runs whole; what a process does between two      *)
(* scripts it remembers in call[o].                                        *)
(*                                                                         *)
(* A key may expire, a process may die, and a call or its answer may be    *)
(* lost.  Scores are abstracted to whether a message is ripe, that is as   *)
(* old as score_threshold asks; the order of owners by activity is left    *)
(* open, since each process stamps with a clock of its own.                *)
(***************************************************************************)
EXTENDS Integers, FiniteSets

CONSTANTS Owners,      \* owner ids, one per server process
          Steady,      \* owners whose process starts its manager, stays up and polls
          Partitions,  \* partition_names
          Messages,    \* message contents
          PartitionOf, \* _hash_group_key_to_partition of the group of each message
          MaxTotal,    \* max_total_messages, and the most a delivery asks for instead
          RetryDepth,  \* _retry_depth of get_messages
          MaxFaults    \* bound on lost calls and answers, stalls, resets by hand
                       \* and messages sent again while they wait

ASSUME QueueAssumption ==
    /\ IsFiniteSet(Owners) /\ Steady \subseteq Owners
    /\ IsFiniteSet(Partitions) /\ Partitions # {}
    /\ IsFiniteSet(Messages) /\ PartitionOf \in [Messages -> Partitions]
    /\ MaxTotal \in Nat /\ RetryDepth \in Nat /\ MaxFaults \in Nat

VARIABLES members,  \* owner_activate_time_zset
          silent,   \* members without activity for inactive_threshold_seconds
          lists,    \* queue_list of each owner; {} when the key does not exist
          queued,   \* messages in the partition queues
          ripe,     \* those old enough to be taken
          counter,  \* total counter, 0 when the key does not exist
          manager,  \* state of each manager: started while its periodic tasks run
          call,     \* where get_messages of each process is
          faults,   \* so far, for the bound
          outlived  \* history: owners whose list outlived the members' key

shared == <<members, silent, lists, outlived>>
content == <<queued, ripe, counter>>
local == <<manager, call>>
vars == <<shared, content, local, faults>>

Idle == [pc |-> "idle", depth |-> 0]
Alive(o) == manager[o] # "dead"
In(p, S) == {m \in S : PartitionOf[m] = p}

Init ==
    /\ members = {} /\ silent = {} /\ outlived = {}
    /\ lists = [o \in Owners |-> {}]
    /\ queued = {} /\ ripe = {} /\ counter = 0
    /\ manager = [o \in Owners |-> "created"]
    /\ call = [o \in Owners |-> Idle]
    /\ faults = 0

-----------------------------------------------------------------------------
(* rebalance_partitions *)

SplitEvenly(M, f) ==
    /\ \A a, b \in M : a # b => f[a] \cap f[b] = {}
    /\ \A a, b \in M : Cardinality(f[a]) <= Cardinality(f[b]) + 1

Split(M, f) ==
    /\ UNION {f[o] : o \in M} = Partitions
    /\ \A a, b \in M : a # b => f[a] \cap f[b] = {}
    /\ \A a, b \in M : Cardinality(f[a]) <= Cardinality(f[b]) + 1

\* Every list of an owner in M is deleted and written anew; the others stay.
Rebalanced(M, L, f) == [o \in Owners |-> IF o \in M THEN f[o] ELSE L[o]]

\* The members become M, with L the lists before the partitions are dealt.
Deal(M, L) ==
    /\ members' = M
    /\ IF M = {} THEN lists' = L
       ELSE \E f \in [M -> SUBSET Partitions] : Split(M, f) /\ lists' = Rebalanced(M, L, f)
    /\ outlived' = {o \in outlived \ M : lists'[o] # {}}

KeepsList(gone) == lists
Without(gone) == [o \in Owners |-> IF o \in gone THEN {} ELSE lists[o]]

-----------------------------------------------------------------------------
(* Producers *)

Fault == faults < MaxFaults /\ faults' = faults + 1

\* ENQUEUE_SCRIPT, with the limit of the delivery; a message that is queued
\* already gets a new score.
Deliver(m, limit) ==
    /\ IF m \in queued THEN Fault ELSE UNCHANGED faults
    /\ IF counter >= limit THEN UNCHANGED content
       ELSE /\ queued' = queued \cup {m}
            /\ ripe' = ripe \ {m}
            /\ counter' = IF m \in queued THEN counter ELSE counter + 1
    /\ UNCHANGED <<shared, local>>

\* The message grows older than the score threshold.
Ripen(m) ==
    /\ m \in queued \ ripe
    /\ ripe' = ripe \cup {m}
    /\ UNCHANGED <<shared, queued, counter, local, faults>>

-----------------------------------------------------------------------------
(* get_messages *)

\* Where a call, or its repetition after a join, begins: a process stamped
\* less than 30 seconds ago skips the keepalive.
Entries(o, depth) ==
    {[pc |-> pc, depth |-> depth] : pc \in {"keepalive"} \cup (IF o \in silent THEN {} ELSE {"fetch"})}

EnterCall(o, depth) == \E c \in Entries(o, depth) : call' = [call EXCEPT ![o] = c]

GetMessages(o) ==
    /\ Alive(o) /\ call[o] = Idle
    /\ EnterCall(o, RetryDepth)
    /\ UNCHANGED <<shared, content, manager, faults>>

Goto(o, pc) == call' = [call EXCEPT ![o].pc = pc]
Return(o) == call' = [call EXCEPT ![o] = Idle]

\* A call that the network loses changes nothing and is logged.
KeepaliveLost(o) ==
    /\ call[o].pc = "keepalive" /\ Fault
    /\ Goto(o, "fetch")
    /\ UNCHANGED <<shared, content, manager>>

\* KEEPALIVE_CONSUMER_SCRIPT adds the owner whether or not it has a list, and
\* the call goes on whatever the answer.
Keepalive(o) ==
    /\ call[o].pc = "keepalive"
    /\ members' = members \cup {o} /\ silent' = silent \ {o}
    /\ Goto(o, "fetch")
    /\ UNCHANGED <<lists, outlived, content, manager, faults>>

HasList(o) == o \in members /\ lists[o] # {}

\* At most one ripe message of each partition of the owner.
Heads(o) ==
    {H \in SUBSET {m \in ripe : PartitionOf[m] \in lists[o]} :
        \A p \in lists[o] : Cardinality(In(p, H)) = IF In(p, ripe) = {} THEN 0 ELSE 1}

LeftPerPartition(n) == IF counter < Cardinality(Partitions) THEN 0 ELSE counter - Cardinality(Partitions)
Left(n) == IF counter < n THEN 0 ELSE counter - n
Popped(H) == queued \ H

Take(H) ==
    /\ queued' = Popped(H)
    /\ ripe' = ripe \ H
    /\ counter' = Left(Cardinality(H))

\* GET_MESSAGES_SCRIPT; what it removed is gone when its answer is lost.
Fetch(o) ==
    /\ call[o].pc = "fetch" /\ HasList(o)
    /\ \E H \in Heads(o) : Take(H)
    /\ UNCHANGED faults \/ Fault
    /\ Return(o)
    /\ UNCHANGED <<shared, manager>>

FetchLost(o) ==
    /\ call[o].pc = "fetch" /\ Fault
    /\ Return(o)
    /\ UNCHANGED <<shared, content, manager>>

Rejoin(o) == Goto(o, "join")

NoRetryLeft(o) == call[o].depth = 0

\* JOIN_REQUIRED; with no retry left get_messages raises RuntimeError.
FetchRefused(o) ==
    /\ call[o].pc = "fetch" /\ ~HasList(o)
    /\ IF NoRetryLeft(o) THEN Return(o) ELSE Rejoin(o)
    /\ UNCHANGED <<shared, content, manager, faults>>

Again(o) == call[o].depth - 1

\* JOIN_CONSUMER_SCRIPT, and the call from its start with one retry less,
\* whatever the answer.
Join(o) ==
    /\ call[o].pc = "join"
    /\ Deal(members \cup {o}, lists)
    /\ silent' = silent \ {o}
    /\ EnterCall(o, Again(o))
    /\ UNCHANGED <<content, manager, faults>>

JoinLost(o) ==
    /\ call[o].pc = "join" /\ Fault
    /\ EnterCall(o, Again(o))
    /\ UNCHANGED <<shared, content, manager>>

CallMoves(o) ==
    \/ KeepaliveLost(o) \/ Keepalive(o) \/ Fetch(o) \/ FetchLost(o) \/ FetchRefused(o)
    \/ Join(o) \/ JoinLost(o)

-----------------------------------------------------------------------------
(* Owners come and go *)

\* EXIT_CONSUMER_SCRIPT.
Exit(o) ==
    /\ Alive(o) /\ o \notin Steady /\ call[o] = Idle /\ o \in members
    /\ Deal(members \ {o}, Without({o}))
    /\ silent' = silent \ {o}
    /\ UNCHANGED <<content, manager, call, faults>>

NobodyInactive == {}
Inactive == silent

\* CLEANUP_INACTIVE_OWNERS_SCRIPT: the counter is counted anew each time.
CleanUp ==
    /\ IF Inactive = {} THEN UNCHANGED <<members, lists, outlived>>
       ELSE Deal(members \ Inactive, Without(Inactive))
    /\ silent' = silent \ Inactive
    /\ counter' = Cardinality(queued)

\* start runs a clean-up and then the periodic tasks.
StartManager(o) ==
    /\ manager[o] = "created"
    /\ CleanUp
    /\ manager' = [manager EXCEPT ![o] = "started"]
    /\ UNCHANGED <<queued, ripe, call, faults>>

\* Redis fails at the start: without its clean-up the manager starts all the
\* same, but what the fallback of the statistics leaves out breaks start off,
\* and a second start finds _running set and begins no periodic tasks.
StartBreaks(o) ==
    /\ manager[o] = "created" /\ Fault
    /\ CleanUp \/ UNCHANGED <<shared, counter>>
    /\ \/ manager' = [manager EXCEPT ![o] = "started"]
       \/ manager' = [manager EXCEPT ![o] = "stopped"] /\ o \notin Steady
    /\ UNCHANGED <<queued, ripe, call>>

\* _periodic_cleanup_worker.
PeriodicCleanUp(o) ==
    /\ manager[o] = "started"
    /\ CleanUp
    /\ UNCHANGED <<queued, ripe, local, faults>>

\* shutdown, hard or soft, stops the periodic tasks first; a soft one that
\* then finds messages is refused, but the tasks stay stopped.
ShutDown(o) ==
    /\ manager[o] \in {"created", "started"} /\ o \notin Steady
    /\ manager' = [manager EXCEPT ![o] = "stopped"]
    /\ UNCHANGED <<shared, content, call, faults>>

Die(o) ==
    /\ Alive(o) /\ o \notin Steady
    /\ manager' = [manager EXCEPT ![o] = "dead"]
    /\ Return(o)
    /\ UNCHANGED <<shared, content, faults>>

\* rebalance_partitions, called by hand.
Rebalance ==
    /\ members # {} /\ Fault
    /\ Deal(members, lists)
    /\ UNCHANGED <<silent, content, local>>

\* force_cleanup_and_reset, with and without purge_all.
ForceCleanUp ==
    /\ Fault
    /\ members' = {} /\ silent' = {}
    /\ lists' = Without(members)
    /\ outlived' = outlived \ members
    /\ \/ counter' = Cardinality(queued) /\ UNCHANGED <<queued, ripe>>
       \/ /\ queued' = {} /\ ripe' = {} /\ counter' = 0
    /\ UNCHANGED <<local>>

-----------------------------------------------------------------------------
(* Time *)

\* That a process is held up for inactive_threshold_seconds within a call, or
\* a steady one at all, counts as a fault.
FallSilent(o) ==
    /\ o \in members \ silent
    /\ IF call[o] = Idle /\ o \notin Steady THEN UNCHANGED faults ELSE Fault
    /\ silent' = silent \cup {o}
    /\ UNCHANGED <<members, lists, outlived, content, local>>

\* The members' key expires an hour after the last join or keepalive.  A get
\* renews the list of its owner but not this key, so lists may outlive it.
MembersExpire ==
    /\ members # {} /\ members \subseteq silent
    /\ members' = {} /\ silent' = {}
    /\ outlived' = {o \in Owners : lists[o] # {}}
    /\ UNCHANGED <<lists, content, local, faults>>

ListExpires(o) ==
    /\ lists[o] # {} /\ (o \in silent \/ o \notin members)
    /\ lists' = Without({o})
    /\ outlived' = outlived \ {o}
    /\ UNCHANGED <<members, silent, content, local, faults>>

\* A day after the last delivery to the partition.
QueueExpires(p) ==
    /\ In(p, queued) # {}
    /\ queued' = queued \ In(p, queued) /\ ripe' = ripe \ In(p, queued)
    /\ UNCHANGED <<shared, counter, local, faults>>

\* A day after the last delivery to any: no later than every queue, as long
\* as activity_expire_seconds is not below queue_expire_seconds.
CounterExpires ==
    /\ queued = {} /\ counter # 0
    /\ counter' = 0
    /\ UNCHANGED <<shared, queued, ripe, local, faults>>

Time ==
    \/ \E m \in Messages : Ripen(m)
    \/ \E o \in Owners : FallSilent(o) \/ ListExpires(o)
    \/ \E p \in Partitions : QueueExpires(p)
    \/ MembersExpire \/ CounterExpires

QueueNext ==
    \/ \E m \in Messages, limit \in 0..MaxTotal : Deliver(m, limit)
    \/ \E o \in Owners :
          \/ GetMessages(o) \/ CallMoves(o) \/ Exit(o)
          \/ StartManager(o) \/ StartBreaks(o) \/ PeriodicCleanUp(o) \/ ShutDown(o) \/ Die(o)
    \/ Rebalance \/ ForceCleanUp \/ Time

\* A call goes on while its process is up, a steady process polls and runs its
\* clean-up task; time passes for messages, and a member is stamped again or
\* falls silent.
QueueFairness ==
    /\ \A o \in Owners : WF_vars(CallMoves(o)) /\ WF_vars(FallSilent(o) \/ Keepalive(o) \/ Join(o))
    /\ \A o \in Steady : WF_vars(GetMessages(o)) /\ WF_vars(StartManager(o)) /\ WF_vars(PeriodicCleanUp(o))
    /\ \A m \in Messages : WF_vars(Ripen(m))

QueueSpec == Init /\ [][QueueNext]_vars /\ QueueFairness

-----------------------------------------------------------------------------
(* Properties *)

\* Types; what the sets of the model mean.
QueueTypeOK ==
    /\ members \subseteq Owners /\ silent \subseteq members /\ outlived \subseteq Owners
    /\ lists \in [Owners -> SUBSET Partitions]
    /\ queued \subseteq Messages /\ ripe \subseteq queued
    /\ counter \in Nat
    /\ manager \in [Owners -> {"created", "started", "stopped", "dead"}]
    /\ call \in [Owners -> [pc : {"idle", "keepalive", "fetch", "join"}, depth : 0..RetryDepth]]
    /\ faults \in 0..MaxFaults

\* A partition is on the list of one owner, through joins, exits, clean-ups,
\* deaths and keepalives of owners that were cleaned up, except for a list
\* that outlived the members' key and was not dealt anew since.
OneOwner ==
    \A a, b \in Owners : a # b /\ lists[a] \cap lists[b] # {} => {a, b} \cap outlived # {}

\* As long as every member has a list, and one that did not outlive the
\* members' key, no partition is without owner.
AllOwned ==
    members # {} /\ (\A o \in members : lists[o] # {}) /\ members \cap outlived = {} =>
        UNION {lists[o] : o \in members} = Partitions

\* The counter is never below the number of messages, however answers are
\* lost and queues expire, so the queue never holds more than its limit.
CounterCovers == Cardinality(queued) <= counter /\ counter <= MaxTotal

\* With one steady consumer every message leaves its queue, though its
\* partition belonged to a process that died or went silent, unless a list
\* outlived the members' key: no step deals those partitions again.
Served == \A m \in Messages : m \in queued ~> m \notin queued \/ outlived # {}
=============================================================================
