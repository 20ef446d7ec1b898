-------------------------- MODULE GroupQueueProofs ---------------------------
(* Proofs about GroupQueue, for any finite sets of processes, partitions and *)
(* messages and any number of faults.                                        *)
EXTENDS GroupQueue, FiniteSetTheorems, TLAPS

-----------------------------------------------------------------------------
(* Types *)

LEMMA DealTyped ==
    ASSUME QueueTypeOK, NEW M \in SUBSET Owners, NEW L \in [Owners -> SUBSET Partitions], Deal(M, L)
    PROVE  members' = M /\ lists' \in [Owners -> SUBSET Partitions] /\ outlived' \subseteq Owners
  <1>1. lists' \in [Owners -> SUBSET Partitions]
    <2>1. CASE M = {}
      BY <2>1 DEF Deal
    <2>2. CASE M # {}
      <3>1. PICK f \in [M -> SUBSET Partitions] : lists' = Rebalanced(M, L, f)
        BY <2>2 DEF Deal
      <3> QED BY <3>1 DEF Rebalanced
    <2> QED BY <2>1, <2>2
  <1> QED BY <1>1 DEF Deal, QueueTypeOK

LEMMA WithoutTyped ==
    ASSUME QueueTypeOK, NEW gone PROVE Without(gone) \in [Owners -> SUBSET Partitions]
  BY DEF QueueTypeOK, Without

LEMMA QueueInit == Init => QueueTypeOK
  BY QueueAssumption DEF Init, QueueTypeOK, Idle

\* What is queued is finite, and so counted by a natural number.
LEMMA QueuedCounted ==
    ASSUME QueueTypeOK
    PROVE  /\ IsFiniteSet(queued) /\ Cardinality(queued) \in Nat
           /\ \A H \in SUBSET queued : IsFiniteSet(H) /\ Cardinality(H) \in Nat
  <1>1. IsFiniteSet(queued) /\ \A H \in SUBSET queued : IsFiniteSet(H)
    BY QueueAssumption, FS_Subset DEF QueueTypeOK
  <1> QED BY <1>1, FS_CardinalityType

LEMMA EntryTyped ==
    ASSUME QueueTypeOK, NEW o \in Owners, NEW depth \in 0..RetryDepth, EnterCall(o, depth)
    PROVE  call' \in [Owners -> [pc : {"idle", "keepalive", "fetch", "join"}, depth : 0..RetryDepth]]
  BY DEF QueueTypeOK, EnterCall, Entries

LEMMA CleanUpTyped ==
    ASSUME QueueTypeOK, CleanUp
    PROVE  /\ members' \subseteq Owners /\ silent' \subseteq members' /\ outlived' \subseteq Owners
           /\ lists' \in [Owners -> SUBSET Partitions] /\ counter' \in Nat
  <1>1. CASE Inactive = {}
    BY <1>1, QueuedCounted DEF CleanUp, QueueTypeOK, Inactive
  <1>2. CASE Inactive # {}
    <2>1. members \ silent \in SUBSET Owners
      BY DEF QueueTypeOK
    <2>2. Deal(members \ silent, Without(silent)) /\ silent' = {} /\ counter' = Cardinality(queued)
      BY <1>2 DEF CleanUp, Inactive
    <2> QED BY <2>1, <2>2, DealTyped, WithoutTyped, QueuedCounted
  <1> QED BY <1>1, <1>2

\* A process that is to join has a retry left for the call that follows.
RetriesLeft == \A o \in Owners : call[o].pc = "join" => call[o].depth > 0

QInv == QueueTypeOK /\ RetriesLeft

CallTyped ==
    /\ call \in [Owners -> [pc : {"idle", "keepalive", "fetch", "join"}, depth : 0..RetryDepth]]
    /\ RetriesLeft

SharedTyped ==
    /\ members \subseteq Owners /\ silent \subseteq members /\ outlived \subseteq Owners
    /\ lists \in [Owners -> SUBSET Partitions]

ContentTyped == queued \subseteq Messages /\ ripe \subseteq queued /\ counter \in Nat

RestTyped ==
    /\ manager \in [Owners -> {"created", "started", "stopped", "dead"}]
    /\ faults \in 0..MaxFaults

LEMMA QInvParts == QInv <=> CallTyped /\ SharedTyped /\ ContentTyped /\ RestTyped
  BY DEF QInv, QueueTypeOK, CallTyped, SharedTyped, ContentTyped, RestTyped

LEMMA FaultTyped == ASSUME QInv, Fault \/ UNCHANGED faults PROVE faults' \in 0..MaxFaults
  BY QueueAssumption DEF QInv, QueueTypeOK, Fault

\* The steps that end a call, send it elsewhere or leave all calls alone.
LEMMA CallKept ==
    ASSUME QInv, NEW o \in Owners,
           \/ UNCHANGED call \/ Return(o) \/ Goto(o, "fetch")
           \/ Goto(o, "join") /\ call[o].depth # 0
    PROVE  CallTyped'
  BY QueueAssumption DEF QInv, QueueTypeOK, CallTyped, RetriesLeft, Return, Goto, Idle

LEMMA CallEntered ==
    ASSUME QInv, NEW o \in Owners, NEW depth \in 0..RetryDepth, EnterCall(o, depth)
    PROVE  CallTyped'
  BY DEF QInv, QueueTypeOK, CallTyped, RetriesLeft, EnterCall, Entries

LEMMA TypeStep == QInv /\ [QueueNext]_vars => QInv'
  <1> SUFFICES ASSUME QInv, [QueueNext]_vars
               PROVE  CallTyped' /\ SharedTyped' /\ ContentTyped' /\ RestTyped'
    BY QInvParts DEF QInv, QueueTypeOK, CallTyped, SharedTyped, ContentTyped, RestTyped, RetriesLeft
  <1>0. QueueTypeOK /\ CallTyped /\ SharedTyped /\ ContentTyped /\ RestTyped
    BY QInvParts DEF QInv
  <1> USE DEF shared, content, local
  <1>1. ASSUME NEW m \in Messages, NEW limit \in 0..MaxTotal, Deliver(m, limit)
        PROVE  CallTyped' /\ SharedTyped' /\ ContentTyped' /\ RestTyped'
    <2>1. faults' \in 0..MaxFaults
      BY <1>1, FaultTyped DEF Deliver
    <2>2. ContentTyped'
      BY <1>0, <1>1 DEF Deliver, ContentTyped
    <2> QED BY <1>0, <1>1, <2>1, <2>2 DEF Deliver, CallTyped, RetriesLeft, SharedTyped, RestTyped
  <1>2. ASSUME NEW m \in Messages, Ripen(m)
        PROVE  CallTyped' /\ SharedTyped' /\ ContentTyped' /\ RestTyped'
    BY <1>0, <1>2 DEF Ripen, CallTyped, RetriesLeft, SharedTyped, ContentTyped, RestTyped
  <1>3. ASSUME NEW o \in Owners, GetMessages(o)
        PROVE  CallTyped' /\ SharedTyped' /\ ContentTyped' /\ RestTyped'
    <2>1. CallTyped'
      BY <1>3, CallEntered, QueueAssumption DEF GetMessages
    <2> QED BY <1>0, <1>3, <2>1 DEF GetMessages, SharedTyped, ContentTyped, RestTyped
  <1>4. ASSUME NEW o \in Owners, KeepaliveLost(o) \/ FetchLost(o)
        PROVE  CallTyped' /\ SharedTyped' /\ ContentTyped' /\ RestTyped'
    <2>1. CallTyped' /\ faults' \in 0..MaxFaults
      BY <1>4, CallKept, FaultTyped DEF KeepaliveLost, FetchLost
    <2> QED BY <1>0, <1>4, <2>1 DEF KeepaliveLost, FetchLost, SharedTyped, ContentTyped, RestTyped
  <1>5. ASSUME NEW o \in Owners, Keepalive(o)
        PROVE  CallTyped' /\ SharedTyped' /\ ContentTyped' /\ RestTyped'
    <2>1. CallTyped'
      BY <1>5, CallKept DEF Keepalive
    <2> QED BY <1>0, <1>5, <2>1 DEF Keepalive, SharedTyped, ContentTyped, RestTyped
  <1>6. ASSUME NEW o \in Owners, Fetch(o)
        PROVE  CallTyped' /\ SharedTyped' /\ ContentTyped' /\ RestTyped'
    <2>1. CallTyped' /\ faults' \in 0..MaxFaults
      BY <1>6, CallKept, FaultTyped DEF Fetch
    <2>2. PICK H \in Heads(o) : Take(H)
      BY <1>6 DEF Fetch
    <2>3. H \in SUBSET queued
      BY <1>0, <2>2 DEF Heads, ContentTyped
    <2>4. Cardinality(H) \in Nat
      BY <1>0, <2>3, QueuedCounted
    <2>5. ContentTyped'
      BY <1>0, <2>2, <2>4 DEF Take, Left, Popped, ContentTyped
    <2> QED BY <1>0, <1>6, <2>1, <2>5 DEF Fetch, SharedTyped, RestTyped
  <1>7. ASSUME NEW o \in Owners, FetchRefused(o)
        PROVE  CallTyped' /\ SharedTyped' /\ ContentTyped' /\ RestTyped'
    <2>1. CallTyped'
      BY <1>7, CallKept DEF FetchRefused, NoRetryLeft, Rejoin
    <2> QED BY <1>0, <1>7, <2>1 DEF FetchRefused, SharedTyped, ContentTyped, RestTyped
  <1>8. ASSUME NEW o \in Owners, Join(o) \/ JoinLost(o)
        PROVE  CallTyped' /\ SharedTyped' /\ ContentTyped' /\ RestTyped'
    <2>1. Again(o) \in 0..RetryDepth
      <3>1. call[o].pc = "join" /\ call[o].depth \in 0..RetryDepth
        BY <1>0, <1>8 DEF Join, JoinLost, CallTyped
      <3>2. call[o].depth > 0
        BY <1>0, <3>1 DEF CallTyped, RetriesLeft
      <3> QED BY <3>1, <3>2, QueueAssumption DEF Again
    <2>2. CallTyped'
      BY <1>8, <2>1, CallEntered DEF Join, JoinLost
    <2>3. faults' \in 0..MaxFaults
      BY <1>8, FaultTyped DEF Join, JoinLost
    <2>4. SharedTyped'
      <3>1. CASE Join(o)
        <4>1. members \cup {o} \in SUBSET Owners /\ lists \in [Owners -> SUBSET Partitions]
          BY <1>0 DEF SharedTyped
        <4>2. Deal(members \cup {o}, lists) /\ silent' = silent \ {o}
          BY <3>1 DEF Join
        <4> QED BY <1>0, <4>1, <4>2, DealTyped DEF SharedTyped
      <3>2. CASE JoinLost(o)
        BY <1>0, <3>2 DEF JoinLost, SharedTyped
      <3> QED BY <1>8, <3>1, <3>2
    <2> QED BY <1>0, <1>8, <2>2, <2>3, <2>4 DEF Join, JoinLost, ContentTyped, RestTyped
  <1>9. ASSUME NEW o \in Owners, Exit(o)
        PROVE  CallTyped' /\ SharedTyped' /\ ContentTyped' /\ RestTyped'
    <2>1. members \ {o} \in SUBSET Owners
      BY <1>0 DEF SharedTyped
    <2>2. Deal(members \ {o}, Without({o})) /\ silent' = silent \ {o}
      BY <1>9 DEF Exit
    <2>3. SharedTyped'
      BY <1>0, <2>1, <2>2, DealTyped, WithoutTyped DEF SharedTyped
    <2> QED BY <1>0, <1>9, <2>3 DEF Exit, CallTyped, RetriesLeft, ContentTyped, RestTyped
  <1>10. ASSUME NEW o \in Owners, StartManager(o) \/ PeriodicCleanUp(o)
         PROVE  CallTyped' /\ SharedTyped' /\ ContentTyped' /\ RestTyped'
    <2>1. CleanUp
      BY <1>10 DEF StartManager, PeriodicCleanUp
    <2>2. SharedTyped' /\ counter' \in Nat
      BY <1>0, <2>1, CleanUpTyped DEF SharedTyped
    <2> QED BY <1>0, <1>10, <2>2 DEF StartManager, PeriodicCleanUp, CallTyped, RetriesLeft, ContentTyped, RestTyped
  <1>10a. ASSUME NEW o \in Owners, StartBreaks(o)
          PROVE  CallTyped' /\ SharedTyped' /\ ContentTyped' /\ RestTyped'
    <2>1. SharedTyped' /\ counter' \in Nat
      <3>1. CASE CleanUp
        BY <1>0, <3>1, CleanUpTyped DEF SharedTyped
      <3>2. CASE UNCHANGED <<shared, counter>>
        BY <1>0, <3>2 DEF SharedTyped, ContentTyped
      <3> QED BY <1>10a, <3>1, <3>2 DEF StartBreaks
    <2>2. faults' \in 0..MaxFaults
      BY <1>10a, FaultTyped DEF StartBreaks
    <2> QED BY <1>0, <1>10a, <2>1, <2>2 DEF StartBreaks, CallTyped, RetriesLeft, ContentTyped, RestTyped
  <1>11. ASSUME NEW o \in Owners, ShutDown(o) \/ Die(o)
         PROVE  CallTyped' /\ SharedTyped' /\ ContentTyped' /\ RestTyped'
    <2>1. CallTyped'
      BY <1>11, CallKept DEF ShutDown, Die
    <2> QED BY <1>0, <1>11, <2>1 DEF ShutDown, Die, SharedTyped, ContentTyped, RestTyped
  <1>12. ASSUME Rebalance
         PROVE  CallTyped' /\ SharedTyped' /\ ContentTyped' /\ RestTyped'
    <2>1. members \in SUBSET Owners /\ lists \in [Owners -> SUBSET Partitions]
      BY <1>0 DEF SharedTyped
    <2>2. SharedTyped'
      BY <1>0, <1>12, <2>1, DealTyped DEF Rebalance, SharedTyped
    <2>3. faults' \in 0..MaxFaults
      BY <1>12, FaultTyped DEF Rebalance
    <2> QED BY <1>0, <1>12, <2>2, <2>3 DEF Rebalance, CallTyped, RetriesLeft, ContentTyped, RestTyped
  <1>13. ASSUME ForceCleanUp
         PROVE  CallTyped' /\ SharedTyped' /\ ContentTyped' /\ RestTyped'
    <2>1. faults' \in 0..MaxFaults
      BY <1>13, FaultTyped DEF ForceCleanUp
    <2>2. ContentTyped'
      BY <1>0, <1>13, QueuedCounted DEF ForceCleanUp, ContentTyped
    <2>3. SharedTyped'
      BY <1>0, <1>13, WithoutTyped DEF ForceCleanUp, SharedTyped
    <2> QED BY <1>0, <1>13, <2>1, <2>2, <2>3 DEF ForceCleanUp, CallTyped, RetriesLeft, RestTyped
  <1>14. ASSUME NEW o \in Owners, FallSilent(o) \/ ListExpires(o)
         PROVE  CallTyped' /\ SharedTyped' /\ ContentTyped' /\ RestTyped'
    <2>1. faults' \in 0..MaxFaults
      BY <1>14, FaultTyped DEF FallSilent, ListExpires
    <2>2. SharedTyped'
      BY <1>0, <1>14, WithoutTyped DEF FallSilent, ListExpires, SharedTyped
    <2> QED BY <1>0, <1>14, <2>1, <2>2 DEF FallSilent, ListExpires, CallTyped, RetriesLeft, ContentTyped, RestTyped
  <1>15. ASSUME NEW p \in Partitions, QueueExpires(p)
         PROVE  CallTyped' /\ SharedTyped' /\ ContentTyped' /\ RestTyped'
    BY <1>0, <1>15 DEF QueueExpires, In, CallTyped, RetriesLeft, SharedTyped, ContentTyped, RestTyped
  <1>16. ASSUME MembersExpire \/ CounterExpires
         PROVE  CallTyped' /\ SharedTyped' /\ ContentTyped' /\ RestTyped'
    BY <1>0, <1>16 DEF MembersExpire, CounterExpires, CallTyped, RetriesLeft, SharedTyped, ContentTyped, RestTyped
  <1>17. CASE UNCHANGED vars
    BY <1>0, <1>17 DEF vars, CallTyped, RetriesLeft, SharedTyped, ContentTyped, RestTyped
  <1> QED
    BY <1>1, <1>2, <1>3, <1>4, <1>5, <1>6, <1>7, <1>8, <1>9, <1>10, <1>10a, <1>11, <1>12, <1>13, <1>14, <1>15, <1>16, <1>17
       DEF QueueNext, CallMoves, Time

LEMMA QInvAlways == QueueSpec => []QInv
  <1>1. Init => QInv
    BY QueueInit DEF Init, QInv, RetriesLeft, Idle
  <1> QED BY <1>1, TypeStep, PTL DEF QueueSpec

\* The variables keep their types: the sets that model keys of Redis nest as
\* they should, and a call is never repeated more often than it may be.
THEOREM QueueTyped == QueueSpec => []QueueTypeOK
  BY QInvAlways, PTL DEF QInv

-----------------------------------------------------------------------------
(* One owner for each partition *)

\* A list of a process that is not among the owners outlived their key.
StraysOutlived == \A o \in Owners : lists[o] # {} => o \in members \cup outlived

\* After a deal the lists of the members are disjoint, and what other lists
\* there are outlived the key.
LEMMA DealParts ==
    ASSUME QInv, StraysOutlived, NEW M \in SUBSET Owners, NEW gone,
           members \subseteq M \cup gone, Deal(M, Without(gone))
    PROVE  StraysOutlived' /\ OneOwner'
  <1>0. lists \in [Owners -> SUBSET Partitions] /\ members' = M
    BY DEF QInv, QueueTypeOK, Deal
  <1>1. \A o \in Owners \ M : lists'[o] = Without(gone)[o]
    <2>1. CASE M = {}
      BY <2>1 DEF Deal
    <2>2. CASE M # {}
      <3>1. PICK f \in [M -> SUBSET Partitions] : lists' = Rebalanced(M, Without(gone), f)
        BY <2>2 DEF Deal
      <3> QED BY <3>1 DEF Rebalanced
    <2> QED BY <2>1, <2>2
  <1>2. \A o \in Owners \ M : lists'[o] # {} => o \in outlived'
    BY <1>0, <1>1 DEF StraysOutlived, Without, Deal
  <1>3. \A a, b \in M : a # b => lists'[a] \cap lists'[b] = {}
    <2>1. CASE M = {}
      BY <2>1
    <2>2. CASE M # {}
      <3>1. PICK f \in [M -> SUBSET Partitions] :
                Split(M, f) /\ lists' = Rebalanced(M, Without(gone), f)
        BY <2>2 DEF Deal
      <3> QED BY <3>1 DEF Rebalanced, Split
    <2> QED BY <2>1, <2>2
  <1>4. StraysOutlived'
    BY <1>0, <1>2 DEF StraysOutlived
  <1>5. ASSUME NEW a \in Owners, NEW b \in Owners, a # b, lists'[a] \cap lists'[b] # {}
        PROVE  {a, b} \cap outlived' # {}
    <2>1. a \notin M \/ b \notin M
      BY <1>3, <1>5
    <2>2. lists'[a] # {} /\ lists'[b] # {}
      BY <1>5
    <2> QED BY <1>2, <2>1, <2>2
  <1> QED BY <1>4, <1>5 DEF OneOwner

LEMMA WithoutNobody == ASSUME QInv PROVE Without({}) = lists
  BY DEF QInv, QueueTypeOK, Without

OwnersInv == QInv /\ StraysOutlived /\ OneOwner

LEMMA OwnersStep == OwnersInv /\ [QueueNext]_vars => StraysOutlived' /\ OneOwner'
  <1> SUFFICES ASSUME OwnersInv, [QueueNext]_vars PROVE StraysOutlived' /\ OneOwner'
    OBVIOUS
  <1>0. QInv /\ StraysOutlived /\ OneOwner /\ members \subseteq Owners /\ silent \subseteq members
        /\ lists \in [Owners -> SUBSET Partitions]
    BY DEF OwnersInv, QInv, QueueTypeOK
  <1>1. CASE UNCHANGED <<lists, outlived>> /\ members \subseteq members'
    BY <1>0, <1>1 DEF StraysOutlived, OneOwner
  <1>2. ASSUME NEW o \in Owners, Join(o) PROVE StraysOutlived' /\ OneOwner'
    <2>1. Deal(members \cup {o}, Without({}))
      BY <1>0, <1>2, WithoutNobody DEF Join
    <2> QED BY <1>0, <2>1, DealParts
  <1>3. ASSUME NEW o \in Owners, Exit(o) PROVE StraysOutlived' /\ OneOwner'
    <2>1. Deal(members \ {o}, Without({o}))
      BY <1>3 DEF Exit
    <2> QED BY <1>0, <2>1, DealParts
  <1>4. ASSUME CleanUp PROVE StraysOutlived' /\ OneOwner'
    <2>1. CASE Inactive = {}
      BY <1>0, <1>1, <1>4, <2>1 DEF CleanUp
    <2>2. CASE Inactive # {}
      <3>1. Deal(members \ Inactive, Without(Inactive))
        BY <1>4, <2>2 DEF CleanUp
      <3> QED BY <1>0, <3>1, DealParts
    <2> QED BY <2>1, <2>2
  <1>5. CASE Rebalance
    <2>1. Deal(members, Without({}))
      BY <1>0, <1>5, WithoutNobody DEF Rebalance
    <2> QED BY <1>0, <2>1, DealParts
  <1>6. CASE ForceCleanUp
    BY <1>0, <1>6 DEF ForceCleanUp, Without, StraysOutlived, OneOwner
  <1>7. CASE MembersExpire
    BY <1>0, <1>7 DEF MembersExpire, StraysOutlived, OneOwner
  <1>8. ASSUME NEW o \in Owners, ListExpires(o) PROVE StraysOutlived' /\ OneOwner'
    BY <1>0, <1>8 DEF ListExpires, Without, StraysOutlived, OneOwner
  <1>9. CASE \/ \E m \in Messages : Ripen(m) \/ \E limit \in 0..MaxTotal : Deliver(m, limit)
             \/ \E o \in Owners : \/ GetMessages(o) \/ KeepaliveLost(o) \/ Keepalive(o) \/ Fetch(o)
                                  \/ FetchLost(o) \/ FetchRefused(o) \/ JoinLost(o)
                                  \/ ShutDown(o) \/ Die(o) \/ FallSilent(o)
             \/ \E p \in Partitions : QueueExpires(p)
             \/ CounterExpires
             \/ UNCHANGED vars
    <2>1. UNCHANGED <<lists, outlived>> /\ members \subseteq members'
      BY <1>9 DEF Deliver, Ripen, GetMessages, KeepaliveLost, Keepalive, Fetch, FetchLost, FetchRefused,
                  JoinLost, ShutDown, Die, FallSilent, QueueExpires, CounterExpires, vars, shared
    <2> QED BY <1>1, <2>1
  <1>10. ASSUME NEW o \in Owners, StartBreaks(o) PROVE StraysOutlived' /\ OneOwner'
    BY <1>1, <1>4, <1>10 DEF StartBreaks, shared
  <1> QED
    BY <1>2, <1>3, <1>4, <1>5, <1>6, <1>7, <1>8, <1>9, <1>10
       DEF QueueNext, CallMoves, Time, StartManager, PeriodicCleanUp

\* No partition is on the lists of two processes: what makes it hold is that
\* only a list that outlived the members' key is left out of a deal.
THEOREM PartitionHasOneOwner == QueueSpec => []OneOwner
  <1>1. Init => StraysOutlived /\ OneOwner
    BY DEF Init, StraysOutlived, OneOwner
  <1>2. (QInv /\ StraysOutlived /\ OneOwner) /\ [QueueNext]_vars => StraysOutlived' /\ OneOwner'
    BY OwnersStep DEF OwnersInv
  <1> QED BY <1>1, <1>2, QInvAlways, PTL DEF QueueSpec

-----------------------------------------------------------------------------
(* No partition without owner *)

\* A deal gives the partitions to the members, all of them.
LEMMA DealCovers ==
    ASSUME NEW M \in SUBSET Owners, NEW L, Deal(M, L)
    PROVE  AllOwned'
  <1>1. SUFFICES ASSUME M # {} PROVE UNION {lists'[o] : o \in M} = Partitions
    BY DEF Deal, AllOwned
  <1>2. PICK f \in [M -> SUBSET Partitions] : Split(M, f) /\ lists' = Rebalanced(M, L, f)
    BY <1>1 DEF Deal
  <1>3. \A o \in M : lists'[o] = f[o]
    BY <1>2 DEF Rebalanced
  <1>4. {lists'[o] : o \in M} = {f[o] : o \in M}
    BY <1>3
  <1> QED BY <1>2, <1>4 DEF Split

\* Without a deal an owner only comes to the members with a list that outlived
\* their key, or with none; and a list only goes away.
LEMMA AllOwnedStep == QInv /\ StraysOutlived /\ AllOwned /\ [QueueNext]_vars => AllOwned'
  <1> SUFFICES ASSUME QInv, StraysOutlived, AllOwned, [QueueNext]_vars PROVE AllOwned'
    OBVIOUS
  <1>0. /\ members \subseteq Owners /\ silent \subseteq members
        /\ lists \in [Owners -> SUBSET Partitions]
    BY DEF QInv, QueueTypeOK
  <1>1. CASE UNCHANGED <<members, lists, outlived>>
    BY <1>1 DEF AllOwned
  <1>2. ASSUME NEW o \in Owners, Join(o) PROVE AllOwned'
    <2>1. Deal(members \cup {o}, lists)
      BY <1>2 DEF Join
    <2> QED BY <1>0, <2>1, DealCovers
  <1>3. ASSUME NEW o \in Owners, Exit(o) PROVE AllOwned'
    <2>1. Deal(members \ {o}, Without({o}))
      BY <1>3 DEF Exit
    <2> QED BY <1>0, <2>1, DealCovers
  <1>4. ASSUME CleanUp PROVE AllOwned'
    <2>1. CASE Inactive = {}
      BY <1>1, <1>4, <2>1 DEF CleanUp
    <2>2. CASE Inactive # {}
      <3>1. Deal(members \ Inactive, Without(Inactive))
        BY <1>4, <2>2 DEF CleanUp
      <3> QED BY <1>0, <3>1, DealCovers
    <2> QED BY <2>1, <2>2
  <1>5. CASE Rebalance
    <2>1. Deal(members, lists)
      BY <1>5 DEF Rebalance
    <2> QED BY <1>0, <2>1, DealCovers
  <1>6. CASE ForceCleanUp \/ MembersExpire
    BY <1>6 DEF ForceCleanUp, MembersExpire, AllOwned
  <1>7. ASSUME NEW o \in Owners, Keepalive(o) PROVE AllOwned'
    <2>1. members' = members \cup {o} /\ UNCHANGED <<lists, outlived>>
      BY <1>7 DEF Keepalive
    <2>2. CASE o \in members
      <3>1. members' = members
        BY <2>1, <2>2
      <3> QED BY <1>1, <2>1, <3>1
    <2>3. CASE o \notin members
      BY <2>1, <2>3 DEF StraysOutlived, AllOwned
    <2> QED BY <2>2, <2>3
  <1>8. ASSUME NEW o \in Owners, ListExpires(o) PROVE AllOwned'
    <2>1. /\ members' = members /\ outlived' = outlived \ {o}
          /\ lists'[o] = {} /\ \A a \in Owners \ {o} : lists'[a] = lists[a]
      BY <1>0, <1>8 DEF ListExpires, Without
    <2>2. CASE o \in members
      BY <2>1, <2>2 DEF AllOwned
    <2>3. CASE o \notin members
      <3>1. \A a \in members : lists'[a] = lists[a]
        BY <1>0, <2>1, <2>3
      <3>2. {lists'[a] : a \in members} = {lists[a] : a \in members}
        BY <3>1
      <3>3. members \cap outlived' = members \cap outlived
        BY <2>1, <2>3
      <3> QED BY <2>1, <3>1, <3>2, <3>3 DEF AllOwned
    <2> QED BY <2>2, <2>3
  <1>9. CASE \/ \E m \in Messages : Ripen(m) \/ \E limit \in 0..MaxTotal : Deliver(m, limit)
             \/ \E o \in Owners : \/ GetMessages(o) \/ KeepaliveLost(o) \/ Fetch(o)
                                  \/ FetchLost(o) \/ FetchRefused(o) \/ JoinLost(o)
                                  \/ ShutDown(o) \/ Die(o) \/ FallSilent(o)
             \/ \E p \in Partitions : QueueExpires(p)
             \/ CounterExpires
             \/ UNCHANGED vars
    <2>1. UNCHANGED <<members, lists, outlived>>
      BY <1>9 DEF Deliver, Ripen, GetMessages, KeepaliveLost, Fetch, FetchLost, FetchRefused,
                  JoinLost, ShutDown, Die, FallSilent, QueueExpires, CounterExpires, vars, shared
    <2> QED BY <1>1, <2>1
  <1>10. ASSUME NEW o \in Owners, StartBreaks(o) PROVE AllOwned'
    BY <1>1, <1>4, <1>10 DEF StartBreaks, shared
  <1> QED
    BY <1>2, <1>3, <1>4, <1>5, <1>6, <1>7, <1>8, <1>9, <1>10
       DEF QueueNext, CallMoves, Time, StartManager, PeriodicCleanUp

\* While every member has a list that was dealt since the members' key last
\* expired, every partition is on one: a member that was cleaned up or whose
\* key expired comes back by a join, which deals anew, or without a list
\* (rebalance_partitions, KEEPALIVE_CONSUMER_SCRIPT).
THEOREM PartitionsAllOwned == QueueSpec => []AllOwned
  <1>1. Init => OwnersInv /\ AllOwned
    BY QueueInit DEF Init, OwnersInv, QInv, RetriesLeft, Idle, StraysOutlived, OneOwner, AllOwned
  <1>2. OwnersInv /\ AllOwned /\ [QueueNext]_vars => OwnersInv' /\ AllOwned'
    BY TypeStep, OwnersStep, AllOwnedStep DEF OwnersInv
  <1> QED BY <1>1, <1>2, PTL DEF QueueSpec

-----------------------------------------------------------------------------
(* The counter *)

LEMMA CounterStep == QInv /\ CounterCovers /\ [QueueNext]_vars => CounterCovers'
  <1> SUFFICES ASSUME QInv, CounterCovers, [QueueNext]_vars PROVE CounterCovers'
    OBVIOUS
  <1>0. /\ ripe \subseteq queued /\ counter \in Nat /\ MaxTotal \in Nat
        /\ IsFiniteSet(queued) /\ Cardinality(queued) \in Nat
        /\ Cardinality(queued) <= counter /\ counter <= MaxTotal
    BY QueuedCounted, QueueAssumption DEF QInv, QueueTypeOK, CounterCovers
  <1> USE DEF content, shared, local
  <1>1. CASE UNCHANGED <<queued, counter>>
    BY <1>1 DEF CounterCovers
  <1>2. ASSUME NEW m \in Messages, NEW limit \in 0..MaxTotal, Deliver(m, limit) PROVE CounterCovers'
    <2>1. CASE counter >= limit \/ m \in queued
      <3>1. UNCHANGED <<queued, counter>>
        BY <1>0, <1>2, <2>1 DEF Deliver
      <3> QED BY <1>1, <3>1
    <2>2. CASE counter < limit /\ m \notin queued
      <3>1. queued' = queued \cup {m} /\ counter' = counter + 1
        BY <1>0, <1>2, <2>2 DEF Deliver
      <3>2. Cardinality(queued \cup {m}) = Cardinality(queued) + 1
        BY <1>0, <2>2, FS_AddElement
      <3> QED BY <1>0, <2>2, <3>1, <3>2 DEF CounterCovers
    <2> QED BY <1>0, <1>2, <2>1, <2>2
  <1>3. ASSUME NEW o \in Owners, Fetch(o) PROVE CounterCovers'
    <2>1. PICK H \in Heads(o) : Take(H)
      BY <1>3 DEF Fetch
    <2>2. H \subseteq queued /\ IsFiniteSet(H)
      BY <1>0, <2>1, FS_Subset DEF Heads
    <2>3. /\ Cardinality(H) \in Nat /\ Cardinality(queued \ H) \in Nat
          /\ Cardinality(queued \ H) = Cardinality(queued) - Cardinality(queued \cap H)
      BY <1>0, <2>2, FS_CardinalityType, FS_Difference
    <2>4. queued \cap H = H
      BY <2>2
    <2>5. queued' = queued \ H /\ counter' = Left(Cardinality(H))
      BY <2>1 DEF Take, Popped
    <2>6. Cardinality(queued') = Cardinality(queued) - Cardinality(H)
      BY <2>3, <2>4, <2>5
    <2> HIDE DEF content
    <2>7. Cardinality(queued') <= counter' /\ counter' <= MaxTotal
      <3>1. CASE counter < Cardinality(H)
        BY <1>0, <2>3, <2>5, <2>6, <3>1 DEF Left
      <3>2. CASE ~(counter < Cardinality(H))
        BY <1>0, <2>3, <2>5, <2>6, <3>2 DEF Left
      <3> QED BY <3>1, <3>2
    <2> QED BY <2>7 DEF CounterCovers
  <1>4. ASSUME CleanUp, UNCHANGED queued PROVE CounterCovers'
    BY <1>0, <1>4 DEF CleanUp, CounterCovers
  <1>5. CASE ForceCleanUp
    BY <1>0, <1>5, FS_EmptySet DEF ForceCleanUp, CounterCovers
  <1>6. ASSUME NEW p \in Partitions, QueueExpires(p) PROVE CounterCovers'
    <2>1. Cardinality(queued') <= Cardinality(queued) /\ Cardinality(queued') \in Nat
      BY <1>0, <1>6, FS_Subset, FS_CardinalityType DEF QueueExpires
    <2> QED BY <1>0, <1>6, <2>1 DEF QueueExpires, CounterCovers
  <1>7. CASE CounterExpires
    BY <1>0, <1>7, FS_EmptySet DEF CounterExpires, CounterCovers
  <1>8. CASE \/ \E m \in Messages : Ripen(m)
             \/ \E o \in Owners : \/ GetMessages(o) \/ KeepaliveLost(o) \/ Keepalive(o)
                                  \/ FetchLost(o) \/ FetchRefused(o) \/ Join(o) \/ JoinLost(o)
                                  \/ Exit(o) \/ ShutDown(o) \/ Die(o) \/ FallSilent(o) \/ ListExpires(o)
             \/ Rebalance \/ MembersExpire
             \/ UNCHANGED vars
    <2>1. UNCHANGED <<queued, counter>>
      BY <1>8 DEF Ripen, GetMessages, KeepaliveLost, Keepalive, FetchLost, FetchRefused, Join, JoinLost,
                  Exit, ShutDown, Die, FallSilent, ListExpires, Rebalance, MembersExpire, vars
    <2> QED BY <1>1, <2>1
  <1>9. ASSUME NEW o \in Owners, StartBreaks(o) PROVE CounterCovers'
    BY <1>1, <1>4, <1>9 DEF StartBreaks
  <1> QED
    BY <1>2, <1>3, <1>4, <1>5, <1>6, <1>7, <1>8, <1>9
       DEF QueueNext, CallMoves, Time, StartManager, PeriodicCleanUp

\* The counter is never below the number of messages nor above the limit.
THEOREM CounterCoversQueue == QueueSpec => []CounterCovers
  <1>1. Init => CounterCovers
    BY FS_EmptySet, QueueAssumption DEF Init, CounterCovers
  <1> QED BY <1>1, CounterStep, QInvAlways, PTL DEF QueueSpec
-----------------------------------------------------------------------------
(* Calls end.  What the clean-ups of others take away costs a call a retry;  *)
(* it cannot be sent around for ever.                                        *)

\* How many scripts the call may still run.
ScriptsLeft(c) ==
    CASE c.pc = "idle" -> 0
      [] c.pc = "fetch" -> 3 * c.depth + 1
      [] c.pc = "keepalive" -> 3 * c.depth + 2
      [] c.pc = "join" -> 3 * c.depth

\* Every move of a call leaves it fewer.
LEMMA CallShrinks ==
    ASSUME QInv, NEW o \in Owners, CallMoves(o)
    PROVE  /\ ScriptsLeft(call'[o]) < ScriptsLeft(call[o])
           /\ \A p \in Owners \ {o} : call'[p] = call[p]
  <1>1. /\ call \in [Owners -> [pc : {"idle", "keepalive", "fetch", "join"}, depth : 0..RetryDepth]]
        /\ call[o].depth \in 0..RetryDepth /\ RetryDepth \in Nat
        /\ call[o].pc = "join" => call[o].depth > 0
    BY QueueAssumption DEF QInv, QueueTypeOK, RetriesLeft
  <1>2. CASE call[o].pc = "keepalive" /\ Goto(o, "fetch")
    <2>1. call'[o].pc = "fetch" /\ call'[o].depth = call[o].depth /\ \A p \in Owners \ {o} : call'[p] = call[p]
      BY <1>1, <1>2 DEF Goto
    <2> QED BY <1>1, <1>2, <2>1 DEF ScriptsLeft
  <1>3. CASE call[o].pc = "fetch" /\ Return(o)
    <2>1. call'[o].pc = "idle" /\ \A p \in Owners \ {o} : call'[p] = call[p]
      BY <1>1, <1>3 DEF Return, Idle
    <2> QED BY <1>1, <1>3, <2>1 DEF ScriptsLeft
  <1>4. CASE call[o].pc = "fetch" /\ call[o].depth # 0 /\ Goto(o, "join")
    <2>1. call'[o].pc = "join" /\ call'[o].depth = call[o].depth /\ \A p \in Owners \ {o} : call'[p] = call[p]
      BY <1>1, <1>4 DEF Goto
    <2> QED BY <1>1, <1>4, <2>1 DEF ScriptsLeft
  <1>5. CASE call[o].pc = "join" /\ EnterCall(o, Again(o))
    <2>1. /\ call'[o].pc \in {"keepalive", "fetch"} /\ call'[o].depth = call[o].depth - 1
          /\ \A p \in Owners \ {o} : call'[p] = call[p]
      BY <1>1, <1>5 DEF EnterCall, Entries, Again
    <2> QED BY <1>1, <1>5, <2>1 DEF ScriptsLeft
  <1> QED
    BY <1>2, <1>3, <1>4, <1>5
       DEF CallMoves, KeepaliveLost, Keepalive, Fetch, FetchLost, FetchRefused, Rejoin, NoRetryLeft,
           Join, JoinLost

\* A get_messages runs at most three scripts for each time it may join and two
\* more, however often clean-ups of other processes, expiries or lost calls
\* take away what it joined for.
THEOREM CallsEnd ==
    QueueSpec => [][\A o \in Owners :
                        /\ ScriptsLeft(call[o]) \in 0..(3 * RetryDepth + 2)
                        /\ call[o].pc # "idle" => \/ call'[o] = call[o]
                                             \/ ScriptsLeft(call'[o]) < ScriptsLeft(call[o])]_vars
  <1>1. ASSUME QInv, [QueueNext]_vars
        PROVE  [\A o \in Owners :
                    /\ ScriptsLeft(call[o]) \in 0..(3 * RetryDepth + 2)
                    /\ call[o].pc # "idle" => \/ call'[o] = call[o]
                                         \/ ScriptsLeft(call'[o]) < ScriptsLeft(call[o])]_vars
    <2>1. SUFFICES ASSUME NEW o \in Owners, QueueNext
                   PROVE  /\ ScriptsLeft(call[o]) \in 0..(3 * RetryDepth + 2)
                          /\ call[o].pc # "idle" => \/ call'[o] = call[o]
                                               \/ ScriptsLeft(call'[o]) < ScriptsLeft(call[o])
      BY <1>1
    <2>2. /\ call \in [Owners -> [pc : {"idle", "keepalive", "fetch", "join"}, depth : 0..RetryDepth]]
          /\ call[o].pc \in {"idle", "keepalive", "fetch", "join"}
          /\ call[o].depth \in 0..RetryDepth /\ RetryDepth \in Nat
      BY <1>1, QueueAssumption DEF QInv, QueueTypeOK
    <2>3. ScriptsLeft(call[o]) \in 0..(3 * RetryDepth + 2)
      BY <2>2 DEF ScriptsLeft
    <2>4. ASSUME NEW p \in Owners, CallMoves(p)
          PROVE  call'[o] = call[o] \/ ScriptsLeft(call'[o]) < ScriptsLeft(call[o])
      BY <1>1, <2>4, CallShrinks
    <2>5. ASSUME NEW p \in Owners, GetMessages(p), call[o].pc # "idle" PROVE call'[o] = call[o]
      BY <2>2, <2>5 DEF GetMessages, EnterCall, Idle
    <2>6. ASSUME NEW p \in Owners, Die(p), call[o].pc # "idle"
          PROVE  call'[o] = call[o] \/ ScriptsLeft(call'[o]) < ScriptsLeft(call[o])
      <3>1. CASE p # o
        BY <2>2, <2>6, <3>1 DEF Die, Return
      <3>2. CASE p = o
        <4>1. call'[o].pc = "idle"
          BY <2>2, <2>6, <3>2 DEF Die, Return, Idle
        <4>2. call[o].pc = "join" => call[o].depth > 0
          BY <1>1 DEF QInv, RetriesLeft
        <4> QED BY <2>2, <2>6, <4>1, <4>2 DEF ScriptsLeft
      <3> QED BY <3>1, <3>2
    <2>7. ASSUME \/ \E m \in Messages, limit \in 0..MaxTotal : Deliver(m, limit)
                 \/ \E p \in Owners : \/ Exit(p) \/ StartManager(p) \/ StartBreaks(p)
                                      \/ PeriodicCleanUp(p) \/ ShutDown(p)
                 \/ Rebalance \/ ForceCleanUp \/ Time
          PROVE  call' = call
      BY <2>7 DEF Deliver, Exit, StartManager, StartBreaks, PeriodicCleanUp, ShutDown, Rebalance, ForceCleanUp, Time,
                  Ripen, FallSilent, ListExpires, QueueExpires, MembersExpire, CounterExpires, local
    <2> QED BY <2>1, <2>3, <2>4, <2>5, <2>6, <2>7 DEF QueueNext
  <1> QED BY <1>1, QInvAlways, PTL DEF QueueSpec
=============================================================================
