----------------------------- MODULE Clustering -----------------------------
(***************************************************************************)
(* The clusters of a group.  Every saved memcell starts a background task  *)
(* that reads the whole state of the clusters, waits for an embedding,     *)
(* puts the memcell into a cluster and saves the whole state again; from a *)
(* cluster that is large enough it then makes a profile of the users.      *)
(* Tasks overlap, and a failed read looks like a group without clusters.   *)
(*                                                                         *)
(* Abstracted: vectors, centroids and times, so a memcell may join any     *)
(* cluster that has a centroid; texts of profiles; one user stands for all.*)
(***************************************************************************)
EXTENDS Integers, FiniteSets, Sequences

CONSTANTS Memcells,    \* memcells of the group, each with its task
          MinMemcells, \* profile_min_memcells
          MaxMisses    \* bound on calls that fail

ASSUME ClusteringAssumption ==
    IsFiniteSet(Memcells) /\ MinMemcells \in Nat \ {0} /\ MaxMisses \in Nat

VARIABLES documents,  \* cluster_states of the group: group_id is not unique
          profiles,   \* user_profiles of the user and the group
          task,       \* where each task is and what it holds
          misses      \* failed calls so far, for the bound

clusteringVars == <<documents, profiles, task, misses>>

ClusterNumbers == 1..Cardinality(Memcells)
Nowhere == 0
Empty == [of |-> [m \in Memcells |-> Nowhere], next |-> 0, count |-> [c \in ClusterNumbers |-> 0]]

ClusteringInit ==
    /\ documents = <<>> /\ profiles = <<>>
    /\ task = [m \in Memcells |-> [pc |-> "idle", state |-> Empty, found |-> 0, material |-> {}]]
    /\ misses = 0

Answers(ok) == IF ok THEN UNCHANGED misses ELSE misses < MaxMisses /\ misses' = misses + 1
TaskAt(m, pc) == task' = [task EXCEPT ![m].pc = pc]
Running == {m \in Memcells : task[m].pc \notin {"idle", "ended"}}

\* find_one: any of the rows, 0 for none.
FindOne(rows) == IF rows = <<>> THEN {0} ELSE DOMAIN rows

\* The row that was found is written over whole; without one a row is added,
\* even when another task added one meanwhile.
Upserted(rows, i, row) == IF i = 0 THEN Append(rows, row) ELSE [rows EXCEPT ![i] = row]

-----------------------------------------------------------------------------
(* _trigger_clustering *)

\* A read that fails answers None, as if there were no state.
Load(m, ok) ==
    /\ task[m].pc = "idle" /\ Answers(ok)
    /\ \E i \in FindOne(documents) :
          task' = [task EXCEPT ![m].pc = "embed",
                               ![m].state = IF ok /\ i # 0 THEN documents[i] ELSE Empty]
    /\ UNCHANGED <<documents, profiles>>

Counted(s, c) == [s EXCEPT !.count[c] = @ + 1]
\* assign_new_cluster
InNew(s, m) == [s EXCEPT !.of[m] = s.next + 1, !.next = s.next + 1]
InExistingUncounted(s, m, c) == [s EXCEPT !.of[m] = c]
\* add_to_cluster
InExisting(s, m, c) == Counted([s EXCEPT !.of[m] = c], c)

\* Without an embedding the memcell gets a cluster without a centroid.
Clustered(s, m, embedded) ==
    IF ~embedded THEN {InNew(s, m)}
    ELSE {Counted(InNew(s, m), s.next + 1)} \cup
         {InExisting(s, m, c) : c \in {c \in ClusterNumbers : s.count[c] > 0}}

Cluster(m, embedded) ==
    /\ task[m].pc = "embed" /\ Answers(embedded)
    /\ \E s \in Clustered(task[m].state, m, embedded) :
          task' = [task EXCEPT ![m].pc = "find", ![m].state = s]
    /\ UNCHANGED <<documents, profiles>>

\* upsert_by_group_id: an error in it is logged, and the task goes on.
FindDocument(m, ok) ==
    /\ task[m].pc = "find" /\ Answers(ok)
    /\ \E i \in FindOne(documents) :
          task' = [task EXCEPT ![m].pc = IF ok THEN "save" ELSE "profile", ![m].found = i]
    /\ UNCHANGED <<documents, profiles>>

SaveDocument(m, ok) ==
    /\ task[m].pc = "save" /\ Answers(ok)
    /\ documents' = IF ok THEN Upserted(documents, task[m].found, task[m].state) ELSE documents
    /\ TaskAt(m, "profile")
    /\ UNCHANGED <<profiles>>

-----------------------------------------------------------------------------
(* _trigger_profile_extraction *)

ClusterOf(m) == task[m].state.of[m]
CountOf(m) == task[m].state.count[ClusterOf(m)]

CurrentAlone(m) == {m}
\* The memcells of the cluster and the current one.
MaterialOf(m) == {e \in Memcells : task[m].state.of[e] = ClusterOf(m)}

\* A profile is made of a cluster that is large enough: of its memcells, or of
\* the current one when the others are not to be had; or the model fails.
ExtractProfile(m, material) ==
    /\ task[m].pc = "profile" /\ CountOf(m) >= MinMemcells
    /\ Answers(material = MaterialOf(m))
    /\ \E i \in FindOne(profiles) :
          task' = [task EXCEPT ![m].pc = IF material = {} THEN "ended" ELSE "upsert",
                               ![m].found = i, ![m].material = material]
    /\ UNCHANGED <<documents, profiles>>

SmallCluster(m) ==
    /\ task[m].pc = "profile" /\ CountOf(m) < MinMemcells
    /\ TaskAt(m, "ended")
    /\ UNCHANGED <<documents, profiles, misses>>

\* A profile that another task saved in between is written over.
SaveProfile(m, ok) ==
    /\ task[m].pc = "upsert" /\ Answers(ok)
    /\ LET row == [material |-> task[m].material, count |-> CountOf(m)]
       IN profiles' = IF ok THEN Upserted(profiles, task[m].found, row) ELSE profiles
    /\ TaskAt(m, "ended")
    /\ UNCHANGED <<documents>>

\* The process ends with its background tasks.
TasksLost ==
    /\ Running # {} /\ Answers(FALSE)
    /\ task' = [m \in Memcells |-> IF m \in Running THEN [task[m] EXCEPT !.pc = "ended"] ELSE task[m]]
    /\ UNCHANGED <<documents, profiles>>

ClusteringNext ==
    \/ \E m \in Memcells, ok \in BOOLEAN :
          \/ Load(m, ok) \/ Cluster(m, ok) \/ FindDocument(m, ok) \/ SaveDocument(m, ok)
          \/ SaveProfile(m, ok)
    \/ \E m \in Memcells :
          \/ SmallCluster(m)
          \/ \E material \in {MaterialOf(m), {m}, {}} : ExtractProfile(m, material)
    \/ TasksLost

ClusteringSpec == ClusteringInit /\ [][ClusteringNext]_clusteringVars

-----------------------------------------------------------------------------
(* Properties *)

States == {documents[i] : i \in DOMAIN documents} \cup {task[m].state : m \in Memcells}

\* Types, and the next number is higher than any in use.
ClusteringTypeOK ==
    /\ misses \in 0..MaxMisses
    /\ \A s \in States : /\ s.next \in {0} \cup ClusterNumbers
                         /\ s.of \in [Memcells -> 0..s.next]
                         /\ \A c \in ClusterNumbers : c > s.next => s.count[c] = 0

\* Whatever tasks write over each other, a saved state agrees with itself: the
\* count of a cluster is the number of its memcells, but for a memcell that
\* had no embedding, which is alone and not counted.
CountsAgree ==
    \A s \in States, c \in ClusterNumbers :
        LET members == {m \in Memcells : s.of[m] = c}
        IN s.count[c] = Cardinality(members) \/ (s.count[c] = 0 /\ Cardinality(members) = 1)

\* A profile counts the memcells it was made of, whatever other tasks saved
\* meanwhile, unless a call failed.
ProfilesCounted ==
    \A i \in DOMAIN profiles :
        profiles[i].count = Cardinality(profiles[i].material) \/ misses > 0
=============================================================================
