----------------------------- MODULE MCServices -----------------------------
(* Instances of components that share no state.  One of them moves in a     *)
(* behaviour, so the behaviours are those of each component by itself; the  *)
(* actions that fairness is stated for are disabled where another one is.   *)
EXTENDS ReentrantLock, RecycleConsumer, Routes, Packages, RequestStatus, Clustering, TLC

CONSTANTS t1, t2,         \* tasks of one process
          g1, g2, g3,     \* generations
          x, y, v, k1, k2, \* nodes, the second private, and publishing jobs
          c1, c2, c3, c4, \* calls
          m1, m2, m3      \* memcells

VARIABLE part \* the component that moves

OneProcess == t1 :> "task_1" @@ t2 :> "task_2"

\* The next node is a validation, one that refers to none that is there, one
\* that refers to no validation, and none at all.
Paths == <<{x, v}, {x, y}, {x, v}, {x, y}>>
Conclusions == <<x, x, v, y>>
NextNodes == <<{v}, {y}, {x}, {}>>

MCInit ==
    /\ part \in {"lock", "consumer", "routes", "packages", "requests", "clusters"}
    /\ LockInit /\ ConsumerInit /\ RoutesInit /\ PackagesInit /\ StatusInit /\ ClusteringInit

Still(ps) ==
    /\ "lock" \in ps => UNCHANGED lockVars
    /\ "consumer" \in ps => UNCHANGED consumerVars
    /\ "routes" \in ps => UNCHANGED routesVars
    /\ "packages" \in ps => UNCHANGED packagesVars
    /\ "requests" \in ps => UNCHANGED statusVars
    /\ "clusters" \in ps => UNCHANGED clusteringVars

Others == {"lock", "consumer", "routes", "packages", "requests", "clusters"} \ {part}

MCNext ==
    /\ \/ part = "lock" /\ LockNext
       \/ part = "consumer" /\ ConsumerNext
       \/ part = "routes" /\ RoutesNext
       \/ part = "packages" /\ PackagesNext
       \/ part = "requests" /\ StatusNext
       \/ part = "clusters" /\ ClusteringNext
    /\ Still(Others)
    /\ UNCHANGED part

MCVars == <<part, lockVars, consumerVars, routesVars, packagesVars, statusVars, clusteringVars>>

MCSpec ==
    /\ MCInit /\ [][MCNext]_MCVars
    /\ LockFairness /\ ConsumerFairness
    /\ \A g \in Generations : WF_routesVars(GenerationMoves(g))
    /\ WF_statusVars(WorkMoves)

\* What was begun ends: an acquisition is decided, a generation of routes ends
\* unless its process dies, and the status of a request closes or expires
\* unless something left it open.
ServicesEnd == AcquireEnds /\ GenerationsEnd /\ StatusCloses
=============================================================================
