------------------------------- MODULE Routes -------------------------------
(***************************************************************************)
(* The routes of a workspace, generated anew again and again.  A           *)
(* generation writes its routes with scores, waits for the language model  *)
(* to summarise them, ranks those that are still there and deletes the     *)
(* routes it found when it began.  Several may run at once, asked for by a *)
(* request or as a job; the process may die in the wait or among the last  *)
(* writes, and the store may raise among these.                            *)
(*                                                                         *)
(* Abstracted: scores, ranks, summaries and what a route goes through.     *)
(***************************************************************************)
EXTENDS Integers, FiniteSets

CONSTANTS Generations, \* calls of generate_routes
          AsJob,       \* those run by a recompute job
          MaxRoutes,   \* max_candidates
          MaxDeaths    \* bound on deaths of the process and raises of the store

ASSUME RoutesAssumption ==
    /\ IsFiniteSet(Generations) /\ AsJob \subseteq Generations
    /\ MaxRoutes \in Nat \ {0} /\ MaxDeaths \in Nat

VARIABLES routes,      \* rows of routes: generation and number
          generation,  \* where each generation is, and what it found
          routeJob,    \* status of the jobs of recomputes
          began,       \* history: each generation's place among those begun
          deaths       \* so far, for the bound

routesVars == <<routes, generation, routeJob, began, deaths>>

RoutesInit ==
    /\ routes = {}
    /\ generation = [g \in Generations |-> [pc |-> "idle", found |-> {}]]
    /\ routeJob = [g \in AsJob |-> "none"]
    /\ began = [g \in Generations |-> 0]
    /\ deaths = 0

-----------------------------------------------------------------------------
(* generate_routes *)

Own(g) == {r \in routes : r.generation = g}
Summarising(g) == generation[g].pc = "summaries"
GenerationAt(g, pc) == generation' = [generation EXCEPT ![g].pc = pc]
JobOf(g, status) ==
    routeJob' = IF g \in AsJob THEN [routeJob EXCEPT ![g] = status] ELSE routeJob

Ask(g) ==
    /\ generation[g].pc = "idle"
    /\ GenerationAt(g, "asked") /\ JobOf(g, "queued")
    /\ UNCHANGED <<routes, began, deaths>>

Numbers(n) == 1..n

BeginGeneration(g, n) ==
    /\ generation[g].pc = "asked"
    /\ routes' = routes \cup {[generation |-> g, number |-> i] : i \in Numbers(n)}
    /\ generation' = [generation EXCEPT ![g] = [pc |-> "summaries", found |-> routes]]
    /\ began' = [began EXCEPT ![g] = 1 + Cardinality({h \in Generations : began[h] # 0})]
    /\ JobOf(g, "running")
    /\ UNCHANGED deaths

\* No graph, no candidate, or a score that cannot be computed.
BeginFails(g) ==
    /\ generation[g].pc = "asked"
    /\ GenerationAt(g, "failed") /\ JobOf(g, "failed")
    /\ UNCHANGED <<routes, began, deaths>>

OthersNow(g) == routes \ Own(g)
NothingFound(g) == {}
\* What the generation deletes: the routes there when it began.
Found(g) == generation[g].found

\* Own routes that another generation has deleted are left out of the answer,
\* and a job without one to name fails.
Outcome(g) == IF Own(g) = {} THEN "failed" ELSE "succeeded"

CompleteGeneration(g) ==
    /\ Summarising(g)
    /\ routes' = routes \ Found(g)
    /\ GenerationAt(g, "completed") /\ JobOf(g, Outcome(g))
    /\ UNCHANGED <<began, deaths>>

\* A summary fails.
GenerationFails(g) ==
    /\ Summarising(g)
    /\ routes' = routes \ Own(g)
    /\ GenerationAt(g, "failed") /\ JobOf(g, "failed")
    /\ UNCHANGED <<began, deaths>>

\* The request is cancelled, which the job does not take for an error.
GenerationCancelled(g) ==
    /\ Summarising(g)
    /\ routes' = routes \ Own(g)
    /\ GenerationAt(g, "failed")
    /\ UNCHANGED <<routeJob, began, deaths>>

\* The process dies: every wait in it is over, every job stays as it is.
AllCutShort ==
    /\ deaths < MaxDeaths /\ deaths' = deaths + 1
    /\ generation' = [g \in Generations |->
           IF generation[g].pc \in {"asked", "summaries"}
           THEN [generation[g] EXCEPT !.pc = "lost"] ELSE generation[g]]
    /\ UNCHANGED <<routeJob, began>>

DieSummarising == AllCutShort /\ UNCHANGED routes

\* The old routes go one by one, after the new ones are ranked.
DieDeleting(g) ==
    /\ Summarising(g) /\ AllCutShort
    /\ \E deleted \in SUBSET Found(g) : routes' = routes \ deleted

\* The store raises among these deletes, and the new routes are deleted too.
DeletingRaises(g) ==
    /\ Summarising(g)
    /\ deaths < MaxDeaths /\ deaths' = deaths + 1
    /\ \E deleted \in SUBSET Found(g) :
          deleted # Found(g) /\ routes' = routes \ (deleted \cup Own(g))
    /\ GenerationAt(g, "broken") /\ JobOf(g, "failed")
    /\ UNCHANGED began

-----------------------------------------------------------------------------

GenerationMoves(g) ==
    \/ \E n \in 1..MaxRoutes : BeginGeneration(g, n)
    \/ BeginFails(g) \/ CompleteGeneration(g) \/ GenerationFails(g)

RoutesNext ==
    \/ \E g \in Generations :
          \/ Ask(g) \/ GenerationMoves(g) \/ GenerationCancelled(g)
          \/ DieDeleting(g) \/ DeletingRaises(g)
    \/ DieSummarising

\* The loop runs what is ready, and a summary comes, fails or times out.
RoutesSpec ==
    /\ RoutesInit /\ [][RoutesNext]_routesVars
    /\ \A g \in Generations : WF_routesVars(GenerationMoves(g))

-----------------------------------------------------------------------------
(* Properties *)

\* Types, and no two generations begin at one place.
RoutesTypeOK ==
    /\ routes \subseteq [generation : Generations, number : 1..MaxRoutes]
    /\ \A g \in Generations :
          /\ generation[g].pc \in {"idle", "asked", "summaries", "completed", "failed", "broken", "lost"}
          /\ generation[g].found \subseteq [generation : Generations, number : 1..MaxRoutes]
    /\ routeJob \in [AsJob -> {"none", "queued", "running", "succeeded", "failed"}]
    /\ began \in [Generations -> Nat] /\ deaths \in 0..MaxDeaths
    /\ \A g, h \in Generations : began[g] = began[h] => g = h \/ began[g] = 0

\* Once a generation has completed, the workspace never is without routes,
\* whatever generations overlap it, fail, are cancelled or die: each deletes
\* only what it found, and stands for it.  Only when the store raised among the
\* deletes may both the new and the old be gone.
RoutesRemain ==
    (\E g \in Generations : generation[g].pc = "completed") =>
        routes # {} \/ \E g \in Generations : generation[g].pc = "broken"

\* When no generation is under way, the routes are those of one generation,
\* but for what one left behind that was cut short by a death.
OneSet ==
    (\A g \in Generations : ~Summarising(g)) =>
        \A r, s \in routes : \/ r.generation = s.generation
                             \/ generation[r.generation].pc = "lost"
                             \/ generation[s.generation].pc = "lost"

\* A generation ends, unless the process dies.
GenerationsEnd ==
    \A g \in Generations :
        generation[g].pc = "asked" ~> generation[g].pc \in {"completed", "failed", "broken", "lost"}

\* The rows of recompute jobs move forward and an outcome is final.
RouteTable == INSTANCE ResearchJobs WITH Jobs <- AsJob, row <- routeJob
RouteJobsKept == RouteTable!Spec
=============================================================================
