--------------------------- MODULE HypothesisPool ---------------------------
(***************************************************************************)
(* The multi-agent hypothesis pool: one pool, its candidates, the          *)
(* background jobs that create it and run tournament rounds on it, and the *)
(* requests a researcher sends meanwhile (control, edit, add, patch,       *)
(* finalize).                                                              *)
(*                                                                         *)
(* The server runs every handler and job on one asyncio loop.  A job gives *)
(* the loop away only where it awaits the language model, so one action    *)
(* here is the code from one await to the next, and what a job read before *)
(* an await is kept in its record job[j] until it writes it back.          *)
(*                                                                         *)
(* Abstracted: the text of a candidate is the number of the edit that      *)
(* wrote it, Elo ratings only order lists and the order is left open, and  *)
(* the journals kept in reasoning_subgraph are left out.                   *)
(***************************************************************************)
EXTENDS Naturals, FiniteSets

CONSTANTS SeedIds,     \* candidates the generation agent writes: max(2, candidate_count)
          ChildIds,    \* candidates the evolution agent may write (bounds their number)
          UserIds,     \* candidates a researcher may add (bounds their number)
          Jobs,        \* background jobs, numbered as they are scheduled (bounds how many are)
          MaxRounds,   \* pool.max_rounds
          TopK,        \* pool.top_k
          MaxMatches,  \* max_matches of a round
          MaxEdits,    \* bound on edits and patches
          MaxControls, \* bound on control requests
          PatchResets, \* values of reset_review_state sent to the patch endpoint
          Overlap,     \* whether a job may be started while another one runs
          EditInRound  \* whether candidates may be edited while a job runs

Cands == SeedIds \cup ChildIds \cup UserIds

ASSUME PoolAssumption ==
    /\ IsFiniteSet(Cands) /\ IsFiniteSet(Jobs) /\ Jobs \subseteq Nat
    /\ Cardinality(SeedIds) >= 2
    /\ SeedIds \cap ChildIds = {} /\ SeedIds \cap UserIds = {} /\ ChildIds \cap UserIds = {}
    /\ MaxRounds \in Nat \ {0} /\ TopK \in Nat /\ MaxMatches \in Nat \ {0}
    /\ MaxEdits \in Nat /\ MaxControls \in Nat
    /\ PatchResets \subseteq BOOLEAN /\ Overlap \in BOOLEAN /\ EditInRound \in BOOLEAN

VARIABLES pool,      \* the row of hypothesis_candidate_pools: status, current_round_number
          cand,      \* the rows of hypothesis_candidates
          reviews,   \* the rows of hypothesis_reviews: which text got which verdict
          judged,    \* candidates named by a row of hypothesis_matches
          round,     \* the row of hypothesis_rounds a job created
          job,       \* where each job waits and what it read before waiting
          hyps,      \* the rows of hypotheses promoted from the pool
          edits,     \* edits so far; numbers the texts
          controls   \* control requests so far

vars == <<pool, cand, reviews, judged, round, job, hyps, edits, controls>>

-----------------------------------------------------------------------------
(* Rows and statuses *)

Terminal == {"stopped", "finalized", "failed", "cancelled"}
NotRunnable == {"paused", "stopping", "finalizing"} \cup Terminal

Awaiting == {"plan", "gen", "sup", "reflect", "rank", "evolve", "meta"}
InRound == {"sup", "reflect", "rank", "evolve", "meta"}

Verdicts == {"survive", "revise", "drop"}
RoundActions == {"reflect", "rank", "evolve"}

Born == {c \in Cands : cand[c].status # "none"}
AliveIn(C) == {c \in Cands : C[c].status = "alive"}
Active(j) == job[j].pc \in Awaiting
Quiet == \A j \in Jobs : ~Active(j)

IdleJob == [pc |-> "idle", n |-> 0, acts |-> {}, todo |-> {}, pairs |-> {}, parents |-> {}]

NoCand == [status |-> "none", text |-> 0, chain |-> 0, verdict |-> "pending",
           recheck |-> FALSE, rerank |-> FALSE, parents |-> {}]

\* A candidate as it is first written; text is the statement column, chain
\* the statement held in reasoning_chain.
NewCand(t, flagged, ps) ==
    [status |-> "alive", text |-> t, chain |-> t, verdict |-> "pending",
     recheck |-> flagged, rerank |-> flagged, parents |-> ps]

Init ==
    /\ pool = [status |-> "none", round |-> 0]
    /\ cand = [c \in Cands |-> NoCand]
    /\ reviews = {}
    /\ judged = {}
    /\ round = [j \in Jobs |-> [number |-> 0, status |-> "none"]]
    /\ job = [j \in Jobs |-> IdleJob]
    /\ hyps = {}
    /\ edits = 0
    /\ controls = 0

-----------------------------------------------------------------------------
(* The await a job reaches next *)

Pairs(S) == {p \in SUBSET S : Cardinality(p) = 2}
Smaller(a, b) == IF a <= b THEN a ELSE b

\* Disjoint pairs, as many as the survivors and max_matches allow.
Pairings(S) ==
    {P \in SUBSET Pairs(S) :
        /\ \A p, q \in P : p # q => p \cap q = {}
        /\ Cardinality(P) = Smaller(MaxMatches, Cardinality(S) \div 2)}

\* The best four of the alive candidates, in some order of rating.
ParentSets(S) == {P \in SUBSET S : Cardinality(P) = Smaller(4, Cardinality(S))}

Evolves(r, C) == "evolve" \in r.acts /\ r.n < MaxRounds /\ AliveIn(C) # {}

EvolveOrMeta(r, C) ==
    IF Evolves(r, C)
    THEN {[r EXCEPT !.pc = "evolve", !.parents = P] : P \in ParentSets(AliveIn(C))}
    ELSE {[r EXCEPT !.pc = "meta"]}

Survivors(C) == {c \in AliveIn(C) : C[c].verdict = "survive"}

RankOrLater(r, C) ==
    IF "rank" \in r.acts /\ Cardinality(Survivors(C)) >= 2
    THEN {[r EXCEPT !.pc = "rank", !.pairs = P] : P \in Pairings(Survivors(C))}
    ELSE EvolveOrMeta(r, C)

\* The reflection loop walks the rows it listed before its first await.
ReflectOrLater(r, C) ==
    IF "reflect" \in r.acts /\ AliveIn(C) # {}
    THEN {[r EXCEPT !.pc = "reflect",
                    !.todo = {[cand |-> c, text |-> C[c].chain] : c \in AliveIn(C)}]}
    ELSE RankOrLater(r, C)

-----------------------------------------------------------------------------
(* Jobs *)

MayStart(j) ==
    /\ job[j].pc = "idle"
    /\ \A i \in Jobs : i < j => job[i].pc # "idle"
    /\ Overlap \/ Quiet

\* Clients learn the pool's id from the result of the job that created it:
\* nothing is asked of a pool before, and nothing if the creation fails.
Known == \E j \in Jobs : job[j].pc = "succeeded"

\* create_pool up to the supervisor's plan.
CreatePool(j) ==
    /\ MayStart(j)
    /\ pool.status = "none"
    /\ pool' = [status |-> "running", round |-> 0]
    /\ job' = [job EXCEPT ![j].pc = "plan"]
    /\ UNCHANGED <<cand, reviews, judged, round, hyps, edits, controls>>

RunnableWhenStopped == pool.status \notin NotRunnable \ {"stopped"}
Runnable == pool.status \notin NotRunnable

\* The head of run_round, up to its first await, or the ValueError it raises.
BeginRound(j) ==
    IF Runnable
    THEN LET n == pool.round + 1 IN
         /\ job' = [job EXCEPT ![j] = [IdleJob EXCEPT !.pc = "sup", !.n = n]]
         /\ round' = [round EXCEPT ![j] = [number |-> n, status |-> "running"]]
    ELSE /\ job' = [job EXCEPT ![j].pc = "failed"]
         /\ UNCHANGED round

\* The run-round job.
RunRound(j) ==
    /\ MayStart(j)
    /\ Known
    /\ BeginRound(j)
    /\ UNCHANGED <<pool, cand, reviews, judged, hyps, edits, controls>>

\* Where a retrieve, pause, stop or finalize decision leaves the pool.
DecisionStatuses == {"paused", "stopped", "finalizing"}

\* create_pool: the plan is back.  Any decision but continue ends the job;
\* an initial evolve is an invalid output, which AgentFails covers.
PlanReturns(j) ==
    /\ job[j].pc = "plan"
    /\ \/ /\ job' = [job EXCEPT ![j].pc = "gen"]
          /\ UNCHANGED pool
       \/ \E s \in DecisionStatuses :
             /\ pool' = [pool EXCEPT !.status = s]
             /\ job' = [job EXCEPT ![j].pc = "succeeded"]
    /\ UNCHANGED <<cand, reviews, judged, round, hyps, edits, controls>>

\* create_pool: one seed is back.  After the last one the job runs a round.
SeedReturns(j) ==
    /\ job[j].pc = "gen"
    /\ \E c \in SeedIds \ Born :
          /\ cand' = [cand EXCEPT ![c] = NewCand(0, FALSE, {})]
          /\ IF SeedIds \subseteq Born \cup {c}
             THEN BeginRound(j)
             ELSE UNCHANGED <<job, round>>
    /\ UNCHANGED <<pool, reviews, judged, hyps, edits, controls>>

EndJobOrRetry(j, result) ==
    job' = [job EXCEPT ![j] = [IdleJob EXCEPT !.pc = IF result = "failed" THEN "sup" ELSE result]]
EndJob(j, result) == job' = [job EXCEPT ![j] = [IdleJob EXCEPT !.pc = result]]
EndRound(j, result) == round' = [round EXCEPT ![j].status = result]

\* run_round: the round supervisor is back.
SupervisorReturns(j) ==
    /\ job[j].pc = "sup"
    /\ \/ \E s \in DecisionStatuses :
             /\ pool' = [status |-> s, round |-> job[j].n]
             /\ EndRound(j, "completed")
             /\ EndJob(j, "succeeded")
       \/ \E acts \in SUBSET RoundActions :
             /\ \E r \in ReflectOrLater([job[j] EXCEPT !.acts = acts], cand) :
                   job' = [job EXCEPT ![j] = r]
             /\ UNCHANGED <<pool, round>>
    /\ UNCHANGED <<cand, reviews, judged, hyps, edits, controls>>

VerdictStatus(v) ==
    CASE v = "survive" -> "alive" [] v = "drop" -> "rejected" [] OTHER -> "pruned"

\* _persist_reflection writes the chain it read when the loop began.
Reflected(C, s, v) ==
    [C EXCEPT ![s.cand] = [@ EXCEPT !.status = VerdictStatus(v), !.chain = s.text,
                                    !.verdict = v, !.recheck = FALSE,
                                    !.rerank = (v = "survive")]]

ReflectionReturns(j) ==
    /\ job[j].pc = "reflect"
    /\ \E s \in job[j].todo, v \in Verdicts :
          LET C == Reflected(cand, s, v)
              left == [job[j] EXCEPT !.todo = @ \ {s}]
          IN /\ cand' = C
             /\ reviews' = reviews \cup {[cand |-> s.cand, text |-> s.text, verdict |-> v]}
             /\ \E r \in (IF left.todo # {} THEN {left} ELSE RankOrLater(left, C)) :
                   job' = [job EXCEPT ![j] = r]
    /\ UNCHANGED <<pool, judged, round, hyps, edits, controls>>

\* _persist_ranking_match, and _mark_candidates_reranked on a fresh read.
RankingReturns(j) ==
    /\ job[j].pc = "rank"
    /\ \E p \in job[j].pairs :
          LET C == [c \in Cands |-> [cand[c] EXCEPT !.rerank = @ /\ c \notin p]]
              left == [job[j] EXCEPT !.pairs = @ \ {p}]
          IN /\ cand' = C
             /\ judged' = judged \cup p
             /\ \E r \in (IF left.pairs # {} THEN {left} ELSE EvolveOrMeta(left, C)) :
                   job' = [job EXCEPT ![j] = r]
    /\ UNCHANGED <<pool, reviews, round, hyps, edits, controls>>

\* _persist_evolution_children: any number of children, possibly none.
EvolutionReturns(j) ==
    /\ job[j].pc = "evolve"
    /\ \E K \in SUBSET (ChildIds \ Born) :
          \E ps \in [K -> SUBSET job[j].parents \ {{}}] :
             cand' = [c \in Cands |-> IF c \in K THEN NewCand(0, FALSE, ps[c]) ELSE cand[c]]
    /\ job' = [job EXCEPT ![j].pc = "meta"]
    /\ UNCHANGED <<pool, reviews, judged, round, hyps, edits, controls>>

RoundEndStatus(n) == IF n >= MaxRounds THEN "stopped" ELSE "running"

\* The tail of run_round: prune what the meta review names, then write the
\* pool's status and round number and complete the round.
MetaReviewReturns(j) ==
    /\ job[j].pc = "meta"
    /\ \E R \in SUBSET Born :
          cand' = [c \in Cands |-> IF c \in R THEN [cand[c] EXCEPT !.status = "pruned"]
                                               ELSE cand[c]]
    /\ pool' = [status |-> RoundEndStatus(job[j].n), round |-> job[j].n]
    /\ EndRound(j, "completed")
    /\ EndJob(j, "succeeded")
    /\ UNCHANGED <<reviews, judged, hyps, edits, controls>>

\* The gateway, or the validation of its answer, raises ResearchLLMError.
AgentFails(j) ==
    /\ Active(j)
    /\ pool' = [pool EXCEPT !.status = "failed"]
    /\ IF job[j].pc \in InRound THEN EndRound(j, "failed") ELSE UNCHANGED round
    /\ EndJob(j, "failed")
    /\ UNCHANGED <<cand, reviews, judged, hyps, edits, controls>>

\* Anything else raises (the store, a malformed row): only the controller
\* catches it, so the job fails and the rows of the round and the pool are left
\* as they are.
JobBreaks(j) ==
    /\ Active(j)
    /\ EndJob(j, "failed")
    /\ UNCHANGED <<pool, cand, reviews, judged, round, hyps, edits, controls>>

\* The server process dies: every job in flight is gone, the rows stay.
Crash ==
    /\ ~Quiet
    /\ job' = [j \in Jobs |-> IF Active(j) THEN [IdleJob EXCEPT !.pc = "lost"] ELSE job[j]]
    /\ UNCHANGED <<pool, cand, reviews, judged, round, hyps, edits, controls>>

-----------------------------------------------------------------------------
(* Requests *)

\* What each control action asks for; disable_retrieval and add_sources only
\* write the journal and keep the status.
ControlStatuses == {"paused", "running", "stopping", "finalizing"}

PoolTerminal == pool.status \in Terminal

Control ==
    /\ Known /\ ~PoolTerminal
    /\ controls < MaxControls
    /\ controls' = controls + 1
    /\ \E s \in ControlStatuses : pool' = [pool EXCEPT !.status = s]
    /\ UNCHANGED <<cand, reviews, judged, round, job, hyps, edits>>

MayEdit == edits < MaxEdits /\ (EditInRound \/ Quiet)

EditedKeepingVerdict(c) ==
    [cand EXCEPT ![c] = [@ EXCEPT !.status = "alive", !.text = edits + 1, !.chain = edits + 1]]
EditedRowOnly(c) ==
    [cand EXCEPT ![c] = [NewCand(edits + 1, TRUE, @.parents) EXCEPT !.chain = cand[c].chain]]

\* _persist_user_intervention_candidate_state, which puts the candidate back
\* to alive and pending, and _mark_evolved_children_requires_recheck.
Edited(c) ==
    [d \in Cands |->
        IF d = c THEN NewCand(edits + 1, TRUE, cand[c].parents)
        ELSE IF c \in cand[d].parents
             THEN [cand[d] EXCEPT !.recheck = TRUE, !.rerank = TRUE]
             ELSE cand[d]]

EditCandidate(c) ==
    /\ Known /\ ~PoolTerminal
    /\ MayEdit
    /\ c \in Born
    /\ cand' = Edited(c)
    /\ edits' = edits + 1
    /\ UNCHANGED <<pool, reviews, judged, round, job, hyps, controls>>

AddUserHypothesis(c) ==
    /\ Known /\ ~PoolTerminal
    /\ EditInRound \/ Quiet
    /\ c \in UserIds \ Born
    /\ cand' = [cand EXCEPT ![c] = NewCand(0, TRUE, {})]
    /\ UNCHANGED <<pool, reviews, judged, round, job, hyps, edits, controls>>

Patched(r, reset) ==
    IF reset THEN NewCand(edits + 1, TRUE, r.parents)
             ELSE [r EXCEPT !.status = "alive", !.text = edits + 1, !.chain = edits + 1]

\* The patch endpoint looks at neither the pool nor the candidate's status.
PatchCandidate(c) ==
    /\ Known /\ MayEdit
    /\ c \in Born
    /\ \E reset \in PatchResets : cand' = [cand EXCEPT ![c] = Patched(@, reset)]
    /\ edits' = edits + 1
    /\ UNCHANGED <<pool, reviews, judged, round, job, hyps, controls>>

Flagged(c) == cand[c].recheck \/ cand[c].rerank

SelectableAnyVerdict(c) == c \in judged /\ ~Flagged(c)
Selectable(c) == c \in judged /\ cand[c].verdict = "survive" /\ ~Flagged(c)

\* The alive candidates first; when none qualifies, those of any status.
Ranked ==
    LET alive == {c \in AliveIn(cand) : Selectable(c)}
    IN IF alive # {} THEN alive ELSE {c \in Born : Selectable(c)}

\* The selection drops candidates too close to one already kept, so any part
\* of at most top_k may be left.
Frontiers(S) ==
    {F \in SUBSET S : F # {} /\ Cardinality(F) <= (IF TopK = 0 THEN 1 ELSE TopK)}

FinalStatus(c, F) == IF c \in F THEN "finalized" ELSE "pruned"

NoRowYet == hyps = {}

Promotion(c) == [cand |-> c, text |-> cand[c].text, chain |-> cand[c].chain]

\* What a finalize that keeps F has written when it gets as far as the statuses
\* of the candidates W, the pool's own (done) and the rows of H.
Written(F, W, done, H) ==
    /\ cand' = [c \in Cands |->
                   IF c \in W THEN [cand[c] EXCEPT !.status = FinalStatus(c, F)] ELSE cand[c]]
    /\ pool' = IF done THEN [pool EXCEPT !.status = "finalized"] ELSE pool
    /\ hyps' = hyps \cup {Promotion(c) : c \in H}
    /\ UNCHANGED <<reviews, judged, round, job, edits, controls>>

\* One write at a time: the candidates, then the pool, then the rows.
RowsFirst(W, done, H) == done => W = Born
InOrder(W, done, H) == (done => W = Born) /\ (H # {} => done)

Finalizable ==
    /\ Known
    /\ Overlap \/ Quiet
    /\ NoRowYet
    /\ judged # {}
    /\ \A c \in AliveIn(cand) : ~Flagged(c)

\* finalize_pool, of the orchestrator and of the service: no await in either.
Finalize ==
    /\ Finalizable
    /\ \E F \in Frontiers(Ranked) : Written(F, Born, TRUE, F)

\* A write raises, or the server dies between two of them (then Crash is the
\* next step): what was written stays.
FinalizeBreaksOff ==
    /\ Finalizable
    /\ \E F \in Frontiers(Ranked), W \in SUBSET Born, done \in BOOLEAN :
          \E H \in SUBSET F : InOrder(W, done, H) /\ Written(F, W, done, H)

JobReturns(j) ==
    \/ PlanReturns(j) \/ SeedReturns(j) \/ SupervisorReturns(j) \/ ReflectionReturns(j)
    \/ RankingReturns(j) \/ EvolutionReturns(j) \/ MetaReviewReturns(j)
    \/ AgentFails(j) \/ JobBreaks(j)

Next ==
    \/ \E j \in Jobs : CreatePool(j) \/ RunRound(j) \/ JobReturns(j)
    \/ \E c \in Cands : EditCandidate(c) \/ AddUserHypothesis(c) \/ PatchCandidate(c)
    \/ Control \/ Finalize \/ FinalizeBreaksOff \/ Crash

\* The gateway's timeouts end every await, so a waiting job moves on.
Fairness == \A j \in Jobs : WF_vars(JobReturns(j))

Spec == Init /\ [][Next]_vars /\ Fairness

-----------------------------------------------------------------------------
(* Properties *)

Texts == 0..MaxEdits

CandRow == [status : {"none", "alive", "pruned", "rejected", "finalized"},
            text : Texts, chain : Texts, verdict : Verdicts \cup {"pending"},
            recheck : BOOLEAN, rerank : BOOLEAN, parents : SUBSET Cands]

Review == [cand : Cands, text : Texts, verdict : Verdicts]

Round == [number : Nat, status : {"none", "running", "completed", "failed"}]

Wait == [pc : Awaiting \cup {"idle", "succeeded", "failed", "lost"}, n : Nat,
         acts : SUBSET RoundActions, todo : SUBSET [cand : Cands, text : Texts],
         pairs : SUBSET SUBSET Cands, parents : SUBSET Cands]

Promoted == [cand : Cands, text : Texts, chain : Texts]

\* Every row and every job record has the fields and values the store allows.
TypeOK ==
    /\ pool \in [status : NotRunnable \cup {"none", "running"}, round : Nat]
    /\ cand \in [Cands -> CandRow]
    /\ reviews \subseteq Review
    /\ judged \subseteq Cands
    /\ round \in [Jobs -> Round]
    /\ job \in [Jobs -> Wait]
    /\ hyps \subseteq Promoted
    /\ edits \in 0..MaxEdits
    /\ controls \in 0..MaxControls

\* A candidate whose verdict is survive holds the very chain a reflection
\* read and passed, whatever edits and rounds crossed each other: an edit
\* takes the verdict away, and a late reflection writes its own text back.
SurvivorReviewed ==
    \A c \in Cands : cand[c].verdict = "survive" =>
        [cand |-> c, text |-> cand[c].chain, verdict |-> "survive"] \in reviews

\* Every hypothesis promoted by finalize was compared in a match and its
\* chain passed a reflection (finalize_pool, _persist_reflection).
PromotedJudgedAndReviewed ==
    \A h \in hyps :
        /\ h.cand \in judged
        /\ [cand |-> h.cand, text |-> h.chain, verdict |-> "survive"] \in reviews

\* While jobs run one at a time, the rows of hypotheses are what one selection
\* kept, of a pool that is finalized and stays so, wherever earlier finalizes
\* broke off, whatever rounds ran between them and whatever they had selected
\* (finalize_pool, of the orchestrator and of the service).
PromotionFinal ==
    hyps # {} =>
        /\ pool.status = "finalized"
        /\ Cardinality({h.cand : h \in hyps}) <= (IF TopK = 0 THEN 1 ELSE TopK)
        /\ \A g, h \in hyps : g.cand = h.cand => g = h

\* Every job that starts ends: it succeeds, fails, or dies with the process.
JobsEnd == \A j \in Jobs : Active(j) ~> ~Active(j)

\* While jobs run one at a time a terminal pool is never revived: only a
\* finalize still changes it, and a finalized pool stays so (control_pool,
\* run_round, finalize_pool).
TerminalStays ==
    [][PoolTerminal => pool' \in {pool, [pool EXCEPT !.status = "finalized"]}]_vars

\* While nobody edits during a round, the statement column and the chain of a
\* candidate say the same thing, so what finalize promotes was reviewed.
RowMatchesChain == \A c \in Cands : cand[c].text = cand[c].chain

\* The tests of user edits: an edited candidate is not finalized before a
\* reflection has seen the edited text.
PromotedTextReviewed ==
    \A h \in hyps : [cand |-> h.cand, text |-> h.text, verdict |-> "survive"] \in reviews

\* What a client that polls a job of the pool sees of it.
PoolRows ==
    [j \in Jobs |-> CASE job[j].pc = "idle" -> "none"
                      [] job[j].pc \in {"succeeded", "failed"} -> job[j].pc
                      [] OTHER -> "running"]

\* Whatever the pool's jobs, requests and deaths do to each other, the rows of
\* the jobs move forward and an outcome is final (create_pool, run_round and
\* the handlers that call them).
PoolTable == INSTANCE ResearchJobs WITH row <- PoolRows
PoolJobsKept == PoolTable!Spec
=============================================================================
