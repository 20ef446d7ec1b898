------------------------ MODULE HypothesisPoolProofs ------------------------
(***************************************************************************)
(* Theorems about HypothesisPool for any candidates, jobs and bounds.      *)
(***************************************************************************)
EXTENDS HypothesisPool, FiniteSetTheorems, TLAPS

-----------------------------------------------------------------------------
(* What a finalize writes, whole or broken off *)

Finalizing == Finalize \/ FinalizeBreaksOff

\* A whole finalize is one that got to the end: both write some statuses, then
\* the pool, then some rows of one selection (finalize_pool).
LEMMA FinalizeWrites ==
    ASSUME Finalizing
    PROVE  /\ Finalizable
           /\ \E F \in Frontiers(Ranked), W \in SUBSET Born, done \in BOOLEAN :
                 \E H \in SUBSET F : InOrder(W, done, H) /\ Written(F, W, done, H)
<1>1. CASE Finalize
  <2>1. PICK F \in Frontiers(Ranked) : Written(F, Born, TRUE, F)
    BY <1>1 DEF Finalize
  <2>2. InOrder(Born, TRUE, F)
    BY DEF InOrder
  <2>3. Born \in SUBSET Born /\ TRUE \in BOOLEAN /\ F \in SUBSET F
    OBVIOUS
  <2> QED BY <1>1, <2>1, <2>2, <2>3 DEF Finalize
<1>2. CASE FinalizeBreaksOff
  BY <1>2 DEF FinalizeBreaksOff
<1> QED BY <1>1, <1>2 DEF Finalizing

\* It changes a candidate's status and nothing else of its row, finalizes the
\* pool or leaves it, and leaves everything else alone.
LEMMA FinalizeTouches ==
    ASSUME Finalizing
    PROVE  /\ \A c \in Cands :
                 \/ cand'[c] = cand[c]
                 \/ /\ c \in Born
                    /\ \E F : cand'[c] = [cand[c] EXCEPT !.status = FinalStatus(c, F)]
           /\ pool' \in {pool, [pool EXCEPT !.status = "finalized"]}
           /\ UNCHANGED <<reviews, judged, round, job, edits, controls>>
<1>1. PICK F, W, done, H : W \subseteq Born /\ Written(F, W, done, H)
  BY FinalizeWrites
<1> QED BY <1>1 DEF Written

LEMMA FinalizeKeepsJobs == Finalize \/ FinalizeBreaksOff => job' = job
BY FinalizeTouches DEF Finalizing

-----------------------------------------------------------------------------
(* Every row and record is well formed *)

\* Whatever EvolveOrMeta decides to wait for next is a well-formed job record
\* (run_round between two awaits).
LEMMA EvolveTyped ==
    ASSUME NEW r \in Wait, NEW C
    PROVE  EvolveOrMeta(r, C) \subseteq Wait
<1>1. CASE Evolves(r, C)
  <2>1. EvolveOrMeta(r, C)
            = {[r EXCEPT !.pc = "evolve", !.parents = P] : P \in ParentSets(AliveIn(C))}
    BY <1>1 DEF EvolveOrMeta
  <2>2. ASSUME NEW P \in ParentSets(AliveIn(C))
        PROVE  [r EXCEPT !.pc = "evolve", !.parents = P] \in Wait
    <3>1. P \subseteq Cands
      BY DEF ParentSets, AliveIn
    <3> QED BY <3>1 DEF Wait, Awaiting
  <2> QED BY <2>1, <2>2
<1>2. CASE ~Evolves(r, C)
  <2>1. EvolveOrMeta(r, C) = {[r EXCEPT !.pc = "meta"]}
    BY <1>2 DEF EvolveOrMeta
  <2>2. [r EXCEPT !.pc = "meta"] \in Wait
    BY DEF Wait, Awaiting
  <2> QED BY <2>1, <2>2
<1> QED BY <1>1, <1>2

\* The same of the choice between ranking and what follows it.
LEMMA RankTyped ==
    ASSUME NEW r \in Wait, NEW C
    PROVE  RankOrLater(r, C) \subseteq Wait
<1> DEFINE ranks == "rank" \in r.acts /\ Cardinality(Survivors(C)) >= 2
<1>1. CASE ranks
  <2>1. RankOrLater(r, C)
            = {[r EXCEPT !.pc = "rank", !.pairs = P] : P \in Pairings(Survivors(C))}
    BY <1>1 DEF RankOrLater
  <2>2. ASSUME NEW P \in Pairings(Survivors(C))
        PROVE  [r EXCEPT !.pc = "rank", !.pairs = P] \in Wait
    <3>1. P \in SUBSET SUBSET Cands
      BY DEF Pairings, Pairs, Survivors, AliveIn
    <3> QED BY <3>1 DEF Wait, Awaiting
  <2> QED BY <2>1, <2>2
<1>2. CASE ~ranks
  <2>1. RankOrLater(r, C) = EvolveOrMeta(r, C)
    BY <1>2 DEF RankOrLater
  <2> QED BY <2>1, EvolveTyped
<1> QED BY <1>1, <1>2

\* The same of the choice between reflecting and what follows it.
LEMMA ReflectTyped ==
    ASSUME NEW r \in Wait, NEW C \in [Cands -> CandRow]
    PROVE  ReflectOrLater(r, C) \subseteq Wait
<1> DEFINE reflects == "reflect" \in r.acts /\ AliveIn(C) # {}
           todo == {[cand |-> c, text |-> C[c].chain] : c \in AliveIn(C)}
<1>1. CASE reflects
  <2>1. ReflectOrLater(r, C) = {[r EXCEPT !.pc = "reflect", !.todo = todo]}
    BY <1>1 DEF ReflectOrLater
  <2>2. todo \subseteq [cand : Cands, text : Texts]
    BY DEF AliveIn, CandRow
  <2>3. [r EXCEPT !.pc = "reflect", !.todo = todo] \in Wait
    BY <2>2 DEF Wait, Awaiting
  <2> QED BY <2>1, <2>3
<1>2. CASE ~reflects
  <2>1. ReflectOrLater(r, C) = RankOrLater(r, C)
    BY <1>2 DEF ReflectOrLater
  <2> QED BY <2>1, RankTyped
<1> QED BY <1>1, <1>2

\* A candidate row as it is first written is a row of the table.
LEMMA NewCandTyped ==
    ASSUME NEW t \in Texts, NEW b \in BOOLEAN, NEW ps \in SUBSET Cands
    PROVE  NewCand(t, b, ps) \in CandRow
BY DEF NewCand, CandRow

LEMMA FreshTyped ==
    ASSUME NEW ps \in SUBSET Cands
    PROVE  NewCand(0, FALSE, ps) \in CandRow /\ NewCand(0, TRUE, ps) \in CandRow
<1>1. 0 \in Texts
    BY PoolAssumption DEF PoolAssumption, Texts
<1> QED BY <1>1 DEF NewCand, CandRow

\* Ending a job, or beginning a round, leaves well-formed records.
LEMMA EndTyped ==
    ASSUME TypeOK, NEW j \in Jobs, NEW result \in {"succeeded", "failed"}, EndJob(j, result)
    PROVE  job' \in [Jobs -> Wait]
BY DEF TypeOK, EndJob, IdleJob, Wait

LEMMA BeginTyped ==
    ASSUME TypeOK, NEW j \in Jobs, BeginRound(j)
    PROVE  job' \in [Jobs -> Wait] /\ round' \in [Jobs -> Round]
<1> DEFINE n == pool.round + 1
<1>1. job[j] \in Wait /\ n \in Nat
    BY DEF TypeOK
<1>2. CASE Runnable
  <2>1. [IdleJob EXCEPT !.pc = "sup", !.n = n] \in Wait
    BY <1>1 DEF IdleJob, Wait, Awaiting
  <2>2. [number |-> n, status |-> "running"] \in Round
    BY <1>1 DEF Round
  <2> QED BY <1>2, <2>1, <2>2 DEF BeginRound, TypeOK
<1>3. CASE ~Runnable
  <2>1. [job[j] EXCEPT !.pc = "failed"] \in Wait
    BY <1>1 DEF Wait
  <2> QED BY <1>3, <2>1 DEF BeginRound, TypeOK
<1> QED BY <1>2, <1>3

\* The empty database is well formed.
LEMMA TypeInit == Init => TypeOK
<1> SUFFICES ASSUME Init PROVE TypeOK
    OBVIOUS
<1>1. IdleJob \in Wait
    BY DEF IdleJob, Wait
<1>2. 0 \in 0..MaxEdits /\ 0 \in 0..MaxControls
    BY PoolAssumption DEF PoolAssumption
<1>3. cand \in [Cands -> CandRow]
  <2>1. NoCand \in CandRow
    BY <1>2 DEF NoCand, CandRow, Texts
  <2> QED BY <2>1 DEF Init
<1> QED BY <1>1, <1>2, <1>3 DEF Init, TypeOK, Round, Review, Promoted

\* The partial updates of a row give rows: a mark put on it, a text written
\* over it, a status set.
LEMMA MarkTyped ==
    ASSUME NEW r \in CandRow, NEW b \in BOOLEAN, NEW d \in BOOLEAN
    PROVE  [r EXCEPT !.recheck = b, !.rerank = d] \in CandRow
BY DEF CandRow

LEMMA RetextTyped ==
    ASSUME NEW r \in CandRow, NEW t \in Texts
    PROVE  [r EXCEPT !.status = "alive", !.text = t, !.chain = t] \in CandRow
BY DEF CandRow

LEMMA StatusTyped ==
    ASSUME NEW r \in CandRow, NEW st \in {"alive", "pruned", "rejected", "finalized"}
    PROVE  [r EXCEPT !.status = st] \in CandRow
BY DEF CandRow

\* Every row a request or a returning agent writes is a row of the table.
LEMMA EditTyped ==
    ASSUME TypeOK, NEW c \in Cands, edits < MaxEdits
    PROVE  /\ edits + 1 \in Texts
           /\ Edited(c) \in [Cands -> CandRow]
           /\ \A reset \in BOOLEAN : [cand EXCEPT ![c] = Patched(@, reset)] \in [Cands -> CandRow]
<1>1. edits + 1 \in Texts /\ MaxEdits \in Nat
    BY PoolAssumption DEF TypeOK, Texts, PoolAssumption
<1>2. \A d \in Cands : cand[d] \in CandRow /\ cand[d].parents \in SUBSET Cands
    BY DEF TypeOK, CandRow
<1>3. \A d \in Cands : NewCand(edits + 1, TRUE, cand[d].parents) \in CandRow
    BY <1>1, <1>2, NewCandTyped
<1>4. Edited(c) \in [Cands -> CandRow]
  <2>1. \A d \in Cands : [cand[d] EXCEPT !.recheck = TRUE, !.rerank = TRUE] \in CandRow
    BY <1>2, MarkTyped
  <2> QED BY <1>2, <1>3, <2>1 DEF Edited
<1>5. ASSUME NEW reset \in BOOLEAN
      PROVE  [cand EXCEPT ![c] = Patched(@, reset)] \in [Cands -> CandRow]
  <2>1. [cand[c] EXCEPT !.status = "alive", !.text = edits + 1, !.chain = edits + 1] \in CandRow
    BY <1>1, <1>2, RetextTyped
  <2>2. Patched(cand[c], reset) \in CandRow
    BY <1>3, <2>1 DEF Patched
  <2> QED BY <2>2 DEF TypeOK
<1> QED BY <1>1, <1>4, <1>5

LEMMA ReflectionTyped ==
    ASSUME NEW C \in [Cands -> CandRow], NEW s \in [cand : Cands, text : Texts],
           NEW v \in Verdicts
    PROVE  Reflected(C, s, v) \in [Cands -> CandRow]
<1>1. VerdictStatus(v) \in {"alive", "rejected", "pruned"}
    BY DEF VerdictStatus
<1>2. C[s.cand] \in CandRow /\ s.text \in Texts
    OBVIOUS
<1>3. [C[s.cand] EXCEPT !.status = VerdictStatus(v), !.chain = s.text, !.verdict = v,
                        !.recheck = FALSE, !.rerank = (v = "survive")] \in CandRow
    BY <1>1, <1>2 DEF CandRow
<1> QED BY <1>3 DEF Reflected

\* Every step of a job or a request keeps the rows well formed.
LEMMA TypeNext == TypeOK /\ [Next]_vars => TypeOK'
<1> SUFFICES ASSUME TypeOK, [Next]_vars PROVE TypeOK'
    OBVIOUS
<1> USE DEF TypeOK
<1>1. ASSUME NEW j \in Jobs, CreatePool(j) PROVE TypeOK'
  <2>1. [job[j] EXCEPT !.pc = "plan"] \in Wait
    BY DEF Wait, Awaiting
  <2> QED BY <1>1, <2>1 DEF CreatePool, NotRunnable
<1>2. ASSUME NEW j \in Jobs, RunRound(j) PROVE TypeOK'
    BY <1>2, BeginTyped DEF RunRound
<1>3. ASSUME NEW j \in Jobs, PlanReturns(j) PROVE TypeOK'
  <2>1. \A st \in {"gen", "succeeded"} : [job[j] EXCEPT !.pc = st] \in Wait
    BY DEF Wait, Awaiting
  <2>2. job' \in [Jobs -> Wait]
    BY <1>3, <2>1 DEF PlanReturns
  <2>3. pool' \in [status : NotRunnable \cup {"none", "running"}, round : Nat]
    BY <1>3 DEF PlanReturns, DecisionStatuses, NotRunnable, Terminal
  <2> QED BY <1>3, <2>2, <2>3 DEF PlanReturns
<1>4. ASSUME NEW j \in Jobs, SeedReturns(j) PROVE TypeOK'
  <2>1. NewCand(0, FALSE, {}) \in CandRow
    BY FreshTyped
  <2>2. cand' \in [Cands -> CandRow]
    BY <1>4, <2>1 DEF SeedReturns, Cands
  <2>3. job' \in [Jobs -> Wait] /\ round' \in [Jobs -> Round]
    BY <1>4, BeginTyped DEF SeedReturns
  <2> QED BY <1>4, <2>2, <2>3 DEF SeedReturns
<1>5. ASSUME NEW j \in Jobs, SupervisorReturns(j) PROVE TypeOK'
  <2>1. CASE \E st \in DecisionStatuses :
                /\ pool' = [status |-> st, round |-> job[j].n]
                /\ EndRound(j, "completed")
                /\ EndJob(j, "succeeded")
    <3>1. job' \in [Jobs -> Wait]
      BY <2>1, EndTyped
    <3>2. round' \in [Jobs -> Round]
      BY <2>1 DEF EndRound, Round
    <3>3. pool' \in [status : NotRunnable \cup {"none", "running"}, round : Nat]
      BY <2>1 DEF DecisionStatuses, NotRunnable, Terminal, Wait
    <3> QED BY <1>5, <3>1, <3>2, <3>3 DEF SupervisorReturns
  <2>2. CASE \E acts \in SUBSET RoundActions :
                /\ \E r \in ReflectOrLater([job[j] EXCEPT !.acts = acts], cand) :
                      job' = [job EXCEPT ![j] = r]
                /\ UNCHANGED <<pool, round>>
    <3>1. PICK acts \in SUBSET RoundActions :
              \E r \in ReflectOrLater([job[j] EXCEPT !.acts = acts], cand) :
                  job' = [job EXCEPT ![j] = r]
      BY <2>2
    <3>2. [job[j] EXCEPT !.acts = acts] \in Wait
      BY DEF Wait
    <3>3. job' \in [Jobs -> Wait]
      BY <3>1, <3>2, ReflectTyped
    <3> QED BY <1>5, <2>2, <3>3 DEF SupervisorReturns
  <2> QED BY <1>5, <2>1, <2>2 DEF SupervisorReturns
<1>6. ASSUME NEW j \in Jobs, ReflectionReturns(j) PROVE TypeOK'
  <2>1. PICK s \in job[j].todo, v \in Verdicts :
           /\ cand' = Reflected(cand, s, v)
           /\ reviews' = reviews \cup {[cand |-> s.cand, text |-> s.text, verdict |-> v]}
           /\ \E r \in (IF [job[j] EXCEPT !.todo = @ \ {s}].todo # {}
                        THEN {[job[j] EXCEPT !.todo = @ \ {s}]}
                        ELSE RankOrLater([job[j] EXCEPT !.todo = @ \ {s}], Reflected(cand, s, v))) :
                 job' = [job EXCEPT ![j] = r]
    BY <1>6 DEF ReflectionReturns
  <2>2. s \in [cand : Cands, text : Texts]
    BY DEF Wait
  <2>3. cand' \in [Cands -> CandRow]
    BY <2>1, <2>2, ReflectionTyped
  <2>4. reviews' \subseteq Review
    BY <2>1, <2>2 DEF Review
  <2>5. [job[j] EXCEPT !.todo = @ \ {s}] \in Wait
    BY DEF Wait
  <2>6. job' \in [Jobs -> Wait]
    BY <2>1, <2>5, RankTyped
  <2> QED BY <1>6, <2>3, <2>4, <2>6 DEF ReflectionReturns
<1>7. ASSUME NEW j \in Jobs, RankingReturns(j) PROVE TypeOK'
  <2>1. PICK p \in job[j].pairs :
           /\ cand' = [c \in Cands |-> [cand[c] EXCEPT !.rerank = @ /\ c \notin p]]
           /\ judged' = judged \cup p
           /\ \E C : \E r \in (IF [job[j] EXCEPT !.pairs = @ \ {p}].pairs # {}
                        THEN {[job[j] EXCEPT !.pairs = @ \ {p}]}
                        ELSE EvolveOrMeta([job[j] EXCEPT !.pairs = @ \ {p}], C)) :
                 job' = [job EXCEPT ![j] = r]
    BY <1>7 DEF RankingReturns
  <2>2. p \subseteq Cands
    BY DEF Wait
  <2>3. cand' \in [Cands -> CandRow]
    <3>1. ASSUME NEW r \in CandRow, NEW b \in BOOLEAN
          PROVE  [r EXCEPT !.rerank = @ /\ b] \in CandRow
      BY DEF CandRow
    <3> QED BY <2>1, <3>1
  <2>4. [job[j] EXCEPT !.pairs = @ \ {p}] \in Wait
    BY DEF Wait
  <2>5. job' \in [Jobs -> Wait]
    BY <2>1, <2>4, EvolveTyped
  <2> QED BY <1>7, <2>1, <2>2, <2>3, <2>5 DEF RankingReturns
<1>8. ASSUME NEW j \in Jobs, EvolutionReturns(j) PROVE TypeOK'
  <2>0. PICK K \in SUBSET (ChildIds \ Born) :
           \E ps \in [K -> SUBSET job[j].parents \ {{}}] :
              cand' = [c \in Cands |-> IF c \in K THEN NewCand(0, FALSE, ps[c]) ELSE cand[c]]
    BY <1>8 DEF EvolutionReturns
  <2>1. PICK ps \in [K -> SUBSET job[j].parents \ {{}}] :
           cand' = [c \in Cands |-> IF c \in K THEN NewCand(0, FALSE, ps[c]) ELSE cand[c]]
    BY <2>0
  <2>2. ASSUME NEW c \in K PROVE NewCand(0, FALSE, ps[c]) \in CandRow
    <3>1. ps[c] \in SUBSET Cands
      BY DEF Wait
    <3> QED BY <3>1, FreshTyped
  <2>3. cand' \in [Cands -> CandRow]
    BY <2>1, <2>2
  <2>4. [job[j] EXCEPT !.pc = "meta"] \in Wait
    BY DEF Wait, Awaiting
  <2> QED BY <1>8, <2>3, <2>4 DEF EvolutionReturns
<1>9. ASSUME NEW j \in Jobs, MetaReviewReturns(j) PROVE TypeOK'
  <2>1. cand' \in [Cands -> CandRow]
    BY <1>9, StatusTyped DEF MetaReviewReturns
  <2>2. job' \in [Jobs -> Wait]
    BY <1>9, EndTyped DEF MetaReviewReturns
  <2>3. round' \in [Jobs -> Round]
    BY <1>9 DEF MetaReviewReturns, EndRound, Round
  <2>4. pool' \in [status : NotRunnable \cup {"none", "running"}, round : Nat]
    BY <1>9 DEF MetaReviewReturns, RoundEndStatus, NotRunnable, Terminal, Wait
  <2> QED BY <1>9, <2>1, <2>2, <2>3, <2>4 DEF MetaReviewReturns
<1>10. ASSUME NEW j \in Jobs, AgentFails(j) PROVE TypeOK'
  <2>1. job' \in [Jobs -> Wait]
    BY <1>10, EndTyped DEF AgentFails
  <2>2. round' \in [Jobs -> Round]
    BY <1>10 DEF AgentFails, EndRound, Round
  <2> QED BY <1>10, <2>1, <2>2 DEF AgentFails, NotRunnable, Terminal
<1>18. ASSUME NEW j \in Jobs, JobBreaks(j) PROVE TypeOK'
    BY <1>18, EndTyped DEF JobBreaks
<1>11. ASSUME Crash PROVE TypeOK'
  <2>1. [IdleJob EXCEPT !.pc = "lost"] \in Wait
    BY DEF IdleJob, Wait
  <2> QED BY <1>11, <2>1 DEF Crash
<1>12. ASSUME Control PROVE TypeOK'
  <2>1. controls' \in 0..MaxControls
    BY <1>12, PoolAssumption DEF Control, PoolAssumption
  <2>2. pool' \in [status : NotRunnable \cup {"none", "running"}, round : Nat]
    BY <1>12 DEF Control, ControlStatuses, NotRunnable, Terminal
  <2> QED BY <1>12, <2>1, <2>2 DEF Control
<1>13. ASSUME NEW c \in Cands, EditCandidate(c) PROVE TypeOK'
  <2>1. edits < MaxEdits
    BY <1>13 DEF EditCandidate, MayEdit
  <2> QED BY <1>13, <2>1, EditTyped DEF EditCandidate, Texts
<1>14. ASSUME NEW c \in Cands, AddUserHypothesis(c) PROVE TypeOK'
  <2>1. NewCand(0, TRUE, {}) \in CandRow
    BY FreshTyped
  <2> QED BY <1>14, <2>1 DEF AddUserHypothesis
<1>15. ASSUME NEW c \in Cands, PatchCandidate(c) PROVE TypeOK'
  <2>1. edits < MaxEdits
    BY <1>15 DEF PatchCandidate, MayEdit
  <2>2. cand' \in [Cands -> CandRow]
    BY <1>15, <2>1, EditTyped, PoolAssumption DEF PatchCandidate, PoolAssumption
  <2> QED BY <1>15, <2>1, <2>2, EditTyped DEF PatchCandidate, Texts
<1>16. ASSUME Finalizing PROVE TypeOK'
  <2>1. PICK F \in Frontiers(Ranked), W \in SUBSET Born, done \in BOOLEAN :
          \E H \in SUBSET F : Written(F, W, done, H)
    BY <1>16, FinalizeWrites
  <2>2. PICK H \in SUBSET F : Written(F, W, done, H)
    BY <2>1
  <2>3. cand' \in [Cands -> CandRow]
    BY <2>2, StatusTyped DEF Written, FinalStatus
  <2>4. \A c \in F : c \in Cands
    BY DEF Frontiers, Ranked, AliveIn, Born
  <2>5. hyps' \subseteq Promoted
    BY <2>2, <2>4 DEF Written, Promotion, Promoted, CandRow
  <2> QED BY <1>16, <2>3, <2>5, FinalizeTouches DEF NotRunnable, Terminal
<1>17. CASE UNCHANGED vars
    BY <1>17 DEF vars
<1> QED
    BY <1>1, <1>2, <1>3, <1>4, <1>5, <1>6, <1>7, <1>8, <1>9, <1>10, <1>11, <1>12,
       <1>13, <1>14, <1>15, <1>16, <1>17, <1>18 DEF Next, JobReturns, Finalizing

\* Every row and job record of a reachable state is well formed.
THEOREM PoolTyped == Spec => []TypeOK
BY TypeInit, TypeNext, PTL DEF Spec

-----------------------------------------------------------------------------
(* What a job waits for next, and how a round moves forward *)

\* After evolution comes the meta review, and the choice is between the two.
LEMMA EvolveGoes ==
    ASSUME NEW r \in Wait, NEW C, NEW w \in EvolveOrMeta(r, C)
    PROVE  w.pc \in {"evolve", "meta"}
<1>1. CASE Evolves(r, C)
  <2>1. PICK P \in ParentSets(AliveIn(C)) : w = [r EXCEPT !.pc = "evolve", !.parents = P]
    BY <1>1 DEF EvolveOrMeta
  <2> QED BY <2>1 DEF Wait
<1>2. CASE ~Evolves(r, C)
  <2>1. w = [r EXCEPT !.pc = "meta"]
    BY <1>2 DEF EvolveOrMeta
  <2> QED BY <2>1 DEF Wait
<1> QED BY <1>1, <1>2

LEMMA RankGoes ==
    ASSUME NEW r \in Wait, NEW C, NEW w \in RankOrLater(r, C)
    PROVE  w.pc \in {"rank", "evolve", "meta"}
<1> DEFINE ranks == "rank" \in r.acts /\ Cardinality(Survivors(C)) >= 2
<1>1. CASE ranks
  <2>1. PICK P \in Pairings(Survivors(C)) : w = [r EXCEPT !.pc = "rank", !.pairs = P]
    BY <1>1 DEF RankOrLater
  <2> QED BY <2>1 DEF Wait
<1>2. CASE ~ranks
  <2>1. w \in EvolveOrMeta(r, C)
    BY <1>2 DEF RankOrLater
  <2> QED BY <2>1, EvolveGoes
<1> QED BY <1>1, <1>2

\* A reflection loop begins with what the alive rows hold when it begins.
LEMMA ReflectGoes ==
    ASSUME NEW r \in Wait, NEW C, NEW w \in ReflectOrLater(r, C)
    PROVE  /\ w.pc \in {"reflect", "rank", "evolve", "meta"}
           /\ w.pc = "reflect" =>
                  w.todo = {[cand |-> c, text |-> C[c].chain] : c \in AliveIn(C)}
<1> DEFINE reflects == "reflect" \in r.acts /\ AliveIn(C) # {}
           todo == {[cand |-> c, text |-> C[c].chain] : c \in AliveIn(C)}
<1>1. CASE reflects
  <2>1. w = [r EXCEPT !.pc = "reflect", !.todo = todo]
    BY <1>1 DEF ReflectOrLater
  <2> HIDE DEF todo
  <2>2. w.pc = "reflect" /\ w.todo = todo
    BY <2>1 DEF Wait
  <2> QED BY <2>2 DEF todo
<1>2. CASE ~reflects
  <2>1. w \in RankOrLater(r, C)
    BY <1>2 DEF ReflectOrLater
  <2> QED BY <2>1, RankGoes
<1> QED BY <1>1, <1>2

\* The awaits of a job in their order; a job that ended is past them all.
Stage(pc) ==
    CASE pc = "idle" -> 0 [] pc = "plan" -> 1 [] pc = "gen" -> 2 [] pc = "sup" -> 3 [] pc = "reflect" -> 4
      [] pc = "rank" -> 5 [] pc = "evolve" -> 6 [] pc = "meta" -> 7 [] OTHER -> 8

\* What is left to do shrinks.
Shrinks(T, S) == T \subseteq S /\ T # S

\* A job goes on to a later await, or to the same one with less left to do.
Forward(j) ==
    \/ Stage(job[j].pc) < Stage(job'[j].pc)
    \/ /\ job'[j].pc = job[j].pc
       /\ \/ job[j].pc = "gen" /\ Shrinks(SeedIds \ Born', SeedIds \ Born)
          \/ job[j].pc = "reflect" /\ Shrinks(job'[j].todo, job[j].todo)
          \/ job[j].pc = "rank" /\ Shrinks(job'[j].pairs, job[j].pairs)

\* How each action of a job j leaves the jobs: it moves j forward and no other.
LEMMA ReturnMovesForward ==
    ASSUME TypeOK, NEW j \in Jobs, JobReturns(j)
    PROVE  /\ Forward(j) /\ Active(j)
           /\ \A k \in Jobs \ {j} : job'[k] = job[k]
<1>0. job \in [Jobs -> Wait] /\ job[j] \in Wait
  BY DEF TypeOK
<1> DEFINE Moved == /\ Forward(j) /\ Active(j)
                    /\ \A k \in Jobs \ {j} : job'[k] = job[k]
<1>1. ASSUME NEW result \in {"succeeded", "failed"}, EndJob(j, result), Active(j) PROVE Moved
  <2>1. job'[j].pc = result /\ \A k \in Jobs \ {j} : job'[k] = job[k]
    BY <1>0, <1>1 DEF EndJob, IdleJob
  <2>2. Stage(job[j].pc) < Stage(job'[j].pc)
    BY <1>1, <2>1 DEF Stage, Active, Awaiting
  <2> QED BY <1>1, <2>1, <2>2 DEF Forward
<1>2. CASE PlanReturns(j)
  <2>1. \E st \in {"gen", "succeeded"} : job' = [job EXCEPT ![j].pc = st]
    BY <1>2 DEF PlanReturns
  <2>2. job'[j].pc \in {"gen", "succeeded"} /\ \A k \in Jobs \ {j} : job'[k] = job[k]
    BY <1>0, <2>1 DEF Wait
  <2>3. job[j].pc = "plan"
    BY <1>2 DEF PlanReturns
  <2> QED BY <2>2, <2>3 DEF Forward, Stage, Active, Awaiting
<1>3. CASE SeedReturns(j)
  <2>1. PICK c \in SeedIds \ Born :
          /\ cand' = [cand EXCEPT ![c] = NewCand(0, FALSE, {})]
          /\ IF SeedIds \subseteq Born \cup {c} THEN BeginRound(j) ELSE UNCHANGED <<job, round>>
    BY <1>3 DEF SeedReturns
  <2>2. job[j].pc = "gen"
    BY <1>3 DEF SeedReturns
  <2>3. CASE BeginRound(j)
    <3>1. job'[j].pc \in {"sup", "failed"} /\ \A k \in Jobs \ {j} : job'[k] = job[k]
      BY <1>0, <2>3 DEF BeginRound, IdleJob, Wait
    <3> QED BY <2>2, <3>1 DEF Forward, Stage, Active, Awaiting
  <2>4. CASE UNCHANGED <<job, round>>
    <3>1. c \in Cands
      BY DEF Cands
    <3>2. c \in Born' /\ \A d \in Born : d \in Born'
      BY <2>1, <3>1 DEF TypeOK, Born, NewCand
    <3>3. Shrinks(SeedIds \ Born', SeedIds \ Born)
      BY <2>1, <3>2 DEF Shrinks
    <3> QED BY <2>2, <2>4, <3>3 DEF Forward, Active, Awaiting
  <2> QED BY <2>1, <2>3, <2>4
<1>4. CASE SupervisorReturns(j)
  <2>1. job[j].pc = "sup" /\ Active(j)
    BY <1>4 DEF SupervisorReturns, Active, Awaiting
  <2>2. CASE EndJob(j, "succeeded")
    BY <1>1, <2>1, <2>2
  <2>3. ASSUME NEW acts \in SUBSET RoundActions,
               NEW r \in ReflectOrLater([job[j] EXCEPT !.acts = acts], cand),
               job' = [job EXCEPT ![j] = r]
        PROVE  Moved
    <3>1. [job[j] EXCEPT !.acts = acts] \in Wait
      BY <1>0 DEF Wait
    <3>2. r.pc \in {"reflect", "rank", "evolve", "meta"}
      BY <3>1, ReflectGoes
    <3>3. job'[j] = r /\ \A k \in Jobs \ {j} : job'[k] = job[k]
      BY <1>0, <2>3
    <3> QED BY <2>1, <3>2, <3>3 DEF Forward, Stage
  <2> QED BY <1>4, <2>2, <2>3 DEF SupervisorReturns
<1>5. CASE ReflectionReturns(j)
  <2>1. PICK s \in job[j].todo, v \in Verdicts :
          \E r \in (IF [job[j] EXCEPT !.todo = @ \ {s}].todo # {}
                    THEN {[job[j] EXCEPT !.todo = @ \ {s}]}
                    ELSE RankOrLater([job[j] EXCEPT !.todo = @ \ {s}], Reflected(cand, s, v))) :
             job' = [job EXCEPT ![j] = r]
    BY <1>5 DEF ReflectionReturns
  <2> DEFINE left == [job[j] EXCEPT !.todo = @ \ {s}]
  <2>2. left \in Wait /\ left.pc = job[j].pc /\ left.todo = job[j].todo \ {s}
    BY <1>0 DEF Wait
  <2>3. PICK r : /\ job' = [job EXCEPT ![j] = r]
                 /\ r = left \/ r \in RankOrLater(left, Reflected(cand, s, v))
    BY <2>1
  <2>4. job[j].pc = "reflect"
    BY <1>5 DEF ReflectionReturns
  <2>5. job'[j] = r /\ \A k \in Jobs \ {j} : job'[k] = job[k]
    BY <1>0, <2>3
  <2>6. r = left \/ r.pc \in {"rank", "evolve", "meta"}
    BY <2>2, <2>3, RankGoes
  <2> HIDE DEF left
  <2>7. CASE r = left
    BY <2>2, <2>4, <2>5, <2>7 DEF Forward, Shrinks, Active, Awaiting
  <2>8. CASE r.pc \in {"rank", "evolve", "meta"}
    BY <2>4, <2>5, <2>8 DEF Forward, Stage, Active, Awaiting
  <2> QED BY <2>6, <2>7, <2>8
<1>6. CASE RankingReturns(j)
  <2>1. PICK p \in job[j].pairs :
          \E C : \E r \in (IF [job[j] EXCEPT !.pairs = @ \ {p}].pairs # {}
                    THEN {[job[j] EXCEPT !.pairs = @ \ {p}]}
                    ELSE EvolveOrMeta([job[j] EXCEPT !.pairs = @ \ {p}], C)) :
             job' = [job EXCEPT ![j] = r]
    BY <1>6 DEF RankingReturns
  <2> DEFINE left == [job[j] EXCEPT !.pairs = @ \ {p}]
  <2>2. left \in Wait /\ left.pc = job[j].pc /\ left.pairs = job[j].pairs \ {p}
    BY <1>0 DEF Wait
  <2>3. PICK C, r : /\ job' = [job EXCEPT ![j] = r]
                    /\ r = left \/ r \in EvolveOrMeta(left, C)
    BY <2>1
  <2>4. job[j].pc = "rank"
    BY <1>6 DEF RankingReturns
  <2>5. job'[j] = r /\ \A k \in Jobs \ {j} : job'[k] = job[k]
    BY <1>0, <2>3
  <2>6. r = left \/ r.pc \in {"evolve", "meta"}
    BY <2>2, <2>3, EvolveGoes
  <2> HIDE DEF left
  <2>7. CASE r = left
    BY <2>2, <2>4, <2>5, <2>7 DEF Forward, Shrinks, Active, Awaiting
  <2>8. CASE r.pc \in {"evolve", "meta"}
    BY <2>4, <2>5, <2>8 DEF Forward, Stage, Active, Awaiting
  <2> QED BY <2>6, <2>7, <2>8
<1>7. CASE EvolutionReturns(j)
  <2>1. job[j].pc = "evolve" /\ job' = [job EXCEPT ![j].pc = "meta"]
    BY <1>7 DEF EvolutionReturns
  <2>2. job'[j].pc = "meta" /\ \A k \in Jobs \ {j} : job'[k] = job[k]
    BY <1>0, <2>1 DEF Wait
  <2> QED BY <2>1, <2>2 DEF Forward, Stage, Active, Awaiting
<1>8. CASE MetaReviewReturns(j)
  BY <1>1, <1>8 DEF MetaReviewReturns, Active, Awaiting
<1>9. CASE AgentFails(j)
  BY <1>1, <1>9 DEF AgentFails
<1>10. CASE JobBreaks(j)
  BY <1>1, <1>10 DEF JobBreaks
<1> QED BY <1>2, <1>3, <1>4, <1>5, <1>6, <1>7, <1>8, <1>9, <1>10 DEF JobReturns

-----------------------------------------------------------------------------
(* The verdict on a candidate is a verdict on the chain it holds.  The      *)
(* invariant is inductive: only a reflection sets the verdict to survive,   *)
(* and it writes the chain it judged in the same step; an edit that writes  *)
(* another chain takes the verdict away.  A patch that keeps the verdict    *)
(* (reset_review_state = FALSE) is the one step that breaks it, so the      *)
(* theorems below assume the endpoint is not called that way.               *)

\* A step that neither grants a verdict nor touches the chain of a survivor.
LEMMA KeepReviewed ==
    ASSUME SurvivorReviewed, reviews \subseteq reviews',
           \A c \in Cands : cand'[c].verdict = "survive" =>
               cand[c].verdict = "survive" /\ cand'[c].chain = cand[c].chain
    PROVE  SurvivorReviewed'
BY DEF SurvivorReviewed

\* Only a reflection grants the verdict, and on the chain it writes back.
LEMMA ReviewedNext ==
    ASSUME FALSE \notin PatchResets, TypeOK, SurvivorReviewed, [Next]_vars
    PROVE  SurvivorReviewed'
<1> DEFINE Keeps == /\ reviews \subseteq reviews'
                    /\ \A c \in Cands : cand'[c].verdict = "survive" =>
                           cand[c].verdict = "survive" /\ cand'[c].chain = cand[c].chain
<1>0. \A c \in Cands : cand[c] \in CandRow
    BY DEF TypeOK
<1>1. ASSUME UNCHANGED <<cand, reviews>> PROVE Keeps
    BY <1>1
<1>2. ASSUME NEW j \in Jobs, SeedReturns(j) PROVE Keeps
    BY <1>2 DEF NewCand, SeedReturns, TypeOK
<1>3. ASSUME NEW j \in Jobs, ReflectionReturns(j) PROVE SurvivorReviewed'
  <2>1. PICK s \in job[j].todo, v \in Verdicts :
           /\ cand' = Reflected(cand, s, v)
           /\ reviews' = reviews \cup {[cand |-> s.cand, text |-> s.text, verdict |-> v]}
    BY <1>3 DEF ReflectionReturns
  <2>2. s.cand \in Cands
    BY DEF TypeOK, Wait
  <2>3. cand'[s.cand].verdict = v /\ cand'[s.cand].chain = s.text
    BY <1>0, <2>1, <2>2 DEF Reflected, TypeOK, CandRow
  <2>4. \A c \in Cands : c # s.cand => cand'[c] = cand[c]
    BY <2>1, <2>2 DEF Reflected, TypeOK
  <2> SUFFICES ASSUME NEW c \in Cands, cand'[c].verdict = "survive"
               PROVE  [cand |-> c, text |-> cand'[c].chain, verdict |-> "survive"] \in reviews'
    BY DEF SurvivorReviewed
  <2>5. CASE c = s.cand
    BY <2>1, <2>3, <2>5
  <2>6. CASE c # s.cand
    BY <2>1, <2>4, <2>6 DEF SurvivorReviewed
  <2> QED BY <2>5, <2>6
<1>4. ASSUME NEW j \in Jobs, RankingReturns(j) PROVE Keeps
  <2>1. ASSUME NEW r \in CandRow, NEW b \in BOOLEAN
        PROVE  [r EXCEPT !.rerank = @ /\ b].verdict = r.verdict
               /\ [r EXCEPT !.rerank = @ /\ b].chain = r.chain
    BY DEF CandRow
  <2>2. PICK p : cand' = [c \in Cands |-> [cand[c] EXCEPT !.rerank = @ /\ c \notin p]]
    BY <1>4 DEF RankingReturns
  <2>3. ASSUME NEW c \in Cands
        PROVE  cand'[c].verdict = cand[c].verdict /\ cand'[c].chain = cand[c].chain
    <3>1. cand'[c] = [cand[c] EXCEPT !.rerank = @ /\ (c \notin p)]
      BY <2>2
    <3>2. (c \notin p) \in BOOLEAN /\ cand[c] \in CandRow
      BY <1>0
    <3> QED BY <2>1, <3>1, <3>2
  <2>4. reviews' = reviews
    BY <1>4 DEF RankingReturns
  <2> QED BY <2>3, <2>4
<1>5. ASSUME NEW j \in Jobs, EvolutionReturns(j) PROVE Keeps
    BY <1>5 DEF NewCand, EvolutionReturns
<1>6. ASSUME NEW j \in Jobs, MetaReviewReturns(j) PROVE Keeps
  <2>1. \A c \in Cands : cand'[c] = cand[c] \/ cand'[c] = [cand[c] EXCEPT !.status = "pruned"]
    BY <1>6 DEF MetaReviewReturns
  <2> QED BY <1>0, <1>6, <2>1 DEF MetaReviewReturns, CandRow
<1>7. ASSUME NEW c \in Cands, EditCandidate(c) PROVE Keeps
  <2>1. cand'[c].verdict = "pending"
    BY <1>7 DEF NewCand, EditCandidate, Edited
  <2>2. \A d \in Cands : d # c =>
           cand'[d].verdict = cand[d].verdict /\ cand'[d].chain = cand[d].chain
    BY <1>0, <1>7 DEF EditCandidate, Edited, CandRow
  <2> QED BY <1>7, <2>1, <2>2 DEF EditCandidate
<1>8. ASSUME NEW c \in Cands, AddUserHypothesis(c) PROVE Keeps
    BY <1>8 DEF NewCand, AddUserHypothesis, TypeOK
<1>9. ASSUME NEW c \in Cands, PatchCandidate(c) PROVE Keeps
  <2>1. PICK reset \in PatchResets : cand' = [cand EXCEPT ![c] = Patched(@, reset)]
    BY <1>9 DEF PatchCandidate
  <2>2. reset = TRUE
    BY PoolAssumption DEF PoolAssumption
  <2>3. cand'[c].verdict = "pending"
    BY <2>1, <2>2 DEF NewCand, Patched, TypeOK
  <2>4. \A d \in Cands : d # c => cand'[d] = cand[d]
    BY <2>1 DEF TypeOK
  <2> QED BY <1>9, <2>3, <2>4 DEF PatchCandidate
<1>10. ASSUME Finalizing PROVE Keeps
  <2>1. \A c \in Cands : \/ cand'[c] = cand[c]
                         \/ \E st : cand'[c] = [cand[c] EXCEPT !.status = st]
    BY <1>10, FinalizeTouches
  <2>2. reviews' = reviews
    BY <1>10, FinalizeTouches
  <2> QED BY <1>0, <2>1, <2>2 DEF CandRow
<1>11. Keeps => SurvivorReviewed'
    BY KeepReviewed
<1>12. UNCHANGED <<cand, reviews>> \/ ~(UNCHANGED <<cand, reviews>>)
    OBVIOUS
<1> QED
  <2>1. CASE UNCHANGED <<cand, reviews>>
    BY <2>1, <1>1, <1>11
  <2>2. CASE ~UNCHANGED <<cand, reviews>>
    <3>1. \/ \E j \in Jobs : SeedReturns(j) \/ ReflectionReturns(j) \/ RankingReturns(j)
                             \/ EvolutionReturns(j) \/ MetaReviewReturns(j)
          \/ \E c \in Cands : EditCandidate(c) \/ AddUserHypothesis(c) \/ PatchCandidate(c)
          \/ Finalizing
      BY <2>2 DEF Finalizing, Next, JobReturns, vars, CreatePool, RunRound, PlanReturns,
                  SupervisorReturns, AgentFails, JobBreaks, Control, Crash
    <3> QED
      BY <3>1, <1>2, <1>3, <1>4, <1>5, <1>6, <1>7, <1>8, <1>9, <1>10, <1>11
  <2> QED BY <2>1, <2>2

\* Reviews and matches are never removed, and finalize promotes only what is
\* selectable: judged, and holding a verdict that ReviewedNext vouches for.
LEMMA PromotedNext ==
    ASSUME TypeOK, SurvivorReviewed, PromotedJudgedAndReviewed, [Next]_vars
    PROVE  PromotedJudgedAndReviewed'
<1>1. CASE Finalizing
  <2>1. PICK F \in Frontiers(Ranked), W \in SUBSET Born, done \in BOOLEAN :
          \E H \in SUBSET F : Written(F, W, done, H)
    BY <1>1, FinalizeWrites
  <2>2. PICK H \in SUBSET F : hyps' = hyps \cup {Promotion(c) : c \in H}
    BY <2>1 DEF Written
  <2>3. \A c \in F : c \in Cands /\ c \in judged /\ cand[c].verdict = "survive"
    BY DEF Frontiers, Ranked, AliveIn, Born, Selectable
  <2>4. judged' = judged /\ reviews' = reviews
    BY <1>1, FinalizeTouches
  <2> SUFFICES ASSUME NEW h \in hyps' \ hyps
               PROVE  /\ h.cand \in judged
                      /\ [cand |-> h.cand, text |-> h.chain, verdict |-> "survive"] \in reviews
    BY <2>4 DEF PromotedJudgedAndReviewed
  <2>5. PICK c \in F : h.cand = c /\ h.chain = cand[c].chain
    BY <2>2 DEF Promotion
  <2> QED BY <2>3, <2>5 DEF SurvivorReviewed
<1>2. CASE ~Finalizing
  <2>1. hyps' = hyps /\ judged \subseteq judged' /\ reviews \subseteq reviews'
    BY <1>2 DEF Finalizing, Next, JobReturns, vars, CreatePool, RunRound, PlanReturns, SeedReturns,
                SupervisorReturns, ReflectionReturns, RankingReturns, EvolutionReturns,
                MetaReviewReturns, AgentFails, JobBreaks, Control, Crash, EditCandidate,
                AddUserHypothesis, PatchCandidate
  <2> QED BY <2>1 DEF PromotedJudgedAndReviewed
<1> QED BY <1>1, <1>2

\* The inductive invariant: the rows are well formed, verdicts are about the
\* chain their candidate holds, and promotions were judged and reviewed.
PoolInv == TypeOK /\ SurvivorReviewed /\ PromotedJudgedAndReviewed

LEMMA PoolInvInit == Init => PoolInv
BY TypeInit DEF Init, NoCand, PoolInv, SurvivorReviewed, PromotedJudgedAndReviewed

LEMMA PoolInvNext ==
    ASSUME FALSE \notin PatchResets, PoolInv, [Next]_vars
    PROVE  PoolInv'
BY TypeNext, ReviewedNext, PromotedNext DEF PoolInv

\* A candidate that survived review holds a text a reflection passed, in any
\* interleaving of rounds, edits and requests (_persist_reflection,
\* _persist_user_intervention_candidate_state).
THEOREM PoolSurvivorReviewed ==
    ASSUME FALSE \notin PatchResets
    PROVE  Spec => []SurvivorReviewed
<1>1. PoolInv /\ [Next]_vars => PoolInv'
    BY PoolInvNext
<1>2. PoolInv => SurvivorReviewed
    BY DEF PoolInv
<1> QED BY <1>1, <1>2, PoolInvInit, PTL DEF Spec

\* Whatever a pool is finalized into was judged in a match and passed review
\* (finalize_pool).
THEOREM PoolPromotedJudgedAndReviewed ==
    ASSUME FALSE \notin PatchResets
    PROVE  Spec => []PromotedJudgedAndReviewed
<1>1. PoolInv /\ [Next]_vars => PoolInv'
    BY PoolInvNext
<1>2. PoolInv => PromotedJudgedAndReviewed
    BY DEF PoolInv
<1> QED BY <1>1, <1>2, PoolInvInit, PTL DEF Spec

-----------------------------------------------------------------------------
(* Jobs end.  That a waiting job is answered in the end is fairness, and TLC *)
(* checks it; what the answers lead to needs none: a job never waits twice   *)
(* for the same thing, and what it may wait for is finite.                   *)

\* Rows of candidates are never taken away.
LEMMA BornStays == ASSUME TypeOK, [Next]_vars PROVE Born \subseteq Born'
<1> SUFFICES ASSUME NEW c \in Cands, cand[c].status # "none" PROVE cand'[c].status # "none"
  BY DEF Born
<1>0. cand \in [Cands -> CandRow] /\ cand[c] \in CandRow
  BY DEF TypeOK
<1>1. CASE UNCHANGED cand
  BY <1>1
<1>2. ASSUME NEW j \in Jobs, SeedReturns(j) PROVE cand'[c].status # "none"
  BY <1>0, <1>2 DEF SeedReturns, NewCand
<1>3. ASSUME NEW j \in Jobs, ReflectionReturns(j) PROVE cand'[c].status # "none"
  <2>1. PICK s \in job[j].todo, v \in Verdicts : cand' = Reflected(cand, s, v)
    BY <1>3 DEF ReflectionReturns
  <2>2. VerdictStatus(v) \in {"alive", "rejected", "pruned"}
    BY DEF VerdictStatus
  <2>3. s.cand \in Cands
    BY DEF TypeOK, Wait
  <2>4. cand'[c] = cand[c] \/ cand'[c].status = VerdictStatus(v)
    BY <1>0, <2>1, <2>3 DEF Reflected, CandRow
  <2> QED BY <2>2, <2>4
<1>4. ASSUME NEW j \in Jobs, RankingReturns(j) PROVE cand'[c].status # "none"
  <2>1. PICK p : cand' = [d \in Cands |-> [cand[d] EXCEPT !.rerank = @ /\ d \notin p]]
    BY <1>4 DEF RankingReturns
  <2>2. cand'[c] = [cand[c] EXCEPT !.rerank = @ /\ c \notin p]
    BY <2>1
  <2> QED BY <1>0, <2>2 DEF CandRow
<1>5. ASSUME NEW j \in Jobs, EvolutionReturns(j) PROVE cand'[c].status # "none"
  BY <1>0, <1>5 DEF EvolutionReturns, NewCand
<1>6. ASSUME NEW j \in Jobs, MetaReviewReturns(j) PROVE cand'[c].status # "none"
  BY <1>0, <1>6 DEF MetaReviewReturns, CandRow
<1>7. ASSUME NEW d \in Cands, EditCandidate(d) PROVE cand'[c].status # "none"
  <2>1. \/ cand'[c] = NewCand(edits + 1, TRUE, cand[d].parents)
        \/ cand'[c] = [cand[c] EXCEPT !.recheck = TRUE, !.rerank = TRUE]
        \/ cand'[c] = cand[c]
    BY <1>7 DEF EditCandidate, Edited
  <2>2. [cand[c] EXCEPT !.recheck = TRUE, !.rerank = TRUE].status = cand[c].status
    BY <1>0 DEF CandRow
  <2>3. NewCand(edits + 1, TRUE, cand[d].parents).status = "alive"
    BY DEF NewCand
  <2> QED BY <2>1, <2>2, <2>3
<1>8. ASSUME NEW d \in Cands, AddUserHypothesis(d) PROVE cand'[c].status # "none"
  BY <1>0, <1>8 DEF AddUserHypothesis, NewCand
<1>9. ASSUME NEW d \in Cands, PatchCandidate(d) PROVE cand'[c].status # "none"
  <2>1. PICK reset : cand' = [cand EXCEPT ![d] = Patched(@, reset)]
    BY <1>9 DEF PatchCandidate
  <2>2. cand'[c] = cand[c] \/ cand'[c] = Patched(cand[c], reset)
    BY <1>0, <2>1
  <2>3. Patched(cand[c], reset).status = "alive"
    <3>1. NewCand(edits + 1, TRUE, cand[c].parents).status = "alive"
      BY DEF NewCand
    <3>2. [cand[c] EXCEPT !.status = "alive", !.text = edits + 1, !.chain = edits + 1].status = "alive"
      BY <1>0 DEF CandRow
    <3> QED BY <3>1, <3>2 DEF Patched
  <2> QED BY <2>2, <2>3
<1>10. ASSUME Finalizing PROVE cand'[c].status # "none"
  <2>1. cand'[c] = cand[c] \/ \E F : cand'[c] = [cand[c] EXCEPT !.status = FinalStatus(c, F)]
    BY <1>10, FinalizeTouches
  <2> QED BY <1>0, <2>1 DEF CandRow, FinalStatus
<1> QED
  BY <1>1, <1>2, <1>3, <1>4, <1>5, <1>6, <1>7, <1>8, <1>9, <1>10
     DEF Next, JobReturns, vars, CreatePool, RunRound, PlanReturns, SupervisorReturns,
         AgentFails, JobBreaks, Control, Crash, Finalizing

\* A job moves on its own returns only; a crash ends it, and what ended
\* stays as it is.
JobsAdvance ==
    [][/\ \A j \in Jobs : /\ JobReturns(j) => Forward(j)
                          /\ Active(j) => Forward(j) \/ job'[j] = job[j]
                          /\ ~Active(j) /\ job[j].pc # "idle" => job'[j] = job[j]
       /\ Born \subseteq Born']_vars

\* Each return takes a job to a later await of its round, or leaves it less
\* to reflect on, rank or seed, whatever other jobs and requests do meanwhile:
\* the well-founded part of JobsEnd (create_pool, run_round).
THEOREM PoolJobsAdvance == Spec => JobsAdvance
<1>1. ASSUME TypeOK, [Next]_vars, NEW j \in Jobs
      PROVE  /\ JobReturns(j) => Forward(j)
             /\ Active(j) => Forward(j) \/ job'[j] = job[j]
             /\ ~Active(j) /\ job[j].pc # "idle" => job'[j] = job[j]
  <2>0. job \in [Jobs -> Wait]
    BY <1>1 DEF TypeOK
  <2>1. CASE UNCHANGED job
    <3>1. ASSUME JobReturns(j) PROVE Forward(j)
      BY <1>1, <3>1, ReturnMovesForward
    <3> QED BY <2>1, <3>1
  <2>2. ASSUME NEW k \in Jobs, JobReturns(k)
        PROVE  /\ JobReturns(j) => Forward(j)
               /\ Active(j) => Forward(j) \/ job'[j] = job[j]
               /\ ~Active(j) => job'[j] = job[j]
    BY <1>1, <2>2, ReturnMovesForward
  <2>3. ASSUME NEW k \in Jobs, CreatePool(k) \/ RunRound(k)
        PROVE  /\ JobReturns(j) => Forward(j)
               /\ Active(j) => job'[j] = job[j]
               /\ job[j].pc # "idle" => job'[j] = job[j]
    <3>1. job[k].pc = "idle"
      BY <2>3 DEF CreatePool, RunRound, MayStart
    <3>2. \A i \in Jobs \ {k} : job'[i] = job[i]
      BY <2>0, <2>3 DEF CreatePool, RunRound, BeginRound
    <3>3. ASSUME JobReturns(j) PROVE Forward(j)
      BY <1>1, <3>3, ReturnMovesForward
    <3> QED BY <3>1, <3>2, <3>3 DEF Active, Awaiting
  <2>4. CASE Crash
    <3>1. job'[j] = IF Active(j) THEN [IdleJob EXCEPT !.pc = "lost"] ELSE job[j]
      BY <2>4 DEF Crash
    <3>2. Active(j) => Stage(job[j].pc) < Stage(job'[j].pc)
      BY <3>1 DEF Active, Awaiting, Stage, IdleJob
    <3>3. ASSUME JobReturns(j) PROVE Forward(j)
      BY <1>1, <3>3, ReturnMovesForward
    <3> QED BY <3>1, <3>2, <3>3 DEF Forward
  <2> QED
    BY <1>1, <2>1, <2>2, <2>3, <2>4, FinalizeKeepsJobs
       DEF Next, vars, Control, EditCandidate, AddUserHypothesis, PatchCandidate
<1>2. TypeOK /\ [Next]_vars =>
        [/\ \A j \in Jobs : /\ JobReturns(j) => Forward(j)
                            /\ Active(j) => Forward(j) \/ job'[j] = job[j]
                            /\ ~Active(j) /\ job[j].pc # "idle" => job'[j] = job[j]
         /\ Born \subseteq Born']_vars
  BY <1>1, BornStays
<1> QED BY <1>2, PoolTyped, PTL DEF Spec, JobsAdvance

-----------------------------------------------------------------------------
(* The rows of jobs, as a client sees them *)

LEMMA PoolTableStep ==
    ASSUME TypeOK, [Next]_vars
    PROVE  [PoolTable!Next]_PoolRows
<1>0. job \in [Jobs -> Wait]
  BY DEF TypeOK
<1>1. ASSUME NEW j \in Jobs, PoolRows'[j] \in PoolTable!Later(PoolRows[j]),
             \A k \in Jobs \ {j} : job'[k] = job[k]
      PROVE  PoolTable!Next
  <2>1. PoolRows' = [PoolRows EXCEPT ![j] = PoolRows'[j]]
    BY <1>1 DEF PoolRows
  <2> QED BY <1>1, <2>1 DEF PoolTable!Next, PoolTable!Advance
<1>2. ASSUME NEW j \in Jobs, JobReturns(j) PROVE [PoolTable!Next]_PoolRows
  <2>1. Forward(j) /\ Active(j) /\ \A k \in Jobs \ {j} : job'[k] = job[k]
    BY <1>2, ReturnMovesForward
  <2>2. PoolRows[j] = "running" /\ job'[j].pc # "idle"
    BY <2>1 DEF PoolRows, Active, Awaiting, Forward, Stage
  <2>3. PoolRows'[j] \in {"running", "succeeded", "failed"}
    BY <2>2 DEF PoolRows
  <2>4. CASE PoolRows'[j] = "running"
    BY <2>1, <2>2, <2>4 DEF PoolRows
  <2>5. CASE PoolRows'[j] \in {"succeeded", "failed"}
    BY <1>1, <2>1, <2>2, <2>5 DEF PoolTable!Later, PoolTable!Outcomes
  <2> QED BY <2>3, <2>4, <2>5
<1>3. ASSUME NEW j \in Jobs, CreatePool(j) \/ RunRound(j) PROVE PoolTable!Next
  <2>1. job[j].pc = "idle" /\ \A k \in Jobs \ {j} : job'[k] = job[k]
    BY <1>0, <1>3 DEF CreatePool, RunRound, BeginRound, MayStart
  <2>2. job'[j].pc \in {"plan", "sup", "failed"}
    BY <1>0, <1>3 DEF CreatePool, RunRound, BeginRound, IdleJob, Wait
  <2>3. PoolRows[j] = "none" /\ PoolRows'[j] \in {"running", "failed"}
    BY <2>1, <2>2 DEF PoolRows
  <2> QED BY <1>1, <2>1, <2>3 DEF PoolTable!Later, PoolTable!Outcomes
<1>4. CASE Crash
  <2>1. ASSUME NEW j \in Jobs PROVE PoolRows'[j] = PoolRows[j]
    BY <1>0, <1>4 DEF Crash, Active, Awaiting, IdleJob, PoolRows
  <2> QED BY <2>1 DEF PoolRows
<1>5. ASSUME UNCHANGED job PROVE UNCHANGED PoolRows
  BY <1>5 DEF PoolRows
<1> QED
  BY <1>2, <1>3, <1>4, <1>5, FinalizeKeepsJobs
     DEF Next, vars, Control, EditCandidate, AddUserHypothesis, PatchCandidate

\* A job of the pool that ended keeps its outcome and its row never moves
\* back, whatever other jobs, requests and a death of the process do.
THEOREM PoolJobsFinal == Spec => PoolJobsKept
<1>1. Init => PoolTable!Init
  BY DEF Init, PoolTable!Init, PoolRows, IdleJob
<1> QED BY <1>1, PoolTableStep, PoolTyped, PTL DEF Spec, PoolJobsKept, PoolTable!Spec

-----------------------------------------------------------------------------
(* One job at a time.  The console may overlap them; these theorems are for  *)
(* a client that does not.                                                   *)

OneJob == \A j, k \in Jobs : Active(j) /\ Active(k) => j = k

\* A pool that is over has no job under way that could write its status.
OverIsQuiet == PoolTerminal => Quiet

LEMMA OneJobStep ==
    ASSUME Overlap = FALSE, TypeOK, OneJob, OverIsQuiet, [Next]_vars
    PROVE  /\ OneJob' /\ OverIsQuiet'
           /\ PoolTerminal => pool' \in {pool, [pool EXCEPT !.status = "finalized"]}
<1> DEFINE Kept == /\ OneJob' /\ OverIsQuiet'
                   /\ PoolTerminal => pool' \in {pool, [pool EXCEPT !.status = "finalized"]}
<1>0. job \in [Jobs -> Wait] /\ pool \in [status : NotRunnable \cup {"none", "running"}, round : Nat]
  BY DEF TypeOK
<1>1. CASE UNCHANGED <<pool, job>>
  BY <1>1 DEF OneJob, OverIsQuiet, Quiet, Active, PoolTerminal
<1>2. ASSUME NEW j \in Jobs, CreatePool(j) PROVE Kept
  <2>1. Quiet /\ ~PoolTerminal /\ \A k \in Jobs \ {j} : job'[k] = job[k]
    BY <1>0, <1>2 DEF CreatePool, MayStart, PoolTerminal, Terminal
  <2>2. pool'.status = "running"
    BY <1>2 DEF CreatePool
  <2> QED BY <2>1, <2>2 DEF OneJob, OverIsQuiet, Quiet, Active, PoolTerminal, Terminal
<1>3. ASSUME NEW j \in Jobs, RunRound(j) PROVE Kept
  <2>1. Quiet /\ pool' = pool /\ \A k \in Jobs \ {j} : job'[k] = job[k]
    BY <1>0, <1>3 DEF RunRound, MayStart, BeginRound
  <2>2. CASE Runnable
    BY <2>1, <2>2 DEF OneJob, OverIsQuiet, Quiet, Active, PoolTerminal, Runnable, NotRunnable
  <2>3. CASE ~Runnable
    <3>1. job'[j].pc = "failed"
      BY <1>0, <1>3, <2>3 DEF RunRound, BeginRound, Wait
    <3> QED BY <2>1, <3>1 DEF OneJob, OverIsQuiet, Quiet, Active, Awaiting, PoolTerminal
  <2> QED BY <2>2, <2>3
<1>4. ASSUME NEW j \in Jobs, JobReturns(j) PROVE Kept
  <2>1. Active(j) /\ \A k \in Jobs \ {j} : job'[k] = job[k]
    BY <1>4, ReturnMovesForward
  <2>2. ~PoolTerminal
    BY <2>1 DEF OverIsQuiet, Quiet
  <2>3. OneJob' /\ \A k \in Jobs \ {j} : ~Active(k)'
    BY <2>1 DEF OneJob, Active
  <2>4. ~Active(j)' \/ ~PoolTerminal'
    <3>1. ASSUME NEW result \in {"succeeded", "failed"}, EndJob(j, result) PROVE ~Active(j)'
      BY <1>0, <3>1 DEF EndJob, IdleJob, Active, Awaiting
    <3>2. CASE pool' = pool
      BY <2>2, <3>2 DEF PoolTerminal
    <3>3. CASE PlanReturns(j)
      <4>1. CASE pool' = pool
        BY <3>2, <4>1
      <4>2. CASE job' = [job EXCEPT ![j].pc = "succeeded"]
        BY <1>0, <4>2 DEF Wait, Active, Awaiting
      <4> QED BY <3>3, <4>1, <4>2 DEF PlanReturns
    <3>4. CASE SupervisorReturns(j)
      BY <3>1, <3>2, <3>4 DEF SupervisorReturns
    <3>5. CASE MetaReviewReturns(j)
      BY <3>1, <3>5 DEF MetaReviewReturns
    <3>6. CASE AgentFails(j)
      BY <3>1, <3>6 DEF AgentFails
    <3>7. CASE JobBreaks(j)
      BY <3>1, <3>7 DEF JobBreaks
    <3> QED BY <1>4, <3>2, <3>3, <3>4, <3>5, <3>6, <3>7
            DEF JobReturns, SeedReturns, ReflectionReturns, RankingReturns, EvolutionReturns
  <2> QED BY <2>2, <2>3, <2>4 DEF OverIsQuiet, Quiet
<1>5. CASE Control
  <2>1. ~PoolTerminal /\ job' = job /\ ~PoolTerminal'
    BY <1>0, <1>5 DEF Control, ControlStatuses, PoolTerminal, Terminal
  <2> QED BY <2>1 DEF OneJob, OverIsQuiet, Active
<1>6. CASE Finalizing
  <2>1. Quiet /\ job' = job /\ pool' \in {pool, [pool EXCEPT !.status = "finalized"]}
    BY <1>6, FinalizeWrites, FinalizeTouches DEF Finalizable
  <2> QED BY <2>1 DEF OneJob, OverIsQuiet, Quiet, Active
<1>7. CASE Crash
  <2>1. pool' = pool /\ \A j \in Jobs : ~Active(j)'
    BY <1>7 DEF Crash, IdleJob, Active, Awaiting
  <2> QED BY <2>1 DEF OneJob, OverIsQuiet, Quiet
<1> HIDE DEF Kept
<1>8. Kept
  BY <1>1, <1>2, <1>3, <1>4, <1>5, <1>6, <1>7
     DEF Kept, Next, vars, Finalizing, EditCandidate, AddUserHypothesis, PatchCandidate
<1> QED BY <1>8 DEF Kept

LEMMA OneJobInit == Init => OneJob /\ OverIsQuiet
BY DEF Init, OneJob, OverIsQuiet, Quiet, Active, Awaiting, IdleJob

\* When jobs do not overlap, a pool that is stopped, failed, cancelled or
\* finalized stays so but for a finalize: whatever is asked of it is refused,
\* and no late round writes over it (control_pool, run_round, finalize_pool).
THEOREM PoolTerminalStays ==
    ASSUME Overlap = FALSE
    PROVE  Spec => TerminalStays
<1>1. TypeOK /\ OneJob /\ OverIsQuiet /\ [Next]_vars =>
        /\ OneJob' /\ OverIsQuiet'
        /\ [PoolTerminal => pool' \in {pool, [pool EXCEPT !.status = "finalized"]}]_vars
  BY OneJobStep
<1> QED BY <1>1, OneJobInit, PoolTyped, PTL DEF Spec, TerminalStays

-----------------------------------------------------------------------------
(* What is promoted.  A broken-off finalize may leave a finalized pool       *)
(* without rows, and statuses of a selection nobody kept; once there is a    *)
(* row, no job is under way and nothing but another finalize could change    *)
(* the pool, and that returns the rows it finds.                             *)

\* A selection keeps no more than top_k candidates, each promoted to one row.
LEMMA PromotionBounded ==
    ASSUME NEW F \in Frontiers(Ranked), NEW H \in SUBSET F, hyps' = {Promotion(c) : c \in H}
    PROVE  /\ Cardinality({h.cand : h \in hyps'}) <= (IF TopK = 0 THEN 1 ELSE TopK)
           /\ \A g, h \in hyps' : g.cand = h.cand => g = h
<1>1. {h.cand : h \in hyps'} = H
  <2>1. \A c : Promotion(c).cand = c
    BY DEF Promotion
  <2>2. \A c \in H : Promotion(c) \in hyps'
    OBVIOUS
  <2>3. \A h \in hyps' : \E c \in H : h = Promotion(c)
    OBVIOUS
  <2> QED BY <2>1, <2>2, <2>3
<1>2. F \subseteq Cands /\ Cardinality(F) <= (IF TopK = 0 THEN 1 ELSE TopK)
  BY DEF Frontiers, Ranked, AliveIn, Born
<1>3. IsFiniteSet(F)
  BY <1>2, FS_Subset, PoolAssumption DEF PoolAssumption
<1>4. Cardinality(H) <= Cardinality(F) /\ Cardinality(H) \in Nat /\ Cardinality(F) \in Nat
  BY <1>3, FS_Subset, FS_CardinalityType
<1>5. TopK \in Nat
  BY PoolAssumption DEF PoolAssumption
<1>6. \A g, h \in hyps' : g.cand = h.cand => g = h
  BY DEF Promotion
<1> QED BY <1>1, <1>2, <1>4, <1>5, <1>6

LEMMA PromotionStep ==
    ASSUME Overlap = FALSE, TypeOK, OneJob, OverIsQuiet, PromotionFinal, [Next]_vars
    PROVE  PromotionFinal'
<1>1. CASE Finalizing
  <2>1. PICK F \in Frontiers(Ranked), W \in SUBSET Born, done \in BOOLEAN :
          \E H \in SUBSET F : InOrder(W, done, H) /\ Written(F, W, done, H)
    BY <1>1, FinalizeWrites
  <2>2. PICK H \in SUBSET F : InOrder(W, done, H) /\ Written(F, W, done, H)
    BY <2>1
  <2>3. hyps' = {Promotion(c) : c \in H}
    BY <1>1, <2>2, FinalizeWrites DEF Written, Finalizable, NoRowYet
  <2>4. hyps' # {} => pool'.status = "finalized"
    BY <2>2, <2>3 DEF InOrder, Written, TypeOK
  <2> QED BY <2>3, <2>4, PromotionBounded DEF PromotionFinal
<1>2. CASE ~Finalizing
  <2>1. hyps' = hyps
    BY <1>2 DEF Finalizing, Next, JobReturns, vars, CreatePool, RunRound, PlanReturns, SeedReturns,
                SupervisorReturns, ReflectionReturns, RankingReturns, EvolutionReturns,
                MetaReviewReturns, AgentFails, JobBreaks, Control, Crash, EditCandidate,
                AddUserHypothesis, PatchCandidate
  <2>2. pool.status = "finalized" => pool'.status = "finalized"
    BY OneJobStep DEF PoolTerminal, Terminal, TypeOK
  <2> QED BY <2>1, <2>2 DEF PromotionFinal
<1> QED BY <1>1, <1>2

\* When jobs do not overlap, promoted rows belong to a pool that is finalized
\* for good and are those of one selection, although a finalize may break off
\* after any of its writes and be asked again (finalize_pool).
THEOREM PoolPromotionFinal ==
    ASSUME Overlap = FALSE
    PROVE  Spec => []PromotionFinal
<1>1. TypeOK /\ OneJob /\ OverIsQuiet /\ PromotionFinal /\ [Next]_vars
        => OneJob' /\ OverIsQuiet' /\ PromotionFinal'
  BY OneJobStep, PromotionStep
<1>2. Init => PromotionFinal
  BY DEF Init, PromotionFinal
<1> QED BY <1>1, <1>2, OneJobInit, PoolTyped, PTL DEF Spec

-----------------------------------------------------------------------------
(* The numbers of the rounds *)

Completed == {j \in Jobs : round[j].status = "completed"}

\* The completed rounds are numbered from one to the pool's counter, each once.
RoundsNumbered ==
    /\ \A i, j \in Completed : round[i].number = round[j].number => i = j
    /\ {round[j].number : j \in Completed} = 1..pool.round

\* A round under way has the next number, and its job has no other.
RoundsInv ==
    /\ RoundsNumbered
    /\ pool.status = "none" => pool.round = 0
    /\ \A j \in Jobs : job[j].pc \in {"idle", "plan", "gen"} => round[j].status = "none"
    /\ \A j \in Jobs : job[j].pc \in InRound =>
          /\ job[j].n = pool.round + 1
          /\ round[j] = [number |-> pool.round + 1, status |-> "running"]

\* A round keeps its number from one await to the next.
LEMMA AwaitsKeepNumber ==
    ASSUME NEW r \in Wait, NEW C, NEW w \in ReflectOrLater(r, C) \cup RankOrLater(r, C) \cup EvolveOrMeta(r, C)
    PROVE  w.n = r.n /\ w.pc \in InRound
<1>1. ASSUME NEW v \in EvolveOrMeta(r, C) PROVE v.n = r.n
  <2>1. (\E P : v = [r EXCEPT !.pc = "evolve", !.parents = P]) \/ v = [r EXCEPT !.pc = "meta"]
    BY <1>1 DEF EvolveOrMeta
  <2> QED BY <2>1 DEF Wait
<1>2. ASSUME NEW v \in RankOrLater(r, C) PROVE v.n = r.n
  <2>1. (\E P : v = [r EXCEPT !.pc = "rank", !.pairs = P]) \/ v \in EvolveOrMeta(r, C)
    BY <1>2 DEF RankOrLater
  <2> QED BY <1>1, <2>1 DEF Wait
<1>3. ASSUME NEW v \in ReflectOrLater(r, C) PROVE v.n = r.n
  <2>1. (\E T : v = [r EXCEPT !.pc = "reflect", !.todo = T]) \/ v \in RankOrLater(r, C)
    BY <1>3 DEF ReflectOrLater
  <2> QED BY <1>2, <2>1 DEF Wait
<1> QED BY <1>1, <1>2, <1>3, EvolveGoes, RankGoes, ReflectGoes DEF InRound

\* Steps that leave the rows of rounds alone.
LEMMA RoundsUntouched ==
    ASSUME RoundsInv, UNCHANGED round, pool'.round = pool.round, pool'.status = "none" => pool.status = "none",
           \A j \in Jobs : job'[j].pc \in InRound => job[j].pc \in InRound /\ job'[j].n = job[j].n,
           \A j \in Jobs : job'[j].pc \in {"idle", "plan", "gen"} => job[j].pc \in {"idle", "plan", "gen"}
    PROVE  RoundsInv'
<1>1. RoundsNumbered'
  BY DEF RoundsInv, RoundsNumbered, Completed
<1> QED BY <1>1 DEF RoundsInv

\* A round begins, with no other under way.
LEMMA RoundBegins ==
    ASSUME TypeOK, RoundsInv, NEW j \in Jobs, BeginRound(j), UNCHANGED pool,
           job[j].pc \in {"idle", "gen"}, \A k \in Jobs \ {j} : ~Active(k)
    PROVE  RoundsInv'
<1>0. job \in [Jobs -> Wait] /\ round \in [Jobs -> Round]
  BY DEF TypeOK
<1>1. CASE Runnable
  <2>1. /\ job'[j].pc = "sup" /\ job'[j].n = pool.round + 1
        /\ round'[j] = [number |-> pool.round + 1, status |-> "running"]
        /\ \A k \in Jobs \ {j} : job'[k] = job[k] /\ round'[k] = round[k]
    BY <1>0, <1>1 DEF BeginRound, IdleJob
  <2>2. Completed' = Completed /\ \A k \in Completed : round'[k] = round[k]
    BY <2>1 DEF Completed, RoundsInv
  <2>3. RoundsNumbered'
    BY <2>2 DEF RoundsInv, RoundsNumbered
  <2>4. \A k \in Jobs \ {j} : job'[k].pc \notin InRound
    BY <2>1 DEF Active, Awaiting, InRound
  <2> QED BY <2>1, <2>3, <2>4 DEF RoundsInv
<1>2. CASE ~Runnable
  <2>1. job'[j].pc = "failed" /\ UNCHANGED round /\ \A k \in Jobs \ {j} : job'[k] = job[k]
    BY <1>0, <1>2 DEF BeginRound, Wait
  <2> QED BY <2>1, RoundsUntouched DEF InRound
<1> QED BY <1>1, <1>2

\* A round ends, with no other under way.
LEMMA RoundCompletes ==
    ASSUME TypeOK, RoundsInv, NEW j \in Jobs, job[j].pc \in InRound, EndJob(j, "succeeded"),
           EndRound(j, "completed"), NEW status, status # "none",
           pool' = [status |-> status, round |-> job[j].n], \A k \in Jobs \ {j} : ~Active(k)
    PROVE  RoundsInv'
<1>0. job \in [Jobs -> Wait] /\ round \in [Jobs -> Round] /\ pool.round \in Nat
  BY DEF TypeOK
<1> DEFINE n == pool.round + 1
<1>1. /\ round'[j].number = n /\ round'[j].status = "completed" /\ round[j].status = "running"
      /\ pool'.round = n /\ pool'.status # "none" /\ job'[j].pc = "succeeded"
      /\ \A k \in Jobs \ {j} : job'[k] = job[k] /\ round'[k] = round[k]
  BY <1>0 DEF RoundsInv, EndRound, EndJob, IdleJob, Round
<1>2. Completed' = Completed \cup {j} /\ j \notin Completed
  BY <1>1 DEF Completed
<1>3. \A k \in Completed : round'[k] = round[k] /\ round[k].number \in 1..pool.round
  <2> SUFFICES ASSUME NEW k \in Completed PROVE round'[k] = round[k] /\ round[k].number \in 1..pool.round
    OBVIOUS
  <2>1. k \in Jobs /\ k # j
    BY <1>2 DEF Completed
  <2>2. {round[i].number : i \in Completed} = 1..pool.round
    BY DEF RoundsInv, RoundsNumbered
  <2>3. round[k].number \in {round[i].number : i \in Completed}
    OBVIOUS
  <2> QED BY <1>1, <2>1, <2>2, <2>3
<1>4. {round'[k].number : k \in Completed'} = {round[k].number : k \in Completed} \cup {n}
  BY <1>1, <1>2, <1>3
<1>5. 1..n = 1..pool.round \cup {n} /\ n \notin 1..pool.round
  BY <1>0
<1>6. {round'[k].number : k \in Completed'} = 1..pool'.round
  BY <1>1, <1>4, <1>5 DEF RoundsInv, RoundsNumbered
<1>7. \A i, k \in Completed' : round'[i].number = round'[k].number => i = k
  BY <1>1, <1>2, <1>3, <1>5 DEF RoundsInv, RoundsNumbered
<1>8. \A k \in Jobs : job'[k].pc \notin InRound
  BY <1>1 DEF Active, Awaiting, InRound
<1> QED BY <1>1, <1>6, <1>7, <1>8 DEF RoundsInv, RoundsNumbered

LEMMA RoundsStep ==
    ASSUME Overlap = FALSE, TypeOK, OneJob, RoundsInv, [Next]_vars
    PROVE  RoundsInv'
<1>0. /\ job \in [Jobs -> Wait] /\ round \in [Jobs -> Round]
      /\ pool \in [status : NotRunnable \cup {"none", "running"}, round : Nat]
  BY DEF TypeOK
<1>a. ASSUME NEW j \in Jobs, Active(j) PROVE \A k \in Jobs \ {j} : ~Active(k)
  BY <1>a DEF OneJob
<1>b. ASSUME NEW j \in Jobs, NEW r, job' = [job EXCEPT ![j] = r], UNCHANGED <<pool, round>>,
             job[j].pc \in InRound, r.pc \in InRound, r.n = job[j].n
      PROVE  RoundsInv'
  <2>1. job'[j] = r /\ \A k \in Jobs \ {j} : job'[k] = job[k]
    BY <1>0, <1>b
  <2> QED BY <1>b, <2>1, RoundsUntouched DEF InRound
<1>1. ASSUME NEW j \in Jobs, CreatePool(j) PROVE RoundsInv'
  <2>1. /\ pool.round = 0 /\ pool'.round = 0 /\ pool'.status = "running" /\ UNCHANGED round
        /\ job[j].pc = "idle" /\ job'[j].pc = "plan" /\ \A k \in Jobs \ {j} : job'[k] = job[k]
    BY <1>0, <1>1 DEF CreatePool, MayStart, RoundsInv, Wait
  <2> QED BY <2>1, RoundsUntouched DEF InRound
<1>2. ASSUME NEW j \in Jobs, RunRound(j) PROVE RoundsInv'
  BY <1>2, RoundBegins DEF RunRound, MayStart, Quiet
<1>3. ASSUME NEW j \in Jobs, PlanReturns(j) PROVE RoundsInv'
  <2>1. \E st \in {"gen", "succeeded"} : job' = [job EXCEPT ![j].pc = st]
    BY <1>3 DEF PlanReturns
  <2>2. job'[j].pc \in {"gen", "succeeded"} /\ \A k \in Jobs \ {j} : job'[k] = job[k]
    BY <1>0, <2>1 DEF Wait
  <2>3. /\ job[j].pc = "plan" /\ UNCHANGED round
        /\ pool' = pool \/ \E s \in DecisionStatuses : pool' = [pool EXCEPT !.status = s]
    BY <1>3 DEF PlanReturns
  <2>4. pool'.round = pool.round /\ (pool'.status = "none" => pool.status = "none")
    BY <1>0, <2>3 DEF DecisionStatuses
  <2> QED BY <2>2, <2>3, <2>4, RoundsUntouched DEF InRound
<1>4. ASSUME NEW j \in Jobs, SeedReturns(j) PROVE RoundsInv'
  <2>1. job[j].pc = "gen" /\ UNCHANGED pool /\ (BeginRound(j) \/ UNCHANGED <<job, round>>)
    BY <1>4 DEF SeedReturns
  <2>2. CASE BeginRound(j)
    BY <1>a, <2>1, <2>2, RoundBegins DEF Active, Awaiting
  <2>3. CASE UNCHANGED <<job, round>>
    BY <2>1, <2>3, RoundsUntouched
  <2> QED BY <2>1, <2>2, <2>3
<1>5. ASSUME NEW j \in Jobs, SupervisorReturns(j) PROVE RoundsInv'
  <2>1. job[j].pc = "sup" /\ job[j].pc \in InRound /\ \A k \in Jobs \ {j} : ~Active(k)
    BY <1>a, <1>5 DEF SupervisorReturns, InRound, Active, Awaiting
  <2>2. ASSUME NEW s \in DecisionStatuses, pool' = [status |-> s, round |-> job[j].n],
               EndRound(j, "completed"), EndJob(j, "succeeded")
        PROVE  RoundsInv'
    <3>1. s # "none"
      BY DEF DecisionStatuses
    <3> QED BY <2>1, <2>2, <3>1, RoundCompletes
  <2>3. ASSUME NEW acts \in SUBSET RoundActions,
               NEW r \in ReflectOrLater([job[j] EXCEPT !.acts = acts], cand),
               job' = [job EXCEPT ![j] = r], UNCHANGED <<pool, round>>
        PROVE  RoundsInv'
    <3>1. [job[j] EXCEPT !.acts = acts] \in Wait /\ [job[j] EXCEPT !.acts = acts].n = job[j].n
      BY <1>0 DEF Wait
    <3>2. r.n = job[j].n /\ r.pc \in InRound
      BY <3>1, AwaitsKeepNumber
    <3> QED BY <1>b, <2>1, <2>3, <3>2
  <2> QED BY <1>5, <2>2, <2>3 DEF SupervisorReturns
<1>6. ASSUME NEW j \in Jobs, ReflectionReturns(j) PROVE RoundsInv'
  <2>1. PICK s, v :
          \E r \in (IF [job[j] EXCEPT !.todo = @ \ {s}].todo # {}
                    THEN {[job[j] EXCEPT !.todo = @ \ {s}]}
                    ELSE RankOrLater([job[j] EXCEPT !.todo = @ \ {s}], Reflected(cand, s, v))) :
             job' = [job EXCEPT ![j] = r]
    BY <1>6 DEF ReflectionReturns
  <2> DEFINE left == [job[j] EXCEPT !.todo = @ \ {s}]
  <2>2. left \in Wait /\ left.n = job[j].n /\ left.pc = job[j].pc
    BY <1>0 DEF Wait
  <2>3. PICK r : /\ job' = [job EXCEPT ![j] = r]
                 /\ r = left \/ r \in RankOrLater(left, Reflected(cand, s, v))
    BY <2>1
  <2>4. job[j].pc \in InRound /\ UNCHANGED <<pool, round>>
    BY <1>6 DEF ReflectionReturns, InRound
  <2> HIDE DEF left
  <2>5. r.n = job[j].n /\ r.pc \in InRound
    BY <2>2, <2>3, <2>4, AwaitsKeepNumber
  <2> QED BY <1>b, <2>3, <2>4, <2>5
<1>7. ASSUME NEW j \in Jobs, RankingReturns(j) PROVE RoundsInv'
  <2>1. PICK p : \E C :
          \E r \in (IF [job[j] EXCEPT !.pairs = @ \ {p}].pairs # {}
                    THEN {[job[j] EXCEPT !.pairs = @ \ {p}]}
                    ELSE EvolveOrMeta([job[j] EXCEPT !.pairs = @ \ {p}], C)) :
             job' = [job EXCEPT ![j] = r]
    BY <1>7 DEF RankingReturns
  <2> DEFINE left == [job[j] EXCEPT !.pairs = @ \ {p}]
  <2>2. left \in Wait /\ left.n = job[j].n /\ left.pc = job[j].pc
    BY <1>0 DEF Wait
  <2>3. PICK C, r : job' = [job EXCEPT ![j] = r] /\ (r = left \/ r \in EvolveOrMeta(left, C))
    BY <2>1
  <2>4. job[j].pc \in InRound /\ UNCHANGED <<pool, round>>
    BY <1>7 DEF RankingReturns, InRound
  <2> HIDE DEF left
  <2>5. r.n = job[j].n /\ r.pc \in InRound
    BY <2>2, <2>3, <2>4, AwaitsKeepNumber
  <2> QED BY <1>b, <2>3, <2>4, <2>5
<1>8. ASSUME NEW j \in Jobs, EvolutionReturns(j) PROVE RoundsInv'
  <2>1. /\ job[j].pc = "evolve" /\ UNCHANGED <<pool, round>>
        /\ job' = [job EXCEPT ![j] = [job[j] EXCEPT !.pc = "meta"]]
    BY <1>8 DEF EvolutionReturns
  <2>2. [job[j] EXCEPT !.pc = "meta"].pc = "meta" /\ [job[j] EXCEPT !.pc = "meta"].n = job[j].n
    BY <1>0 DEF Wait
  <2> QED BY <1>b, <2>1, <2>2 DEF InRound
<1>9. ASSUME NEW j \in Jobs, MetaReviewReturns(j) PROVE RoundsInv'
  <2>1. job[j].pc \in InRound /\ \A k \in Jobs \ {j} : ~Active(k)
    BY <1>a, <1>9 DEF MetaReviewReturns, InRound, Active, Awaiting
  <2>2. RoundEndStatus(job[j].n) # "none"
    BY DEF RoundEndStatus
  <2>3. /\ EndRound(j, "completed") /\ EndJob(j, "succeeded")
        /\ pool' = [status |-> RoundEndStatus(job[j].n), round |-> job[j].n]
    BY <1>9 DEF MetaReviewReturns
  <2> HIDE DEF RoundEndStatus
  <2> QED BY <2>1, <2>2, <2>3, RoundCompletes
<1>10. ASSUME NEW j \in Jobs, AgentFails(j) PROVE RoundsInv'
  <2>1. /\ job'[j].pc = "failed" /\ \A k \in Jobs \ {j} : job'[k] = job[k]
        /\ pool'.round = pool.round /\ pool'.status # "none"
    BY <1>0, <1>10 DEF AgentFails, EndJob, IdleJob
  <2>2. CASE job[j].pc \in InRound
    <3>1. round[j].status = "running" /\ round' = [round EXCEPT ![j].status = "failed"]
      BY <1>10, <2>2 DEF AgentFails, EndRound, RoundsInv
    <3>2. round'[j].status = "failed" /\ \A k \in Jobs \ {j} : round'[k] = round[k]
      BY <1>0, <3>1 DEF Round
    <3>3. Completed' = Completed /\ \A k \in Completed : round'[k] = round[k]
      BY <3>1, <3>2 DEF Completed
    <3>4. RoundsNumbered'
      BY <2>1, <3>3 DEF RoundsInv, RoundsNumbered
    <3> QED BY <2>1, <3>2, <3>4 DEF RoundsInv, InRound
  <2>3. CASE job[j].pc \notin InRound
    BY <1>10, <2>1, <2>3, RoundsUntouched DEF AgentFails, InRound
  <2> QED BY <2>2, <2>3
<1>11. CASE Crash
  <2>1. \A j \in Jobs : job'[j] = job[j] \/ job'[j].pc = "lost"
    BY <1>11 DEF Crash, IdleJob
  <2> QED BY <1>11, <2>1, RoundsUntouched DEF Crash, InRound
<1>12. ASSUME UNCHANGED <<job, round>>, pool' = pool \/ \E s : s # "none" /\ pool' = [pool EXCEPT !.status = s]
       PROVE  RoundsInv'
  BY <1>0, <1>12, RoundsUntouched
<1>13. CASE Control
  BY <1>12, <1>13 DEF Control, ControlStatuses
<1>14. CASE Finalizing
  <2>1. UNCHANGED <<round, job>> /\ pool' \in {pool, [pool EXCEPT !.status = "finalized"]}
    BY <1>14, FinalizeTouches
  <2> QED BY <1>0, <1>12, <2>1
<1>15. ASSUME NEW j \in Jobs, JobBreaks(j) PROVE RoundsInv'
  <2>1. job'[j].pc = "failed" /\ \A k \in Jobs \ {j} : job'[k] = job[k]
    BY <1>0, <1>15 DEF JobBreaks, EndJob, IdleJob
  <2> QED BY <1>15, <2>1, RoundsUntouched DEF JobBreaks, InRound
<1> QED
  BY <1>1, <1>2, <1>3, <1>4, <1>5, <1>6, <1>7, <1>8, <1>9, <1>10, <1>11, <1>12, <1>13, <1>14,
     <1>15 DEF Next, JobReturns, vars, Finalizing, EditCandidate, AddUserHypothesis, PatchCandidate

\* When jobs do not overlap, the completed rounds of a pool are numbered 1, 2,
\* 3 without a gap or a repetition, whatever rounds failed or died between
\* them and however the pool was paused and resumed (run_round, which takes the
\* number before its awaits and writes the counter after them).
THEOREM PoolRoundsNumbered ==
    ASSUME Overlap = FALSE
    PROVE  Spec => []RoundsNumbered
<1>1. Init => RoundsInv
  BY DEF Init, RoundsInv, RoundsNumbered, Completed, InRound, IdleJob
<1>2. TypeOK /\ OneJob /\ OverIsQuiet /\ RoundsInv /\ [Next]_vars => (OneJob /\ OverIsQuiet /\ RoundsInv)'
  BY OneJobStep, RoundsStep
<1>3. RoundsInv => RoundsNumbered
  BY DEF RoundsInv
<1> QED BY <1>1, <1>2, <1>3, OneJobInit, PoolTyped, PTL DEF Spec

-----------------------------------------------------------------------------
(* The two copies of a candidate's text.  Apart they come only from a late   *)
(* reflection writing back the chain it read before an edit; without edits   *)
(* in a round, what a loop listed is still what the rows hold.               *)

\* What a reflection loop has yet to write is what the rows hold.
ListedAsHeld ==
    \A j \in Jobs : job[j].pc = "reflect" =>
        \A s \in job[j].todo : s.cand \in Born /\ s.text = cand[s.cand].chain

\* A step changes no chain of a row that exists, unless it is an edit, which
\* waits for the jobs to end.
ChainsKept ==
    \/ \A c \in Born : cand'[c].chain = cand[c].chain
    \/ Quiet /\ UNCHANGED job

\* Every writer of the candidate rows writes both copies or neither.
LEMMA RowsStayEqual ==
    ASSUME EditInRound = FALSE, TypeOK, RowMatchesChain, ListedAsHeld, [Next]_vars
    PROVE  RowMatchesChain' /\ ChainsKept
<1> DEFINE Equal == RowMatchesChain' /\ ChainsKept
<1>0. /\ cand \in [Cands -> CandRow] /\ \A c \in Cands : cand[c] \in CandRow
      /\ \A c \in Cands : cand[c].text = cand[c].chain
  BY DEF TypeOK, RowMatchesChain
<1>a. Born \subseteq Cands
  BY DEF Born
<1>b. ASSUME \A c \in Cands : cand'[c].text = cand[c].text /\ cand'[c].chain = cand[c].chain
      PROVE  Equal
  BY <1>a, <1>b DEF RowMatchesChain, ChainsKept
<1>1. ASSUME UNCHANGED cand PROVE Equal
  BY <1>1, <1>b
<1>2. ASSUME NEW j \in Jobs, SeedReturns(j) PROVE Equal
  <2>1. PICK c \in SeedIds \ Born : cand' = [cand EXCEPT ![c] = NewCand(0, FALSE, {})]
    BY <1>2 DEF SeedReturns
  <2>2. \A d \in Cands : cand'[d] = cand[d] \/ (d \notin Born /\ cand'[d] = NewCand(0, FALSE, {}))
    BY <1>0, <2>1
  <2> QED BY <1>0, <1>a, <2>2 DEF NewCand, RowMatchesChain, ChainsKept
<1>3. ASSUME NEW j \in Jobs, ReflectionReturns(j) PROVE Equal
  <2>1. PICK s \in job[j].todo, v \in Verdicts : cand' = Reflected(cand, s, v)
    BY <1>3 DEF ReflectionReturns
  <2>2. s.cand \in Cands /\ s.text = cand[s.cand].chain
    BY <1>3, <1>a DEF ReflectionReturns, ListedAsHeld
  <2>3. \A d \in Cands \ {s.cand} : cand'[d] = cand[d]
    BY <1>0, <2>1 DEF Reflected
  <2>4. cand'[s.cand] = [cand[s.cand] EXCEPT !.status = VerdictStatus(v), !.chain = s.text,
                                    !.verdict = v, !.recheck = FALSE,
                                    !.rerank = (v = "survive")]
    BY <1>0, <2>1, <2>2 DEF Reflected
  <2>5. cand'[s.cand].text = cand[s.cand].text /\ cand'[s.cand].chain = s.text
    BY <1>0, <2>2, <2>4 DEF CandRow
  <2> QED BY <1>b, <2>2, <2>3, <2>5
<1>4. ASSUME NEW j \in Jobs, RankingReturns(j) PROVE Equal
  <2>1. PICK p : cand' = [d \in Cands |-> [cand[d] EXCEPT !.rerank = @ /\ d \notin p]]
    BY <1>4 DEF RankingReturns
  <2>2. ASSUME NEW r \in CandRow, NEW b \in BOOLEAN
        PROVE  LET u == [r EXCEPT !.rerank = @ /\ b] IN u.text = r.text /\ u.chain = r.chain
    BY DEF CandRow
  <2>3. ASSUME NEW d \in Cands
        PROVE  cand'[d].text = cand[d].text /\ cand'[d].chain = cand[d].chain
    <3>1. cand'[d] = [cand[d] EXCEPT !.rerank = @ /\ (d \notin p)]
      BY <2>1
    <3>2. (d \notin p) \in BOOLEAN /\ cand[d] \in CandRow
      BY <1>0
    <3> QED BY <2>2, <3>1, <3>2
  <2> QED BY <1>b, <2>3
<1>5. ASSUME NEW j \in Jobs, EvolutionReturns(j) PROVE Equal
  <2>1. PICK K \in SUBSET (ChildIds \ Born) :
           \E ps \in [K -> SUBSET job[j].parents \ {{}}] :
              cand' = [c \in Cands |-> IF c \in K THEN NewCand(0, FALSE, ps[c]) ELSE cand[c]]
    BY <1>5 DEF EvolutionReturns
  <2>2. \A d \in Cands : \/ cand'[d] = cand[d]
                         \/ d \notin Born /\ cand'[d].text = 0 /\ cand'[d].chain = 0
    BY <2>1 DEF NewCand
  <2> QED BY <1>0, <1>a, <2>2 DEF RowMatchesChain, ChainsKept
<1>6. ASSUME NEW j \in Jobs, MetaReviewReturns(j) PROVE Equal
  <2>1. \A d \in Cands : cand'[d] = cand[d] \/ cand'[d] = [cand[d] EXCEPT !.status = "pruned"]
    BY <1>6 DEF MetaReviewReturns
  <2>2. \A d \in Cands : cand'[d].text = cand[d].text /\ cand'[d].chain = cand[d].chain
    BY <1>0, <2>1 DEF CandRow
  <2> QED BY <1>b, <2>2
<1>7. ASSUME NEW c \in Cands, EditCandidate(c) PROVE Equal
  <2>1. \A d \in Cands : \/ cand'[d] = NewCand(edits + 1, TRUE, cand[c].parents)
                         \/ cand'[d] = [cand[d] EXCEPT !.recheck = TRUE, !.rerank = TRUE]
                         \/ cand'[d] = cand[d]
    BY <1>7 DEF EditCandidate, Edited
  <2>2. ASSUME NEW d \in Cands PROVE cand'[d].text = cand'[d].chain
    <3>1. [cand[d] EXCEPT !.recheck = TRUE, !.rerank = TRUE].text = cand[d].text
          /\ [cand[d] EXCEPT !.recheck = TRUE, !.rerank = TRUE].chain = cand[d].chain
      BY <1>0 DEF CandRow
    <3>2. LET u == NewCand(edits + 1, TRUE, cand[c].parents) IN u.text = u.chain
      BY DEF NewCand
    <3> QED BY <1>0, <2>1, <3>1, <3>2
  <2>3. Quiet /\ UNCHANGED job
    BY <1>7 DEF EditCandidate, MayEdit
  <2> QED BY <2>2, <2>3 DEF RowMatchesChain, ChainsKept
<1>8. ASSUME NEW c \in Cands, AddUserHypothesis(c) PROVE Equal
  <2>1. \A d \in Cands : cand'[d] = cand[d] \/ cand'[d] = NewCand(0, TRUE, {})
    BY <1>0, <1>8 DEF AddUserHypothesis
  <2>2. Quiet /\ UNCHANGED job
    BY <1>8 DEF AddUserHypothesis
  <2> QED BY <1>0, <2>1, <2>2 DEF NewCand, RowMatchesChain, ChainsKept
<1>9. ASSUME NEW c \in Cands, PatchCandidate(c) PROVE Equal
  <2>1. PICK reset : cand' = [cand EXCEPT ![c] = Patched(@, reset)]
    BY <1>9 DEF PatchCandidate
  <2>2. \A d \in Cands : \/ cand'[d] = cand[d]
                         \/ cand'[d] = NewCand(edits + 1, TRUE, cand[d].parents)
                         \/ cand'[d] = [cand[d] EXCEPT !.status = "alive",
                                                       !.text = edits + 1, !.chain = edits + 1]
    BY <1>0, <2>1 DEF Patched
  <2>3. ASSUME NEW d \in Cands PROVE cand'[d].text = cand'[d].chain
    <3>1. LET u == [cand[d] EXCEPT !.status = "alive", !.text = edits + 1, !.chain = edits + 1]
          IN  u.text = u.chain
      BY <1>0 DEF CandRow
    <3>2. LET u == NewCand(edits + 1, TRUE, cand[d].parents) IN u.text = u.chain
      BY DEF NewCand
    <3> QED BY <1>0, <2>2, <3>1, <3>2
  <2>4. Quiet /\ UNCHANGED job
    BY <1>9 DEF PatchCandidate, MayEdit
  <2> QED BY <2>3, <2>4 DEF RowMatchesChain, ChainsKept
<1>10. ASSUME Finalizing PROVE Equal
  <2>1. \A d \in Cands : cand'[d] = cand[d] \/ \E st : cand'[d] = [cand[d] EXCEPT !.status = st]
    BY <1>10, FinalizeTouches
  <2>2. \A d \in Cands : cand'[d].text = cand[d].text /\ cand'[d].chain = cand[d].chain
    BY <1>0, <2>1 DEF CandRow
  <2> QED BY <1>b, <2>2
<1> HIDE DEF Equal
<1>11. Equal
  BY <1>1, <1>2, <1>3, <1>4, <1>5, <1>6, <1>7, <1>8, <1>9, <1>10
     DEF Next, JobReturns, vars, CreatePool, RunRound, PlanReturns, SupervisorReturns,
         AgentFails, JobBreaks, Control, Crash, Finalizing
<1> QED BY <1>11 DEF Equal

\* A loop that waits either goes on with less to write, or has just listed
\* the rows as they are.
LEMMA ListingShrinks ==
    ASSUME TypeOK, [Next]_vars, NEW j \in Jobs, job'[j].pc = "reflect"
    PROVE  \/ job[j].pc = "reflect" /\ job'[j].todo \subseteq job[j].todo
           \/ /\ UNCHANGED cand
              /\ job'[j].todo = {[cand |-> c, text |-> cand[c].chain] : c \in AliveIn(cand)}
<1> DEFINE Listed == \/ job[j].pc = "reflect" /\ job'[j].todo \subseteq job[j].todo
                     \/ /\ UNCHANGED cand
                        /\ job'[j].todo = {[cand |-> c, text |-> cand[c].chain] : c \in AliveIn(cand)}
<1>0. job \in [Jobs -> Wait] /\ job[j] \in Wait
  BY DEF TypeOK
<1>1. CASE job'[j] = job[j]
  BY <1>1
<1>2. ASSUME job'[j] # job[j] PROVE Listed
  <2>1. CASE JobReturns(j)
    <3>1. CASE SupervisorReturns(j)
      <4>1. CASE EndJob(j, "succeeded")
        BY <1>0, <4>1 DEF EndJob, IdleJob
      <4>2. ASSUME NEW acts \in SUBSET RoundActions,
                   NEW r \in ReflectOrLater([job[j] EXCEPT !.acts = acts], cand),
                   job' = [job EXCEPT ![j] = r]
            PROVE  Listed
        <5>1. [job[j] EXCEPT !.acts = acts] \in Wait
          BY <1>0 DEF Wait
        <5>2. job'[j] = r
          BY <1>0, <4>2
        <5> QED BY <3>1, <5>1, <5>2, ReflectGoes DEF SupervisorReturns
      <4> QED BY <3>1, <4>1, <4>2 DEF SupervisorReturns
    <3>2. CASE ~SupervisorReturns(j)
      <4>1. Forward(j)
        BY <2>1, ReturnMovesForward
      <4>2. job[j].pc # "sup" \/ job'[j].pc # "reflect"
        BY <1>0, <2>1, <3>2
           DEF JobReturns, PlanReturns, SeedReturns, ReflectionReturns, RankingReturns,
               EvolutionReturns, MetaReviewReturns, AgentFails, JobBreaks, EndJob, IdleJob
      <4>3. job[j].pc # "plan" \/ job'[j].pc # "reflect"
        BY <1>0, <2>1, <3>2
           DEF JobReturns, PlanReturns, SeedReturns, ReflectionReturns, RankingReturns,
               EvolutionReturns, MetaReviewReturns, AgentFails, JobBreaks, EndJob, IdleJob, Wait
      <4>4. job[j].pc # "gen" \/ job'[j].pc # "reflect"
        <5>1. SeedReturns(j) => job'[j].pc \in {"gen", "sup", "failed"}
          <6>1. ASSUME SeedReturns(j), BeginRound(j) PROVE job'[j].pc \in {"sup", "failed"}
            BY <1>0, <6>1 DEF BeginRound, IdleJob, Wait
          <6> QED BY <6>1 DEF SeedReturns
        <5>2. AgentFails(j) \/ JobBreaks(j) => job'[j].pc = "failed"
          BY <1>0 DEF AgentFails, JobBreaks, EndJob, IdleJob
        <5> QED BY <2>1, <3>2, <5>1, <5>2
                DEF JobReturns, PlanReturns, ReflectionReturns, RankingReturns,
                    EvolutionReturns, MetaReviewReturns
      <4>5. job[j].pc = "reflect" => Shrinks(job'[j].todo, job[j].todo)
        BY <4>1 DEF Forward, Stage
      <4>6. job[j].pc \in {"plan", "gen", "sup", "reflect"}
        <5>1. job[j].pc \in Awaiting
          BY <2>1, ReturnMovesForward DEF Active
        <5>2. Stage(job[j].pc) <= 4
          <6>1. job[j].pc = job'[j].pc \/ Stage(job[j].pc) < Stage(job'[j].pc)
            BY <4>1 DEF Forward
          <6> QED BY <5>1, <6>1 DEF Stage, Awaiting
        <5> QED BY <5>1, <5>2 DEF Stage, Awaiting
      <4> QED BY <4>2, <4>3, <4>4, <4>5, <4>6 DEF Shrinks
    <3> QED BY <3>1, <3>2
  <2>2. ASSUME NEW k \in Jobs \ {j}, JobReturns(k) PROVE FALSE
    BY <1>2, <2>2, ReturnMovesForward
  <2>3. ASSUME NEW k \in Jobs, CreatePool(k) \/ RunRound(k) PROVE FALSE
    <3>1. k = j
      BY <1>0, <1>2, <2>3 DEF CreatePool, RunRound, BeginRound
    <3>2. job'[j].pc \in {"plan", "sup", "failed"}
      BY <1>0, <2>3, <3>1 DEF CreatePool, RunRound, BeginRound, IdleJob, Wait
    <3> QED BY <3>2
  <2>4. CASE Crash
    BY <1>0, <1>2, <2>4 DEF Crash, IdleJob
  <2> QED BY <1>2, <2>1, <2>2, <2>3, <2>4, FinalizeKeepsJobs
          DEF Next, vars, Control, EditCandidate, AddUserHypothesis, PatchCandidate
<1> QED BY <1>1, <1>2

\* What a loop has yet to write stays what the rows hold.
LEMMA ListedNext ==
    ASSUME TypeOK, ListedAsHeld, ChainsKept, [Next]_vars
    PROVE  ListedAsHeld'
<1> SUFFICES ASSUME NEW j \in Jobs, job'[j].pc = "reflect", NEW s \in job'[j].todo
             PROVE  s.cand \in Born' /\ s.text = cand'[s.cand].chain
  BY DEF ListedAsHeld
<1>1. CASE job[j].pc = "reflect" /\ job'[j].todo \subseteq job[j].todo
  <2>1. s.cand \in Born /\ s.text = cand[s.cand].chain
    BY <1>1 DEF ListedAsHeld
  <2>2. ~Quiet
    BY <1>1 DEF Quiet, Active, Awaiting
  <2> QED BY <2>1, <2>2, BornStays DEF ChainsKept
<1>2. CASE /\ UNCHANGED cand
           /\ job'[j].todo = {[cand |-> c, text |-> cand[c].chain] : c \in AliveIn(cand)}
  <2>1. PICK c \in AliveIn(cand) : s = [cand |-> c, text |-> cand[c].chain]
    BY <1>2
  <2> QED BY <1>2, <2>1 DEF AliveIn, Born
<1> QED BY <1>1, <1>2, ListingShrinks

LEMMA EqualInit == Init => RowMatchesChain /\ ListedAsHeld
BY DEF Init, RowMatchesChain, ListedAsHeld, NoCand, IdleJob

\* When nobody edits while a job runs, a candidate's statement and the chain
\* that reflections judge are the same text, even when rounds overlap, fail or
\* die half-way (_persist_reflection, _persist_user_intervention_candidate_state).
THEOREM PoolRowMatchesChain ==
    ASSUME EditInRound = FALSE
    PROVE  Spec => []RowMatchesChain
<1>1. TypeOK /\ RowMatchesChain /\ ListedAsHeld /\ [Next]_vars => RowMatchesChain' /\ ListedAsHeld'
  BY RowsStayEqual, ListedNext
<1> QED BY <1>1, EqualInit, PoolTyped, PTL DEF Spec
=============================================================================
