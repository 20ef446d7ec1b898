----------------------------- MODULE Extraction -----------------------------
(***************************************************************************)
(* Extraction jobs on one source.  A job reads a memo of the whole paper,  *)
(* then the chunks of the source, several at a time, each in two calls of  *)
(* the language model: its argument units, and the relations among them.   *)
(* What came back becomes the candidates and relations of a batch.         *)
(*                                                                         *)
(* The worker gives the event loop away only at these calls, so an action  *)
(* is the code from one call to the next.  Chunks go on when another chunk *)
(* has raised, for gather cancels none.  The store may raise among the     *)
(* last writes, and the process may die between or among them.  A second   *)
(* raise, in what the handler writes after the first, is left out.         *)
(*                                                                         *)
(* Abstracted: the units of a chunk are the sequence of their texts, and   *)
(* unit_id is the place in it; a text in Unplaced is not found in the      *)
(* source.  Candidates made up by the fallback are the flag made_up.       *)
(***************************************************************************)
EXTENDS Integers, Sequences, FiniteSets, Functions

CONSTANTS Jobs,      \* job ids
          Lenient,   \* jobs asked for with x-research-llm-allow-fallback
          Planned,   \* number of chunks of the plan
          Memos,     \* what the document reader may answer
          NoMemo,    \* the empty answer
          Grounded,  \* memos with quotes of the source
          Answers,   \* what the unit extractor may answer for each chunk
          Unplaced,  \* texts that no span of the source resembles
          Numbered,  \* texts that state a numbered hypothesis of the paper
          Width,     \* RESEARCH_SOURCE_EXTRACT_CHUNK_CONCURRENCY
          MaxFaults  \* bound on raises that are no error of the model, and deaths

ASSUME ExtractAssumption ==
    /\ IsFiniteSet(Jobs) /\ Lenient \subseteq Jobs
    /\ Planned \in Nat /\ Width \in Nat \ {0} /\ MaxFaults \in Nat
    /\ NoMemo \in Memos /\ Grounded \subseteq Memos \ {NoMemo}
    /\ \A c \in 1..(Planned + 1) : \A a \in Answers[c] : a \in Seq(Range(a))

VARIABLES job,       \* status of the row of jobs
          batch,     \* status, partial_failure_count and made_up of the job's batch
          rows,      \* candidates of the batch
          relations, \* relation_candidates of the batch
          source,    \* status and last_extract_job_id
          paperMap,  \* content of the paper_map artifact
          cache,     \* source_chunk_cache
          run,       \* where each worker is, and its memo
          task,      \* where the worker's task for each chunk is, and what it got
          faults     \* so far, for the bound

batchRows == <<batch, rows, relations>>
extractVars == <<job, batchRows, source, paperMap, cache, run, task, faults>>

Chunks == 1..(Planned + 1)
Focus == Planned + 1
NoEntry == [units |-> <<>>, memo |-> NoMemo, hit |-> FALSE]
Unread == [at |-> "none", units |-> <<>>, memo |-> NoMemo, linked |-> FALSE]

ExtractInit ==
    /\ job = [j \in Jobs |-> "none"]
    /\ batch = [j \in Jobs |-> [status |-> "none", partial |-> 0, madeUp |-> FALSE]]
    /\ rows = [j \in Jobs |-> {}] /\ relations = [j \in Jobs |-> {}]
    /\ source = [status |-> "imported", last |-> {}]
    /\ paperMap = NoMemo
    /\ cache = [c \in Chunks |-> [m \in Memos |-> NoEntry]]
    /\ run = [j \in Jobs |-> [pc |-> "idle", memo |-> NoMemo]]
    /\ task = [j \in Jobs |-> [c \in Chunks |-> Unread]]
    /\ faults = 0

At(j, pc) == run' = [run EXCEPT ![j].pc = pc]
JobIs(j, status) == job' = [job EXCEPT ![j] = status]
BatchIs(j, status) == batch' = [batch EXCEPT ![j].status = status]
SourceIs(status, j) == source' = [status |-> status, last |-> {j}]

\* The raise that follows is not one of the model's errors.
Fault == faults < MaxFaults /\ faults' = faults + 1

-----------------------------------------------------------------------------
(* From the request to the memo *)

Request(j) ==
    /\ job[j] = "none"
    /\ JobIs(j, "queued") /\ At(j, "queued")
    /\ UNCHANGED <<batchRows, source, paperMap, cache, task, faults>>

\* The source is parsed and its artifacts replaced, the paper map too.
Begin(j) ==
    /\ run[j].pc = "queued"
    /\ JobIs(j, "running") /\ BatchIs(j, "running") /\ SourceIs("parsed", j)
    /\ paperMap' = NoMemo
    /\ At(j, "memo")
    /\ UNCHANGED <<rows, relations, cache, task, faults>>

FailedButForTheSource(j) ==
    BatchIs(j, "failed") /\ JobIs(j, "failed") /\ At(j, "ended") /\ UNCHANGED source
\* Batch, job and source, as every error but a death ends.
Failed(j) ==
    /\ BatchIs(j, "failed") /\ JobIs(j, "failed") /\ SourceIs("extract_failed", j)
    /\ At(j, "ended")

ParseFails(j) ==
    /\ run[j].pc = "queued"
    /\ Failed(j)
    /\ UNCHANGED <<rows, relations, paperMap, cache, task, faults>>

\* The store raises before the worker takes errors for its own.
BeginRaises(j) ==
    /\ run[j].pc = "queued" /\ Fault
    /\ batch' \in {batch, [batch EXCEPT ![j].status = "running"]}
    /\ JobIs(j, "failed") /\ SourceIs("extract_failed", j) /\ At(j, "ended")
    /\ UNCHANGED <<rows, relations, paperMap, cache, task>>

ReadMemo(j, m) ==
    /\ run[j].pc = "memo"
    /\ run' = [run EXCEPT ![j] = [pc |-> "chunks", memo |-> m]]
    /\ paperMap' = IF m = NoMemo THEN paperMap ELSE m
    /\ task' = [task EXCEPT ![j] = [c \in Chunks |->
           IF c = Focus /\ m \notin Grounded THEN @[c] ELSE [@[c] EXCEPT !.at = "waiting"]]]
    /\ UNCHANGED <<job, batchRows, source, cache, faults>>

\* Fallback is not allowed, or not for this error.
MemoFails(j) ==
    /\ run[j].pc = "memo"
    /\ Failed(j)
    /\ UNCHANGED <<rows, relations, paperMap, cache, task, faults>>

-----------------------------------------------------------------------------
(* process_chunk *)

HeldUnlessFailed(j) == {c \in Chunks : task[j][c].at \in {"units", "relations", "failed"}}
\* The chunks that hold a permit of the semaphore.
Holding(j) == {c \in Chunks : task[j][c].at \in {"units", "relations"}}

ForTheChunk(m) == NoMemo
\* The part of the cache key that is not the chunk: paper_map_hash.
CacheKey(m) == m

Finished(t) == [t EXCEPT !.at = "done"]
\* The relations are asked for unless there are no units.
WithUnits(t, entry) ==
    LET got == [t EXCEPT !.units = entry.units, !.memo = entry.memo, !.at = "relations"]
    IN  IF entry.units = <<>> THEN Finished(got) ELSE got

ChunkStarts(j, c) ==
    /\ task[j][c].at = "waiting"
    /\ Cardinality(Holding(j)) < Width
    /\ LET entry == cache[c][CacheKey(run[j].memo)]
       IN  task' = [task EXCEPT ![j][c] = IF entry.hit THEN WithUnits(@, entry)
                                          ELSE [@ EXCEPT !.at = "units"]]
    /\ UNCHANGED <<job, batchRows, source, paperMap, cache, run, faults>>

ChunkUnits(j, c, units) ==
    /\ task[j][c].at = "units"
    /\ LET entry == [units |-> units, memo |-> run[j].memo, hit |-> TRUE]
       IN  /\ cache' = [cache EXCEPT ![c][CacheKey(run[j].memo)] = entry]
           /\ task' = [task EXCEPT ![j][c] = WithUnits(@, entry)]
    /\ UNCHANGED <<job, batchRows, source, paperMap, run, faults>>

ChunkRelations(j, c, linked) ==
    /\ task[j][c].at = "relations"
    /\ linked => Len(task[j][c].units) >= 2
    /\ task' = [task EXCEPT ![j][c] = Finished([@ EXCEPT !.linked = linked])]
    /\ UNCHANGED <<job, batchRows, source, paperMap, cache, run, faults>>

\* An error of the model: the chunk keeps the units it has.
ChunkFails(j, c) ==
    /\ c \in Holding(j)
    /\ task' = [task EXCEPT ![j][c].at = "failed"]
    /\ UNCHANGED <<job, batchRows, source, paperMap, cache, run, faults>>

ChunkRaises(j, c) ==
    /\ c \in Holding(j) /\ Fault
    /\ task' = [task EXCEPT ![j][c].at = "raised"]
    /\ UNCHANGED <<job, batchRows, source, paperMap, cache, run>>

\* The first raise ends the gather, and the job with it.
GatherRaises(j) ==
    /\ run[j].pc = "chunks"
    /\ \E c \in Chunks : task[j][c].at = "raised"
    /\ Failed(j)
    /\ UNCHANGED <<rows, relations, paperMap, cache, task, faults>>

-----------------------------------------------------------------------------
(* The batch *)

FailedChunks(j) == {c \in Chunks : task[j][c].at = "failed"}
FailedAtUnits(j) == {c \in FailedChunks(j) : task[j][c].units = <<>>}

Row(j, c, u) == [chunk |-> c, unit |-> u, text |-> task[j][c].units[u], memo |-> task[j][c].memo]
\* In the order of the chunks, and of the units in them.
Before(r, s) == r.chunk < s.chunk \/ (r.chunk = s.chunk /\ r.unit < s.unit)
Raw(j) ==
    {r \in UNION {{Row(j, c, u) : u \in DOMAIN task[j][c].units} : c \in Chunks} :
        r.text \notin Unplaced}

Same(r, s) == r.text = s.text
First(s, raw) == \A q \in raw : Same(q, s) => q = s \/ Before(s, q)
\* Of the candidates with the same claim one stays, in the first one's place:
\* the first, or of a numbered hypothesis one that dedupe_preference sets above.
Deduped(raw) ==
    {kept \in SUBSET raw :
        /\ \A r \in raw : \E s \in kept : Same(r, s)
        /\ \A r, s \in kept : Same(r, s) => r = s
        /\ \A r \in kept : r.text \in Numbered \/ First(r, raw)}
Place(r, raw) == CHOOSE s \in raw : Same(r, s) /\ First(s, raw)

\* unit_candidate_ids: of the rows with a unit id the last, of whatever chunk.
UnitCandidate(raw, kept, u) ==
    {r \in kept : /\ r.unit = u
                  /\ \A s \in kept : s.unit = u /\ s # r => Before(Place(s, raw), Place(r, raw))}

\* The first unit supports the second; an end without a candidate leaves it
\* unresolved.
Relations(j, raw, kept) ==
    {[chunk |-> c, from |-> UnitCandidate(raw, kept, 1), to |-> UnitCandidate(raw, kept, 2)] :
        c \in {d \in Chunks : task[j][d].linked}}
Resolved(r) == r.from # {} /\ r.to # {}

CountedAtUnits(j) == FailedAtUnits(j)
Counted(j) == FailedChunks(j)
\* A second filling up, after a memo that failed, is not told apart.
Partial(j, madeUp) == Cardinality(Counted(j)) + IF madeUp THEN 1 ELSE 0

\* Of the last writes, which are the candidates, the batch, the relations, the
\* trace, the source and the job, those of the batch's rows among the first n.
Wrote(j, kept, madeUp, n, status) ==
    /\ rows' = IF n >= 1 THEN [rows EXCEPT ![j] = kept] ELSE rows
    /\ relations' = IF n >= 3 THEN [relations EXCEPT ![j] = Relations(j, Raw(j), kept)]
                    ELSE relations
    /\ batch' = [batch EXCEPT ![j] =
           [status |-> status, madeUp |-> n >= 1 /\ madeUp,
            partial |-> IF n >= 4 THEN Partial(j, madeUp) ELSE 0]]

\* Without fallback a job none of whose chunks gave a candidate fails if one
\* of them failed.
AllFailed(j) == j \notin Lenient /\ Raw(j) = {} /\ Counted(j) # {}

AllRead(j) ==
    run[j].pc = "chunks" /\ \A c \in Chunks : task[j][c].at \in {"none", "done", "failed"}
\* A memo that failed leaves no chunk to read where fallback is allowed.
ReadyToConclude(j) == (AllRead(j) /\ ~AllFailed(j)) \/ (run[j].pc = "memo" /\ j \in Lenient)
\* Whether candidates are made up: where fallback is allowed and there are
\* too few, which there are without a chunk.
MadeUp(j) == IF run[j].pc = "memo" THEN {TRUE} ELSE {b \in BOOLEAN : b => j \in Lenient}

Conclude(j) ==
    /\ ReadyToConclude(j)
    /\ \E kept \in Deduped(Raw(j)), madeUp \in MadeUp(j) :
          Wrote(j, kept, madeUp, 6, "succeeded")
    /\ SourceIs("extracted", j) /\ JobIs(j, "succeeded") /\ At(j, "ended")
    /\ UNCHANGED <<paperMap, cache, task, faults>>

\* The store raises after n writes; the event after the job's row may, too.
ConcludeRaises(j) ==
    /\ ReadyToConclude(j) /\ Fault
    /\ \E kept \in Deduped(Raw(j)), madeUp \in MadeUp(j), n \in 0..6 :
          Wrote(j, kept, madeUp, n, "failed")
    /\ SourceIs("extract_failed", j) /\ JobIs(j, "failed") /\ At(j, "ended")
    /\ UNCHANGED <<paperMap, cache, task>>

\* The store raises after the worker has succeeded, when the candidates are
\* read for a recall: the job is failed over its success.
RecallRaises(j) ==
    /\ ReadyToConclude(j) /\ Fault
    /\ \E kept \in Deduped(Raw(j)), madeUp \in MadeUp(j) :
          Wrote(j, kept, madeUp, 6, "succeeded")
    /\ SourceIs("extract_failed", j) /\ JobIs(j, "failed") /\ At(j, "ended")
    /\ UNCHANGED <<paperMap, cache, task>>

AllChunksFailed(j) ==
    /\ AllRead(j) /\ AllFailed(j)
    /\ Failed(j)
    /\ UNCHANGED <<rows, relations, paperMap, cache, task, faults>>

\* Where the worker may come to fail the job.
MayFail(j) ==
    \/ run[j].pc \in {"queued", "memo"}
    \/ run[j].pc = "chunks" /\ \E c \in Chunks : task[j][c].at = "raised"
    \/ AllRead(j) /\ AllFailed(j)

\* The store raises while the worker writes that, after the batch or before,
\* and the handler writes job and source once more.
FailureRaises(j) ==
    /\ MayFail(j) /\ Fault
    /\ batch' \in {batch, [batch EXCEPT ![j].status = "failed"]}
    /\ JobIs(j, "failed") /\ SourceIs("extract_failed", j) /\ At(j, "ended")
    /\ UNCHANGED <<rows, relations, paperMap, cache, task>>

-----------------------------------------------------------------------------
(* Death of the process *)

\* No worker and no task goes on, nor is one started again.
AllLost ==
    /\ run' = [j \in Jobs |-> IF run[j].pc \in {"queued", "memo", "chunks"}
                              THEN [run[j] EXCEPT !.pc = "lost"] ELSE run[j]]
    /\ task' = [j \in Jobs |-> [c \in Chunks |->
           IF task[j][c].at \in {"waiting", "units", "relations"}
           THEN [task[j][c] EXCEPT !.at = "lost"] ELSE task[j][c]]]

Die ==
    /\ Fault /\ AllLost
    /\ UNCHANGED <<job, batchRows, source, paperMap, cache>>

DieConcluding(j) ==
    /\ ReadyToConclude(j) /\ Fault
    /\ \E kept \in Deduped(Raw(j)), madeUp \in MadeUp(j), n \in 0..5 :
          /\ Wrote(j, kept, madeUp, n, IF n >= 2 THEN "succeeded" ELSE "running")
          /\ IF n >= 5 THEN SourceIs("extracted", j) ELSE UNCHANGED source
    /\ AllLost
    /\ UNCHANGED <<job, paperMap, cache>>

-----------------------------------------------------------------------------

ChunkMoves(j, c) ==
    \/ ChunkStarts(j, c)
    \/ \E units \in Answers[c] : ChunkUnits(j, c, units)
    \/ \E linked \in BOOLEAN : ChunkRelations(j, c, linked)
    \/ ChunkFails(j, c)

WorkerMoves(j) ==
    \/ Begin(j) \/ ParseFails(j)
    \/ \E m \in Memos : ReadMemo(j, m)
    \/ MemoFails(j) \/ GatherRaises(j) \/ AllChunksFailed(j) \/ Conclude(j)

JobMoves(j) == WorkerMoves(j) \/ \E c \in Chunks : ChunkMoves(j, c)

ExtractNext ==
    \/ \E j \in Jobs : Request(j)
    \/ \E j \in Jobs : JobMoves(j)
    \/ \E j \in Jobs, c \in Chunks : ChunkRaises(j, c)
    \/ \E j \in Jobs : BeginRaises(j) \/ FailureRaises(j) \/ ConcludeRaises(j) \/ RecallRaises(j)
    \/ \E j \in Jobs : DieConcluding(j)
    \/ Die

\* The loop runs what is ready, and a call of the model ends or times out.
ExtractSpec ==
    /\ ExtractInit /\ [][ExtractNext]_extractVars
    /\ \A j \in Jobs : WF_extractVars(JobMoves(j))

-----------------------------------------------------------------------------
(* Properties *)

\* Types, and rows and relations only where the batch was written.
ExtractTypeOK ==
    /\ job \in [Jobs -> {"none", "queued", "running", "succeeded", "failed"}]
    /\ batch \in [Jobs -> [status : {"none", "running", "succeeded", "failed"},
                           partial : Nat, madeUp : BOOLEAN]]
    /\ source.status \in {"imported", "parsed", "extracted", "extract_failed"}
    /\ source.last \subseteq Jobs /\ paperMap \in Memos
    /\ run \in [Jobs -> [pc : {"idle", "queued", "memo", "chunks", "ended", "lost"}, memo : Memos]]
    /\ faults \in 0..MaxFaults
    /\ \A j \in Jobs : rows[j] \subseteq Raw(j)

\* Whatever two jobs on the source share through the cache, a candidate was
\* extracted under the memo of its own job.
OwnMemo == \A j \in Jobs : \A r \in rows[j] : r.memo = run[j].memo

\* What a succeeded job's chunks found is in its batch, once per claim, and
\* every chunk it did not read to its end is counted in the batch.
Accounted ==
    \A j \in Jobs : job[j] = "succeeded" =>
        /\ {r.text : r \in rows[j]} = {r.text : r \in Raw(j)}
        /\ \A r, s \in rows[j] : r.text = s.text => r = s
        /\ batch[j].partial = 0 =>
              \A c \in Chunks :
                  /\ task[j][c].at \in {"none", "done"}
                  /\ task[j][c].at = "none" => c = Focus

\* Job, batch and source tell one story of every job that was not cut short
\* by a death, however two jobs overlap and wherever one is stopped; only where
\* the store raised outside the worker may the batch differ from a failed job.
OneStory ==
    /\ \A j \in Jobs : run[j].pc = "ended" =>
          /\ job[j] \in {"succeeded", "failed"}
          /\ batch[j].status = job[j] \/ (job[j] = "failed" /\ faults > 0)
    /\ \A j \in source.last : run[j].pc # "lost" =>
          job[j] = CASE source.status = "parsed" -> "running"
                            [] source.status = "extracted" -> "succeeded"
                            [] source.status = "extract_failed" -> "failed"

\* The jobs that were asked for end, unless the process dies: no chunk keeps
\* the others from their turn for ever.
JobsEnd == <>[](\A j \in Jobs : run[j].pc \in {"idle", "ended", "lost"})

\* What argument_relation_rebuilder_prompt.txt asks of a resolved relation,
\* that the text it was read from supports it: its ends state what the two
\* units of its chunk state.
RelationsOwnChunk ==
    \A j \in Jobs : \A l \in relations[j] : Resolved(l) =>
        /\ \A r \in l.from : r.text = task[j][l.chunk].units[1]
        /\ \A r \in l.to : r.text = task[j][l.chunk].units[2]

\* The rows of jobs move forward and an outcome is final, though worker and
\* handler both write them and a death may cut either short.
ExtractTable == INSTANCE ResearchJobs WITH row <- job
ExtractJobsKept == ExtractTable!Spec
=============================================================================
