# Verification of the Mironicky research backend

This directory holds TLA+ models of the Mironicky backend (`src/backend`), the
TLC configurations that check them on small instances, and TLAPS proofs of the
theorems that hold for every instance.

All paths below are under `src/backend/src/` unless they start with `src/`.

## The system

Mironicky is a research workspace on top of the EverMemOS memory framework. One
`uvicorn` process (`src/backend/run.py`) serves an HTTP API on one asyncio event
loop. Three layers matter here.

**The research layer** (`research_layer/`, about 42 000 lines) imports sources,
extracts candidate statements with a language model, lets a researcher confirm
them into a knowledge graph, generates and scores research routes, runs a
multi-agent hypothesis tournament, reacts to reported failures by recomputing
the graph, and packages results. Its state is a SQLite database behind
`ResearchApiStateStore` (`api/controllers/_state_store.py`). Long operations
are asyncio jobs of the same process; a handler or job gives the loop away only
where it awaits the language model, the memory backend or the network. Every
store call is synchronous and holds one lock. So the interleavings that exist
are those of whole stretches of code between two awaits, and the stores of data
read before an await and written after it.

**The framework core** (`core/`) has Redis-backed group queues, distributed
locks and caches, in-process message queues, long-running consumers, task
management, lifespans and dependency injection. Those parts are shared between
server processes through Redis and run by several coroutines; the research layer
does not import the queues, locks and consumers, the memory pipeline does.

**The memory pipeline** (`biz_layer/`, `memory_layer/`, `agentic_layer/`,
`service/`, `infra_layer/`) turns messages into memory cells and serves
retrieval from MongoDB, Elasticsearch and Milvus.

The frontend (`src/frontend`) polls jobs and sends control requests; it can send
a control, a finalize or a second autonomous loop while a round job runs
(`src/frontend/src/frontier.tsx`), which is why jobs overlap in the models.

### Inventory

| component | code | state | operations | hard behaviours | what makes it correct |
|---|---|---|---|---|---|
| Hypothesis pool | `research_layer/services/hypothesis_multi_agent_orchestrator.py`, `hypothesis_service.py`, hypothesis controller | pool row, candidates, reviews, matches, rounds, hypotheses | create, round, control, edit, add, patch, finalize | candidate snapshots kept over awaits, overlapping rounds, control racing round end, agent failure, a finalize that breaks off, process death | verdicts are about the text a candidate holds; only judged and reviewed candidates are promoted, of one selection, into a finalized pool; terminal pools stay terminal; jobs end |
| Candidate confirmation | `services/candidate_confirmation_service.py`, source controller | candidates, confirmed objects, graph nodes, edges, versions, workspace counts | confirm, reject, batch confirm | checks outside the transaction, idempotent graph writes, best-effort sync after commit | one object per candidate, no dangling edge, version per change |
| Failure and recompute | `failure_impact_service.py`, `recompute_service.py`, `version_diff_service.py`, failure controller | failures, node and edge status, routes, versions | report, apply, recompute | partial failure, repeated application, terminal targets | impact applied once, markers and diffs agree with the graph |
| Research jobs | `api/controllers/_job_runner.py`, store job rows | job rows, asyncio tasks | create, start, succeed, fail | cancellation, process death, two writers of one row | a row moves forward only, its outcome is final |
| Extraction | `workers/extraction_worker.py`, source controller | job rows, candidate batches, relations, source status, paper map, chunk cache | extract | chunks that fail or raise while others go on, two jobs on one source, a raise or a death among the last writes | candidates of the job's own memo, every chunk found in the batch or counted, job and batch and source agree, jobs end |
| Source import | `source_import_service.py`, `source_parser.py` | sources, artifacts | import, fetch, parse | network failure, duplicates | – |
| Scholarly lookup | `scholarly_source_service.py`, `scholarly_connector.py` | cached scholarly records | lookup | network failure, cache use | – |
| Graph | `graph_build_service.py`, `graph_query_service.py`, `graph/repository.py`, graph controller | nodes, edges, versions, workspace | build, edit, archive, query | edges to archived nodes, versions | no dangling active edge |
| Routes and scores | `route_generation_service.py`, `score_service.py`, `routing/`, `scoring/` | routes, scores, jobs of recomputes | generate, score, rank, delete | overlapping generations that each delete what they found before their await | routes of one generation, never none after one completed |
| Hypothesis triggers and single generation | `hypothesis_trigger_detector.py`, `hypothesis_service.py` | triggers, hypotheses | detect, generate, promote, reject, defer | – | – |
| Packages | `package_build_service.py`, package controller | packages, publish results, jobs | create, publish, replay | several publishing jobs, one that breaks off between its writes, routes deleted meanwhile | closed snapshot without private nodes, published once, with a result |
| Memory bridge and vault | `evermemos_bridge_service.py`, `memory_vault_service.py` | links, mirrored records | sync, recall | external failure, best effort | – |
| Retrieval views, commands, export, reports | `retrieval_views_service.py`, `research_command_service.py`, `graph_report_service.py`, `graphrag_service.py` | none of their own | read | – | – |
| State store | `api/controllers/_state_store.py` | all SQLite tables | row operations, transactions | one non-reentrant lock, no constraint on most statuses | modelled inside each component that uses it |
| Redis group queue | `core/queue/redis_group_queue/` | owner heartbeats, partition lists, queues, counter | join, exit, keepalive, deliver, get, clean-up, rebalance, reset | several processes, expiry of each key apart, lost owners and answers | one owner per partition, counter covers the queue and bounds it, messages served |
| Redis distributed lock | `core/lock/redis_distributed_lock.py` | lock key, owner, count, TTL | acquire, release, extend | expiry, lost replies, reentrancy | mutual exclusion while no TTL expires, balanced counts |
| Recycle consumer and long jobs | `core/longjob/` | lifecycle state, stop event, loop task | start, fetch, handle, retry, shutdown | shutdown racing start, retries, timeouts | clean stop, retries bounded, each message handled or reported |
| Message group queue | `core/queue/msg_group_queue/` | asyncio queues, counters, shutdown state | deliver, get, shutdown | used by nothing in the repository | – |
| Redis caches | `core/cache/redis_cache_queue/` | bounded sorted sets | append, trim, range | used by nothing in the repository | – |
| Task manager | `core/asynctasks/task_manager.py` | arq tasks | enqueue, run, retry | – | – |
| Rate limiter | `core/rate_limit/rate_limiter.py` | leaky bucket | acquire | – | rate bound |
| Lifespans, DI, middleware, context, tenants | `core/lifespan`, `core/di`, ... | providers | startup, shutdown | order of startup and shutdown | – |
| Memory pipeline | `biz_layer/mem_memorize.py`, `mem_db_operations.py`, request log and conversation status repositories, memory controller | request logs with sync status, conversation status, memcells, job queue | memorize | workers of one group overlap and mark what they did not read, client clocks against the server's, failing database calls, timeouts, redelivery | a used message is in a memcell, memcells share no message, status moves forward, requests end |
| Request status | `request_status_service.py`, app-logic middleware, memory controller, worker jobs (`task.py`), tasks of the research layer | status key in Redis, job of the id, tasks of the server | begin, enqueue, schedule, work, complete, expire | worker closes before the call completes, repeated call refused by the queue, tasks that close nothing, lost writes | reported as worked, "start" means work under way, status closes |
| Clusters and profiles | `cluster_manager.py`, clustering in `mem_memorize.py`, cluster-state and user-profile repositories | one document of clusters per group, profiles | load, cluster, save, profile | whole state read before an await and written after it, upserts that cross, a failed read that looks like no state | counts of a saved state agree with it, a profile counts its material |
| Retrieval | `agentic_layer` | none | search, rerank, embed | fallbacks, retries | – |
| Storage adapters | `infra_layer`, `core/oxm`, `core/component` | Mongo, Elasticsearch, Milvus, Redis, Kafka | CRUD | – | – |
| Frontend | `src/frontend` | browser state | – | polling | – |

## Modules

| module | models | extends or instantiates |
|---|---|---|
| `HypothesisPool` | the tournament pool, its candidates, rounds, jobs, requests | instantiates `ResearchJobs` |
| `KnowledgeGraph` | confirmation, build and edits of the graph | – |
| `FailureLoop` | failures and recomputes on top of the graph | extends `KnowledgeGraph` |
| `Extraction` | extraction jobs on one source, their chunks, cache and batch | instantiates `ResearchJobs` |
| `Routes` | generations of routes that overlap | instantiates `ResearchJobs` |
| `Packages` | snapshot and publishing of one package | instantiates `ResearchJobs` |
| `ResearchJobs` | what the row of a job promises whoever polls it (abstract) | – |
| `Memorize` | the messages of a group on their way into memcells | – |
| `RequestStatus` | the status of one request id | – |
| `Clustering` | the clusters of a group and the profiles made from them | – |
| `GroupQueue` | the Redis group queue that processes share | – |
| `ReentrantLock` | the Redis lock on one resource | instantiates `LeaseLock` |
| `LeaseLock` | what a lock with a time to live promises (abstract) | – |
| `RecycleConsumer` | the runner of a long job and its consumption loop | – |
| `MCHypothesisPool`, `MCFailureLoop`, `MCExtraction`, `MCMemorize`, `MCGroupQueue` | the instance of one module that TLC checks | extends the module |
| `MCWorkspace` | an instance of the graph by itself, and one of the graph with failures | extends `FailureLoop` |
| `MCServices` | instances of the lock, the consumer, routes, packages, request status and clusters side by side | extends the six |
| `MCPipelines` | instances of extraction and memorize side by side | extends `MCExtraction`, `MCMemorize` |
| `...Proofs` | theorems: of one module each, but `WorkspaceProofs` of `Routes`, `Packages` and `Extraction`, and `MemoryProofs` of `Memorize`, `RequestStatus` and `Clustering` | extends the modules and `TLAPS` |

`MCServices` and `MCPipelines` check components that share no state. A product
of them would only multiply their states, so a variable (`part`, `pipeline`)
is chosen in the initial state and the component it names moves while the others
stand still in their initial state: the behaviours are those of each component
alone. The fairness of an action of a component that stands still is vacuous,
since the action is never enabled, and the properties of such a component hold
of its initial state. `MCWorkspace` chooses in the same way between the graph
without failures and the graph that recomputes write into.

Each definition carries the name of the code it stands for, or says so in a
comment; `PROJECT.json` maps each to its lines.

### HypothesisPool

One pool. `pool`, `cand`, `reviews`, `judged`, `round` and `hyps` are the rows
of the tables (`hypothesis_candidate_pools`, `hypothesis_candidates`,
`hypothesis_reviews`, `hypothesis_matches`, `hypothesis_rounds`, `hypotheses`),
reduced to what decides a branch. `job[j]` is a background task: the agent it
awaits and what it read before it began to wait (the listed candidates with
their chains, the pairs, the parents, the number of the round). An action is
the code from one await to the next, so everything another task does in between
meets a `job[j]` that is out of date, as in the code.

| action | code |
|---|---|
| `CreatePool`, `PlanReturns`, `SeedReturns` | `create_pool` and the first round its job goes on with |
| `RunRound`, `SupervisorReturns` | `run_round`, up to and from the supervisor's plan |
| `ReflectionReturns` | the reflection loop and `_persist_reflection` |
| `RankingReturns` | ranking of one pair and its match row |
| `EvolutionReturns` | children, and their number |
| `MetaReviewReturns` | prune, round end, pool counter and status |
| `AgentFails` | the gateway, or the check of its answer, raises `ResearchLLMError`: round, pool and job failed |
| `JobBreaks` | anything else raises: only the controller catches it, so the job is failed and the rows of round and pool stay as they are |
| `EditCandidate`, `AddUserHypothesis`, `PatchCandidate` | the interventions of a researcher |
| `Control`, `Finalize` | control requests, `finalize_pool` of the orchestrator and of the service |
| `FinalizeBreaksOff` | a write of `finalize_pool` raises, or the process dies there: any of the statuses of the candidates, then the pool's, then any of the rows of hypotheses are written |
| `Crash` | the process dies: its tasks are gone, its rows stay |

The statement of a candidate is the number of the edit that wrote it; this is
enough to tell a stale text from a present one. Elo ratings only order lists,
and the order is left open. The journals in `reasoning_subgraph` and the search
tree are left out. Jobs are numbered in the order they start, and a round is only
asked for when some job, the one that created the pool, has succeeded.

### ReentrantLock and LeaseLock

`lock` is the Redis hash `{owner, count}`. A task nests blocks (`depth`), each
acquired by up to `Attempts` runs of the acquire script (`tries`). A call may
be lost before the script runs or its answer after it ran; a lost answer is
retried and drives the count up. `Vanish` is the expiry of the key or a
`force_unlock`; the time to live itself is abstracted. `Die` is a process that
goes away without releasing. `fresh` is a history variable: the blocks entered
since the key last vanished. It is what the refinement needs: counting fresh
blocks only, `ReentrantLock` implements `LeaseLock`, whose section is entered
when it is empty and left, or lost, at any time.

### RecycleConsumer

`runner` is the task of the long-job lifespan (`core/lifespan`), `loop` the
task `_consumer_loop`; both share one event loop. The abstract methods of a
subclass answer, raise a retryable error or raise a fatal one, freely, since no
subclass exists in the repository. A pass is one call of
`_process_single_message` under `wait_for`: `batch`, `attempt`. `outcome` and
`calls` are history. Timers are abstracted to "may fire while it is on".

### KnowledgeGraph

`candidate`, `objects`, `nodes`, `edges`, `versions`, `workspace` are the
tables; the id of a node is its position, so the rows that a build supersedes
stay under the ones it makes. `Confirm` is one SQL transaction with the node,
its relation and anchor edges, the version and the counts. `Build` clears and
writes row by row; `BuildDies` leaves any prefix of its writes. Edits by hand
create, patch and archive; an archive may die before its version or its counts.
`touched` is a history variable, set by an edit or a build cut short and cleared
by a build: between an edit and the next build the code does not keep the graph
consistent (an archived node keeps its active edges), so the consistency
properties speak of the time from a build to the next edit, and of a graph that
was never edited.

The handlers have no await between parsing the body and answering, hence one
action each. An archive leaves workspace counts over rows of every status,
a build those of the rows it made and a confirmation those of the active rows
(`AllRows`, `ActiveRows`); `WorkspaceCounts` says that from a build to the next
edit they count what is active.

### ResearchJobs

An abstract module: the rows of the table of jobs, each of which moves from
"queued" over "running" to an outcome and no further. The store has no such
rule (`start_job` and `finish_job_*` write any status over any other), so it is
for whoever runs a job to keep it. `PoolJobsKept`, `ExtractJobsKept`,
`RouteJobsKept` and `PublishJobsKept` map the jobs of four components to it
and are proved of every instance; they stand in no run. A row whose process died
is "running" for the table.

### FailureLoop

A recompute holds the event loop from start to end but writes row by row
without a transaction: every write is an action of its own, `TargetRaises` and
`ScoreRoutes` may raise, `Die` may follow any write, and the other requests only
come between recomputes (`job = Idle`). `penalties` is a history variable:
how often the strength of each target edge was lowered. Routes and scores are
abstracted to the errors they may raise.

### Extraction

`run[j]` is the worker of a job, `task[j][c]` its task for a chunk: reading the
memo, then several chunks at a time under a semaphore (`Width`), each in two
calls of the model. `job`, `batch`, `rows`, `relations`, `source` and `paperMap`
are rows of tables, `cache` the dictionary that jobs of one source share. A raise
of the store that meets the handler's own writes after a first one is left out.

| action | code |
|---|---|
| `Request`, `Begin`, `ParseFails`, `BeginRaises` | the handler, and the job up to the document reader |
| `ReadMemo`, `MemoFails` | the answer of the document reader |
| `ChunkStarts`, `ChunkUnits`, `ChunkRelations`, `ChunkFails`, `ChunkRaises` | `process_chunk`, which goes on when `gather` has raised for another chunk |
| `GatherRaises`, `AllChunksFailed` | ends without a batch |
| `FailureRaises` | the store raises while the worker writes one of these ends, and the handler writes job and source again |
| `Conclude`, `ConcludeRaises`, `RecallRaises` | the last writes, cut short after any of them, or failed over after all |
| `Die`, `DieConcluding` | the process dies; nothing is started again |

A chunk's units are the sequence of their texts; a text in `Unplaced` has no
span in the source; `Deduped` is the choice of one candidate per claim. The
candidates that the fallback makes up are a flag.

### Routes and Packages

`routes` holds the generation each row was written by. A generation begins by
writing its routes, remembers the ones it found (`found`), waits for summaries,
and then deletes what it found, or its own when it fails. `began` is history:
the order of beginnings, which the proofs need. `DeletingRaises` is a raise of
the store among the deletes: the handler then deletes the new routes as well.

`Packages` has the routes only as the set that is stored at the moment
(`RoutesChange`). `Build` is one handler without an await. The next node of a
route may be missing, may refer to a validation that is there or is not, or to
none (`NextOf`, `Referring`, `Formal`). A publishing job
writes the result, the status and its own row: `PublishBreaks` stops after any
of them.

### Memorize, RequestStatus and Clustering

In `Memorize` a message is a number, its place in the order of the log, and
stands for its request. The number is also the `created_at` of the log, which the
server writes; `Stamp` is the timestamp the client put into the message. A memcell
takes over the timestamp of its last message (`CellTime`), and the next history is
asked for from there on by `created_at` (`History`), so the two clocks meet.
`worker[r]` is where `memorize` is for it and what it
read: the history and the time of the last memcell. Every database call may fail
and be caught (`ok`), a job may time out (`JobTimesOut`) and a worker process
may die (`MemorizeDies`), after which the queue delivers again. `crossed` is
history: the requests that were in flight together. What is extracted from a
memcell is one action, `Extract`, for only whether it fails matters afterwards.

`RequestStatus` follows one request id through calls, the job of that id in the
queue, the tasks of the server and the key in Redis; `worked` and `repeated` are
history. The middleware is that of the whole application and leaves every call
answered 202 open. A call in `Background` hands its work to the queue, whose worker
closes the status; one in `InProcess`, which those of the research layer are, to
a task of the server (`Schedule`, `TaskEnds`), which does not.

In `Clustering` a task holds the whole state it loaded, joins any cluster the
similarity may name, and saves the state whole. `documents` and `profiles` are
sequences since an upsert that crosses another may add a second row.

### GroupQueue

Each Lua script is one action (`Join`, `Exit`, `Keepalive`, `CleanUp`,
`Rebalance`, `Deliver`, `Fetch`), since Redis runs it whole; what a process does
between two scripts of `get_messages` is `call[o]`. Every key expires by an
action of its own under the condition its expiry and renewals give. A delivery
may bring its own limit (`max_total_messages`), here one up to the manager's. A
lost call or answer, a stall, a start that meets a Redis that fails (`StartBreaks`)
and a reset by hand count as faults. `outlived` is history:
the lists that were left when the members' key expired, which no script deals
anew.

## Runs

`CHECK_DEADLOCK FALSE` stands in the configurations of the systems that really
stop: a pool whose jobs and requests are used up, a consumer whose runner is
done, a graph whose bounds are reached, requests that are all answered. The
group queue never stops and its run checks for deadlock.

| run | instance | what it shows |
|---|---|---|
| `pool_concurrent` | 2 seeds, 3 jobs that overlap, 2 rounds, 1 edit at any time, finalizes that break off | no interleaving of rounds and edits leaves a `survive` on a chain that was not reviewed; what is promoted was judged and reviewed |
| `pool_rounds` | 2 seeds, 1 child, 1 user candidate, 2 jobs one after the other, 1 edit between them, 1 control at any time, 2 promoted at most, finalizes that break off and are asked again | with jobs one at a time: statement and chain agree, what is promoted is one selection of a pool that is finalized, a terminal pool is not revived |
| `pool_liveness` | 2 seeds, 3 jobs: the one that creates the pool, then two rounds that overlap | every job that starts ends |
| `workspace` | the graph: 5 candidates in 3 batches of 2 sources, two with the same text, one relation and one self-relation, 5 nodes, 1 edit or crash; the graph with failures: 2 candidates, 1 failure with 1 or 2 targets of either severity, 6 nodes, 2 recomputes, 1 edit, process may die | confirmed once, one active row per object, edges join active nodes, relations drawn in either order, archived for good; markers once, an attached failure is applied in full and not again |
| `group_queue` | 2 processes, one of them steady, 2 partitions, 2 messages, limit 2, 1 fault | one owner per partition, none without owner while members have lists, counter covers the queue, messages served |
| `services` | lock: 2 tasks, 2 attempts, 3 nested blocks, expiry; consumer: 2 retries, 2 batches, both ways to shut down; routes: 3 generations, all as jobs, 2 routes each, 1 death or raise; packages: 4 routes with each kind of next node, 3 nodes, one private, 2 jobs, 1 break; request status: 4 calls, 2 with a job of the queue, 1 with a task of the server, 2 lapses; clusters: 3 memcells, 1 failure | the count covers the blocks and the lock is a lease; clean stop and settled batches; routes remain and are of one generation; closed snapshots published once; statuses as worked; counts that agree; and what was begun ends |
| `pipelines` | extraction: 2 jobs on one source, one lenient, a chunk and a focus chunk, width 1, 1 fault; memorize: 4 messages, one synchronous, the first with a clock ahead, the last by itself and without faults, 1 fault | candidates of the own memo, chunks accounted for, one story; used messages in memcells, memcells apart, status forward; everything ends |

Why the bounds are enough. In the pool the hazards need two rounds that cross
and one edit that falls between a read and its write. A pool is known only when
the job that created it has succeeded, so two rounds that cross take three jobs. The instances with overlap leave the
child out and the instances with the child leave overlap out: a child is a
candidate like another from the moment it is written. In the lock two tasks,
two attempts and three blocks cover a lost answer, a retry, an inner release and
an expiry under open blocks of both. In the consumer two retries distinguish
first, middle and last attempt, and two batches show whether one pass reaches
into the next. In the graph five candidates hold each case of a confirmation:
related, unrelated, evidence, anchor and duplicate, and four versions leave
room for confirmations, a build that dies, an edit and another build. In the
failure loop six nodes hold two statements, one build over them or the gap and
branch of two anchors. In the extraction two jobs share the cache under equal
and different memos, and a chunk with an empty and one with a full answer next to
the focus chunk show failure, duplicate and unplaced text; width 1 makes the
chunks wait for each other. In memorize the third message meets a first that
makes a memcell and a second that overlaps both; the fourth comes after all of
them and shows what they left unread. The first one's clock is two messages ahead:
without the exemption for it `UsedInMemcell` is violated. Three generations give one
that begins between the begin and the end of another, and one after both. Two
processes and two partitions let a partition change hands while each still has
one, and one fault is a lost call, a lost answer, a stall or a reset. Four
calls are a call, its repetition, a synchronous one and one that leaves its work to
the server. Three memcells make a
cluster that is large enough out of two and leave one to write over it.

`MaxCount`, `MaxNodes`, `MaxVersions`, `MaxEdits`, `MaxRuns`, `MaxControls`,
`MaxBatches`, `MaxDepth`, `MaxFaults`, `MaxDeaths`, `MaxBreaks`, `MaxSlips`,
`MaxLapses` and `MaxMisses` are the bounds that have no counterpart in the code;
the theorems hold for each value of them.

### Fairness

- Pool: weak fairness of each waiting job. Every await is a call of the
  language-model gateway, which has timeouts: it answers, or raises and the job
  fails. No request has to come and no process has to survive.
- Lock: weak fairness of a task's attempts: a call ends in an answer or an
  error, and the sleep between two is bounded. No task has to leave its block.
- Consumer: weak fairness of what the runner does after a cancel and of the
  timer of a pass. Nothing says that the methods of a subclass ever answer.
- Extraction, routes, memorize and request status: weak fairness of each job,
  generation, worker and of the work on the request. The event loop runs what is
  ready, each call of the model or the database ends or times out, and the queue
  delivers. No request has to come, and no raise or fault.
- Group queue: weak fairness of a call that is under way, of time, and, for the
  owners in `Steady` only, of polling, starting and the clean-up task: one
  process that stays up is enough, and the others may die at any time.
- Graph, failure loop, packages and clusters: none; only safety is stated.

### Disagreements between code and documents

Each of these runs checks one property that a document, comment or test states,
and TLC shows how the code departs from it.

| run | property | what happens |
|---|---|---|
| `pool_edited_text` | `PromotedTextReviewed` | a reflection that waited while the candidate was edited writes its chain back and clears the recheck mark; the edited statement is promoted without a review |
| `failure_penalty` | `PenaltyOnce` | a later target that is terminal stops the application after an edge lost strength; the retry takes strength again |
| `extraction_relations` | `RelationsOwnChunk` | unit ids are unique in a chunk only and are merged over the chunks, so a relation read in one chunk may join candidates of another |
| `memorize_used` | `UsedRemembered` | a worker that finds a boundary marks every unused message of the group used, also one logged after it read the history, which then is in no memcell |
| `request_start` | `KeptUntilFinished` | a call answered 202 whose work is a task of the server leaves its request at "start" after the task has ended |

What `memorize_used` is measured by is what the repository calls the status 1,
"fully used". Another docstring of the same repository says that all pending and
accumulating data is marked, which is what the code does; the run shows that the
two do not go together.

Seen while modelling, in the models, and not given runs of their own:

- Two overlapping rounds read the same counter and take the same number
  (`src/backend/docs/mironicky/DOMAIN_MODEL.md:417`). So do a round whose
  process dies, which stays "running", and the round after it; the numbers of
  completed rounds are unique when jobs come one at a time
  (`PoolRoundsNumbered`).
- A supervisor that pauses, or asks to retrieve, in the last round leaves a pool
  that can be resumed, and the next round goes past `max_rounds`, at which the
  rounds may end (`HYPOTHESIS_ENGINE_SPEC.md:385`).
- Two tasks of two processes whose objects have one address share the lock,
  against the docstring of `_get_owner_id`
  (`core/lock/redis_distributed_lock.py:224`); the theorems of the lock assume
  that owner ids differ.
- After a retryable error in the fetch the next attempt skips it and calls
  `_handle_message(None)` (`core/longjob/recycle_consumer_base.py:445`).
- When the store raises among the deletes of a generation, the old routes
  deleted so far and the new ones are gone: `RoutesRemain` leaves this out.
- A job of a request that is cut off by its timeout leaves the status at
  "start" until it expires, since its except clause does not catch the
  cancellation; so does a repeated call whose job the queue refuses.
- A finalize that breaks off among the rows of hypotheses leaves a finalized pool
  with a part of its selection, and a second finalize answers with the rows it
  finds: the rest is never written. `PromotionFinal` therefore says "of one selection" and not "the whole".
- An exception that is no `ResearchLLMError` leaves the round and the pool
  "running" although the job is failed.
- The end of a late round writes "running" or "stopped" over whatever status the
  pool has by then, also over "finalized", when rounds overlap; `TerminalStays`
  and `PromotionFinal` are stated for jobs one at a time.
- A client whose clock is ahead ends a memcell in the server's future: messages
  logged until then are left out of every history, and are marked used with the
  next memcell. `UsedInMemcell` leaves them out (`Overtaken`).
- A start of the group-queue manager while Redis fails breaks off in the fallback
  of the statistics, after `_running` was set; a second start then begins no
  periodic tasks.
- An edit or patch puts a pruned or finalized candidate back to alive
  (`DOMAIN_MODEL.md:396`, `:398`), and the fallback of finalize promotes
  reviewed candidates whatever their status (`HYPOTHESIS_ENGINE_SPEC.md:524`).
- `handle_error` that answers False to a timeout does not stop the loop
  (`core/longjob/interfaces.py:125`), and `is_running` stays true after the
  loop ended by itself (`interfaces.py:97`).
- A failure is accepted against archived and superseded rows
  (`FAILURE_LOOP_SPEC.md:212`); a milder one lifts an invalidated edge to
  weakened; a rebuild makes failed and weakened nodes active again while the
  failure stays attached.
- Archiving a superseded row of an old build keeps its object out of every
  later build; archiving a node leaves its active edges until the next build.
- A build draws relations of a statement with itself, a confirmation does not;
  relation candidates suppress anchors per batch in a confirmation and per
  source in a build.
- Workspace counts are those of all rows after an archive or a recompute and
  those of the active rows after a confirmation or a build; a build puts them
  right (`GraphWorkspaceCounts`).

## Proofs

All proofs hold for every value of the constants allowed by the assumptions in
the modules (`PoolAssumption`, `LockAssumption`, `ConsumerAssumption`,
`GraphAssumption`, `FailureAssumption`, `QueueAssumption`, `ExtractAssumption`,
`RoutesAssumption`, `PackagesAssumption`, `MemorizeAssumption`,
`StatusAssumption`, `ClusteringAssumption`), which TLC evaluates on each instance.

| module | theorems | argument |
|---|---|---|
| `HypothesisPoolProofs` (reviews) | `PoolTyped`, `PoolSurvivorReviewed`, `PoolPromotedJudgedAndReviewed` | `PoolInv == TypeOK /\ SurvivorReviewed /\ PromotedJudgedAndReviewed` is inductive. Finalize promotes candidates whose verdict is `survive`, so the third part needs the second: the verdict is about the chain the row holds now. An edit takes the verdict away; a late reflection writes back the chain it judged together with its verdict. |
| `HypothesisPoolProofs` (jobs) | `PoolJobsAdvance`, `PoolTerminalStays`, `PoolPromotionFinal` | `Stage` numbers the steps of a job; each of its own steps goes to a later stage or shortens what the stage has left to do, and a step of another job or of the console leaves it alone. That is the half of `JobsEnd` that is not fairness. For jobs one at a time, a pool that is finalized, stopped or failed stays so, since only a job under way writes the status. With that, rows of hypotheses imply a finalized pool: they are written after its status, nothing takes that status back, and a finalize that finds a row writes nothing, so all rows are those of one selection. |
| `HypothesisPoolProofs` (job rows) | `PoolJobsFinal` | The map to `ResearchJobs` step by step: a job leaves "idle" once, ends once, and no action of another job, of the console or of a dying process writes an outcome over one. `Stage` says which stage is before which. |
| `HypothesisPoolProofs` (round numbers) | `PoolRoundsNumbered` | `RoundsInv`: a job in a round holds the number after the pool's, and the completed rounds are those up to it. A round that completes writes its number into the pool at the same step, so the next begins after it; with overlap two jobs hold one number. |
| `HypothesisPoolProofs` (chains) | `PoolRowMatchesChain` | A row and its chain are written by two statements; what makes them equal again is that the listing a job holds is a listing of rows that have not moved since. `ListedAsHeld` says so, and it holds only while nobody edits in a round. |
| `ReentrantLockProofs` | `LockCountCovers`, `LockKeepsLease`, `LockExcludes` | `CountCovers` alone is inductive only with the types: releases lower the count by one while `fresh` falls by one, lost calls and answers only leave the count higher. The refinement maps a first fresh block to `Enter`, a last one or a `Vanish` to `LeaveOrLapse`, the rest to stuttering. Exclusion adds that without expiry every block is fresh. |
| `RecycleConsumerProofs` | `ConsumerTyped`, `ConsumerStopsClean`, `ConsumerBoundsAttempts`, `ConsumerSettlesForGood`, `ConsumerFetchesNoMore` | `ConsumerInv` adds to the types the lifecycle (which runner states go with which loop states and with a set stop event) and the pass (a batch in work is held, and its calls are bounded by the attempt). |
| `KnowledgeGraphProofs` | `GraphConfirmsOnce`, `GraphEdgesJoin`, `GraphOneActiveRow`, `GraphRelationsDrawn`, `GraphArchivesForGood`, `GraphWorkspaceCounts` | `GraphInv` is inductive: the types, `EndsExist`, `EdgesJoinActiveNodes`, `ConfirmedOnce`, `RefsConfirmed`, `RowsMatch` and `RelationsDrawn`. `EndsExist` is why an edge of a new row cannot meet an old edge: a build or a confirmation makes rows no edge names yet. `RebuiltRows` and `BuiltEdges` say what a build of any length makes. `OneActiveRow` is not inductive alone: a confirmation looks for no row of its candidate. It makes the first one because the row's reference is the candidate (`RowsMatch`, `RefsConfirmed`) and a candidate is confirmed once. `RelationsDrawn` needs both: a relation is drawn between the rows of its ends, and there is one of each. For `WorkspaceCounts`, what a build made is an interval of row numbers (`MadeInARow`), and nothing else is active after it. |
| `FailureLoopProofs` | `FailureInvariant`, `FailureMarksOnce`, `FailureAttachesWhole`, `FailureAppliedNoMore`, `FailureRevivesNone`, `FailureRowsRebuilt`, `FailureWorkspaceCounts`, `RecomputeAdvances`, `RecomputeNeverStuck` | `FailInv` takes `GraphInv` along, since the failure loop writes into the same tables, and adds how far the job is (`Progress`): every target before the one in work was hit, and every marker of the targets that are done is there. That makes `Attach` attach whole. A marker is made only when no row has its reference, hence once. A marker is a row without a candidate, which is why the failure loop keeps `GraphInv` and all that follows from it (`FailureRowsRebuilt`). That a recompute ends is two theorems: the targets still to hit and the markers a failure lacks (`Lacking`) only become fewer, and of an unmarked anchor one node or edge is always due. The bound on rows is left out of "due": `Start` sees to it that it is not met. |
| `GroupQueueProofs` | `QueueTyped`, `PartitionHasOneOwner`, `PartitionsAllOwned`, `CounterCoversQueue`, `CallsEnd` | Dealing gives each partition to one member whatever the lists were; lists of others can only be those of `StraysOutlived`. After a dealing every partition is on the list of a member (`AllOwned`), for the dealing covers the partitions and each later change of the members deals again. The counter falls by what a get removes, and a clean-up counts anew. `CallsEnd` counts the scripts a call has left: a join costs a retry, and a call that joins has one (`RetriesLeft`). |
| `WorkspaceProofs` (routes) | `RoutesOfOne`, `RoutesStay` | Generations are ordered by when they began. `FoundIsOlder`: a generation finds exactly the earlier ones that have routes, so of two that completed the later has deleted the earlier's. `OwnOrLater`: a generation that was not failed has its routes, or a later one took them; the latest has its own, which is an argument about the greatest of a finite set (`GreatestExists`). |
| `WorkspaceProofs` (packages) | `PackagesAreClosed`, `PackagesPublishOnce` | A snapshot is made closed and never changed; of the publishing jobs a succeeded one left the status published, which each looks at first. |
| `WorkspaceProofs` (extraction) | `ExtractionTellsOneStory`, `ExtractionOwnMemo`, `ExtractionAccounted` | `StoryInv` names the only job the source speaks of. `MemoInv` says that a cache entry keeps the memo it is found under and that a job has no units before its memo. `AccountInv` says that no chunk of a succeeded job moves any more, so that what its batch told stays true. |
| `WorkspaceProofs` (extraction, ends) | `ExtractJobsAdvance`, `ExtractNeverStuck` | `RunStage` and `ChunkStage` number the places of a worker and of a chunk; a move of a job takes one of them to a later place and sets none back, and no move of another job touches them. A job in its chunks has a move: if no chunk raised, holds a permit or is through, all wait, and the semaphore has a permit since `Width` is positive. No chunk of a live job is lost (`ChunksLive`). |
| `WorkspaceProofs` (job rows) | `ExtractJobsFinal`, `RouteJobsFinal`, `PublishJobsFinal` | Each maps its jobs to `ResearchJobs`: every action writes the row of one job, and only where the job is not over. |
| `MemoryProofs` (memorize) | `MessagesMoveForward`, `MemcellsStayApart`, `UsedIsInMemcell` | `MemorizeBase` is types and that what was read was logged. For `MemcellsApart` the messages of a marked memcell are used, so that a worker that reads later does not read them; for `UsedInMemcell`, without faults, every message that did not cross another request, and that no memcell's time had overtaken, is in the history of the worker that marks it. |
| `MemoryProofs` (request status) | `RequestReportedAsWorked`, `RequestStartUnderWay` | A call that ended has its outcome among those worked; "start" is a call that will write its outcome, a job that will or a task of the server that runs; a task that ended is named among what leaves it open. |
| `MemoryProofs` (clusters) | `ClustersAgree`, `ProfilesCountTheirMaterial` | Whatever a task holds or saves is a sane state (`SaneState`), for loads and saves are of whole states; a sane state stays sane when one memcell joins. |

Further assumptions: the pool theorems about reviews assume
`FALSE \notin PatchResets`, since a patch that asks to keep the review state may
change the statement and leave the old verdict; `PoolTerminalStays`,
`PoolPromotionFinal` and `PoolRoundsNumbered` assume `Overlap = FALSE`, for the console can start a job
while another runs, and `PoolRowMatchesChain` `EditInRound = FALSE`, for it can
edit in a round. These properties are stated for what the code keeps when the
user waits, and the lists of disagreements say what happens when not; the lock theorems assume
`OwnersDistinct`, which the code does not see to by itself (see the
disagreements), and `LockExcludes` also that keys do not expire. `AttemptsBounded`
and `NoFetchAfterStop` of the consumer, the exclusion of the lock, the numbers of
rounds, the counts of the workspace and the four maps to `ResearchJobs`, and the theorems on ends are
proved and stand in no run.

`GraphAssumption` keeps the objects of candidates apart from what other rows
refer to, since the id of an object is made up when its candidate is confirmed
(`_state_store.py:2961`), and `FailureAssumption` the markers from the nodes a
user adds.

Only model-checked: liveness (fairness and ENABLED are out of the prover's
reach): `JobsEnd`, `Served`, `ShutdownEnds`, `BatchesSettle`, `ServicesEnd`,
`PipelinesEnd`. Of `JobsEnd` the half that is no matter of fairness is proved
(`PoolJobsAdvance`), and so it is of the extraction's part of `PipelinesEnd`
(`ExtractJobsAdvance`, `ExtractNeverStuck`), of the calls of `Served`
(`CallsEnd`) and of recomputes (`RecomputeAdvances`, `RecomputeNeverStuck`). Induction over data and RECURSIVE operators are not used.

## Not modelled

The table of components in `PROJECT.json` gives the reason for each. In short:

- Of the modelled components: Elo ratings, search trees and journals of the pool;
  claims, evidence and memory mirrors of a confirmation; labels, tags and diffs
  of the graph; scores, ranks and the challenge of a route; tables and figures
  of an extraction; what is extracted from a memcell; the review of a package.
- What a job's row carries beside its status. The runner and its handler of
  errors are part of each model that has jobs. Nothing recovers the row of a job
  whose process died.
- `core/queue/msg_group_queue/` and `core/cache/redis_cache_queue/`: nothing in
  the repository uses them outside their own packages, so no state of them is
  one the program can be in.
- Triggers, single hypotheses and decisions: one check and one write, or one
  write after one call of the model, with no other actor between.
- Source import, scholarly lookup, the memory bridge and vault, the gateway:
  calls of other systems whose failures are caught and recorded.
- Task manager and rate limiter: wrappers of libraries that hold the state.
- Everything that is parsing, formatting, prompts, reads or plain I/O.

SQLite is taken to run each statement, or each transaction, whole: one
connection behind one lock. MongoDB and Redis are taken to run each call, or
each script, whole.

## What was built, and what is left

Built in order of importance: the pool (overlap and stale reads), the lock
(shared between processes), the consumer (shutdown against retries), the graph
(confirmations, builds), the failure loop on top of it, the group queue, the
extraction, routes and packages, and of the memory pipeline the way of a message,
the status of a request and the clusters.

Left to model: an Elo ledger for overlapping rounds; what is extracted from a
memcell (episodes, event logs, foresights) and its deletion; the routes of
`Routes` on the graph of `KnowledgeGraph`, which share the workspace but no
hazard found so far.

Left to prove: the liveness properties, for which the tools here do not serve.
