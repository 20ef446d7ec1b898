--------------------------- MODULE RecycleConsumer ---------------------------
(***************************************************************************)
(* A long job: a runner task that starts a consumer, waits until the       *)
(* application cancels it and shuts the consumer down, and the consumption *)
(* loop, a task of its own.  Both run on one asyncio event loop, so each   *)
(* action is the code between two awaits.                                  *)
(*                                                                         *)
(* A subclass gives _initialize, _has_messages, _fetch_message,            *)
(* _handle_message and _cleanup, and the configuration an error handler;   *)
(* each answers or raises as it likes.  Delays are abstracted: a timer may *)
(* fire whenever the wait it guards is still on.                           *)
(***************************************************************************)
EXTENDS Integers

CONSTANTS MaxRetries,   \* retry_config.max_retries
          RetryOnFatal, \* retry_config.retry_on_fatal
          Waits,        \* values of wait_for_current_task that callers pass
          MaxBatches    \* bound on the batches _fetch_message returns

ASSUME ConsumerAssumption ==
    /\ MaxRetries \in Nat /\ MaxBatches \in Nat
    /\ RetryOnFatal \in BOOLEAN /\ Waits \subseteq BOOLEAN /\ Waits # {}

VARIABLES status,    \* LongJobStatus
          stop,      \* _stop_event is set
          runner,    \* where the runner task is
          cancelled, \* the application cancelled the runner
          loop,      \* where the loop task is; "none" before it is created
          batch,     \* message_batch of the present pass, or NoBatch
          attempt,   \* attempt of the present pass
          outcome,   \* history: what became of each batch
          calls      \* history: calls of _handle_message with each batch

consumer == <<status, stop, runner, cancelled>>
pass == <<batch, attempt, outcome, calls>>
consumerVars == <<consumer, loop, pass>>

NoBatch == 0
Batches == 1..MaxBatches
Settled == {"processed", "error", "timeout", "cancelled"}

\* "timeout" is TimeoutError, "network" the other retryable errors, "fatal"
\* those is_retryable_error answers False for.
Errors == {"timeout", "network", "fatal"}

ConsumerInit ==
    /\ status = "idle" /\ stop = FALSE
    /\ runner = "created" /\ cancelled = FALSE
    /\ loop = "none" /\ batch = NoBatch /\ attempt = 0
    /\ outcome = [b \in Batches |-> "unfetched"]
    /\ calls = [b \in Batches |-> 0]

-----------------------------------------------------------------------------
(* _process_single_message *)

Called(b) == IF b = NoBatch THEN calls ELSE [calls EXCEPT ![b] = @ + 1]
Settle(what) ==
    outcome' = IF batch = NoBatch THEN outcome ELSE [outcome EXCEPT ![batch] = what]

NextPassKeepsBatch == UNCHANGED batch /\ attempt' = 0
\* message_batch and attempt are local to a pass.
NextPass == batch' = NoBatch /\ attempt' = 0

Retryable(e) == e # "fatal" \/ RetryOnFatal
MayRetry == attempt < MaxRetries
NextAttempt == attempt + 1

\* The except clause: sleep before the next attempt, or give up and raise.
\* _consume_messages takes a TimeoutError, whoever raised it, for its own.
Failed(e) ==
    IF Retryable(e) /\ MayRetry
    THEN loop' = "delay" /\ UNCHANGED pass
    ELSE IF e = "timeout"
    THEN loop' = "timed_out" /\ Settle("timeout") /\ NextPass /\ UNCHANGED calls
    ELSE loop' = "failed" /\ Settle("error") /\ NextPass /\ UNCHANGED calls

Succeeded == loop' = "ready" /\ Settle("processed") /\ NextPass /\ UNCHANGED calls

\* The batch the source hands out next.
FetchBatch(b) ==
    /\ outcome[b] = "unfetched" /\ \A c \in 1..(b - 1) : outcome[c] # "unfetched"
    /\ loop' = "handle"
    /\ batch' = b
    /\ outcome' = [outcome EXCEPT ![b] = "held"]
    /\ calls' = Called(b)
    /\ UNCHANGED attempt

\* _fetch_message, on the first attempt only, answers nothing or an empty
\* batch, answers a batch, or raises.
FetchEnds ==
    /\ loop = "fetch"
    /\ \/ loop' = "ready" /\ UNCHANGED pass
       \/ \E b \in Batches : FetchBatch(b)
       \/ \E e \in Errors : Failed(e)
    /\ UNCHANGED consumer

HandleEnds ==
    /\ loop = "handle"
    /\ Succeeded \/ \E e \in Errors : Failed(e)
    /\ UNCHANGED consumer

\* The retry passes message_batch as it is, None when the fetch raised.
DelayEnds ==
    /\ loop = "delay"
    /\ loop' = "handle"
    /\ attempt' = NextAttempt
    /\ calls' = Called(batch)
    /\ UNCHANGED <<consumer, batch, outcome>>

-----------------------------------------------------------------------------
(* _consume_loop and _consume_messages *)

\* The head of the loop.
Poll ==
    /\ loop = "ready"
    /\ loop' = IF stop THEN "done" ELSE "check"
    /\ UNCHANGED <<consumer, pass>>

\* _consume_messages looks at the stop event again: _has_messages awaited.
Consume == IF stop THEN "ready" ELSE "fetch"

\* _has_messages answers no, answers yes, or raises.
CheckEnds ==
    /\ loop = "check"
    /\ loop' \in {"ready", Consume, "failed"}
    /\ UNCHANGED <<consumer, pass>>

Processing == {"fetch", "handle", "delay"}
TimedCallsOnly == loop \in {"fetch", "handle"}
Timed == loop \in Processing

\* wait_for cuts the pass off, wherever it awaits, its retry delays included.
TimeOut ==
    /\ Timed /\ runner # "cancelling"
    /\ loop' = "timed_out"
    /\ Settle("timeout") /\ NextPass
    /\ UNCHANGED <<consumer, calls>>

\* handle_error of the loop: False breaks it; it may also raise.
ReportEnds ==
    /\ loop = "failed"
    /\ loop' \in {"ready", "done"}
    /\ UNCHANGED <<consumer, pass>>

\* handle_error after a timeout: on False timeout_error is raised inside the
\* try whose own handler logs it, and the loop goes on.
TimeoutReportEnds ==
    /\ loop = "timed_out"
    /\ loop' = "ready"
    /\ UNCHANGED <<consumer, pass>>

\* A cancelled task runs no further than its present await.
LoopRuns ==
    /\ runner # "cancelling"
    /\ \/ Poll \/ CheckEnds \/ FetchEnds \/ HandleEnds \/ DelayEnds
       \/ TimeOut \/ ReportEnds \/ TimeoutReportEnds

LoopCancelled ==
    /\ runner = "cancelling" /\ loop # "done"
    /\ loop' = "done"
    /\ Settle("cancelled") /\ NextPass
    /\ UNCHANGED <<consumer, calls>>

-----------------------------------------------------------------------------
(* The runner: run_longjob_mode, start and shutdown *)

LoopGone == loop \in {"none", "done"}
NotAwaited == "cleaning"
AfterCancel == IF LoopGone THEN "cleaning" ELSE "cancelling"

\* shutdown, up to its first await.
BeginShutdown ==
    /\ status' = "stopping"
    /\ stop' = TRUE
    /\ \E wait \in Waits :
         runner' = IF LoopGone THEN "cleaning" ELSE IF wait THEN "draining" ELSE AfterCancel

\* start, up to _initialize.
Start ==
    /\ runner = "created"
    /\ runner' = "starting"
    /\ status' = "starting"
    /\ UNCHANGED <<stop, cancelled, loop, pass>>

Initialized ==
    /\ runner = "starting"
    /\ runner' = "waiting"
    /\ status' = "running"
    /\ loop' = "ready"
    /\ UNCHANGED <<stop, cancelled, pass>>

\* start sets ERROR and raises; the runner shuts the job down at once.
InitializeFails ==
    /\ runner = "starting"
    /\ BeginShutdown
    /\ UNCHANGED <<cancelled, loop, pass>>

\* The application shuts down and cancels the runner once, before its first
\* step, in start, in its endless wait, or in the cleanup after a failed
\* start, which is cut short.
Cancel ==
    /\ ~cancelled
    /\ cancelled' = TRUE
    /\ \/ runner \in {"created", "cleaning"} /\ runner' = "done" /\ UNCHANGED <<status, stop>>
       \/ runner \in {"starting", "waiting"} /\ BeginShutdown
    /\ UNCHANGED <<loop, pass>>

DrainEnds ==
    /\ runner = "draining" /\ LoopGone
    /\ runner' = "cleaning"
    /\ UNCHANGED <<status, stop, cancelled, loop, pass>>

WaitsForever == runner = "draining" /\ LoopGone
DrainExpired == runner = "draining" /\ ~LoopGone

\* The shutdown timeout: the loop is cancelled and awaited.
DrainTimesOut ==
    /\ DrainExpired
    /\ runner' = AfterCancel
    /\ UNCHANGED <<status, stop, cancelled, loop, pass>>

CancelEnds ==
    /\ runner = "cancelling" /\ LoopGone
    /\ runner' = "cleaning"
    /\ UNCHANGED <<status, stop, cancelled, loop, pass>>

\* _cleanup ends; an error in it is logged.
CleanupEnds ==
    /\ runner = "cleaning"
    /\ runner' = "done"
    /\ status' = "stopped"
    /\ UNCHANGED <<stop, cancelled, loop, pass>>

Finish == DrainEnds \/ DrainTimesOut \/ CancelEnds \/ CleanupEnds \/ LoopCancelled

ConsumerNext ==
    \/ Start \/ Initialized \/ InitializeFails \/ Cancel \/ LoopRuns \/ Finish

\* The two timers fire, a cancelled task ends, and _cleanup ends.  Nothing
\* says that the subclass's other methods ever answer.
ConsumerFairness == WF_consumerVars(Finish) /\ WF_consumerVars(TimeOut)

ConsumerSpec == ConsumerInit /\ [][ConsumerNext]_consumerVars /\ ConsumerFairness

-----------------------------------------------------------------------------
(* Properties *)

ConsumerTypeOK ==
    /\ status \in {"idle", "starting", "running", "stopping", "stopped"}
    /\ stop \in BOOLEAN /\ cancelled \in BOOLEAN
    /\ runner \in {"created", "starting", "waiting", "draining", "cancelling", "cleaning", "done"}
    /\ loop \in {"none", "ready", "check", "failed", "timed_out", "done"} \cup Processing
    /\ batch \in Batches \cup {NoBatch}
    /\ attempt \in 0..MaxRetries
    /\ outcome \in [Batches -> Settled \cup {"unfetched", "held"}]
    /\ calls \in [Batches -> Nat]

\* _cleanup never releases resources under a loop that still runs, and a
\* stopped consumer has no loop, whenever the shutdown came.
CleanStop == runner = "cleaning" \/ status = "stopped" => LoopGone

\* No batch is given to _handle_message more than 1 + max_retries times.
AttemptsBounded == \A b \in Batches : calls[b] <= MaxRetries + 1

\* A batch that was processed, reported or cut off is not handled again: the
\* attempts of one pass never reach into the next.
SettledForGood ==
    [][\A b \in Batches : outcome[b] \in Settled =>
         outcome'[b] = outcome[b] /\ calls'[b] = calls[b]]_consumerVars

\* Once a stop is requested no further message is taken from the source, even
\* when the request came while the loop awaited _has_messages.
NoFetchAfterStop == [][stop /\ loop' = "fetch" => loop = "fetch"]_consumerVars

\* A cancelled runner comes to its end, however long a message takes.
ShutdownEnds == cancelled ~> runner = "done"

\* A batch taken from the source is processed, reported or cut off.
BatchesSettle == \A b \in Batches : outcome[b] = "held" ~> outcome[b] \in Settled
=============================================================================
