------------------------ MODULE RecycleConsumerProofs ------------------------
(***************************************************************************)
(* The consumer never cleans up under a running loop, never handles a      *)
(* batch more than 1 + max_retries times, never handles a settled batch    *)
(* again, and never fetches after a stop, for every number of batches and  *)
(* retries.                                                                *)
(***************************************************************************)
EXTENDS RecycleConsumer, TLAPS

\* The loop and its cleanup: a loop exists once the runner waits, and the
\* runner only cleans up, or is done after cleaning, when the loop is gone.
Lifecycle ==
    /\ runner \in {"created", "starting"} => loop = "none"
    /\ runner \in {"cleaning", "done"} => LoopGone
    /\ status = "stopped" => LoopGone
    /\ runner = "cancelling" => loop # "none"
    /\ runner \in {"created", "starting", "waiting"} => status # "stopped"

\* The pass: a batch in hand is held and has been called once per attempt.
PassInv ==
    /\ loop \notin Processing => batch = NoBatch /\ attempt = 0
    /\ loop = "fetch" => batch = NoBatch /\ attempt = 0
    /\ loop = "delay" => attempt < MaxRetries
    /\ batch # NoBatch => outcome[batch] = "held" /\ calls[batch] = attempt + 1
    /\ \A b \in Batches : outcome[b] = "unfetched" => calls[b] = 0

ConsumerInv == ConsumerTypeOK /\ Lifecycle /\ PassInv /\ AttemptsBounded

\* Before any task runs there is no loop, no batch and no call.
LEMMA InitInv == ConsumerInit => ConsumerInv
<1> SUFFICES ASSUME ConsumerInit PROVE ConsumerInv
  OBVIOUS
<1>1. ConsumerTypeOK
  <2>1. attempt \in 0..MaxRetries
    BY ConsumerAssumption DEF ConsumerInit
  <2>2. outcome \in [Batches -> Settled \cup {"unfetched", "held"}] /\ calls \in [Batches -> Nat]
    BY DEF ConsumerInit
  <2>3. batch \in Batches \cup {NoBatch}
    BY DEF ConsumerInit
  <2> QED BY <2>1, <2>2, <2>3 DEF ConsumerInit, ConsumerTypeOK
<1>2. Lifecycle
  BY DEF ConsumerInit, Lifecycle, LoopGone
<1>3. PassInv
  BY DEF ConsumerInit, PassInv, Processing
<1>4. AttemptsBounded
  BY ConsumerAssumption DEF ConsumerInit, AttemptsBounded
<1> QED BY <1>1, <1>2, <1>3, <1>4 DEF ConsumerInv

\* A pass that ends with an outcome leaves nothing in hand.
LEMMA EndOfPass ==
    ASSUME ConsumerInv, NEW what \in Settled, Settle(what), NextPass, UNCHANGED calls
    PROVE  /\ batch' = NoBatch /\ attempt' = 0
           /\ outcome' \in [Batches -> Settled \cup {"unfetched", "held"}]
           /\ \A b \in Batches : outcome'[b] = "unfetched" => outcome[b] = "unfetched"
           /\ \A b \in Batches : outcome[b] \in Settled => outcome'[b] = outcome[b]
<1>1. CASE batch = NoBatch
  BY <1>1 DEF Settle, NextPass, ConsumerInv, ConsumerTypeOK
<1>2. CASE batch # NoBatch
  <2>1. outcome' = [outcome EXCEPT ![batch] = what]
    BY <1>2 DEF Settle
  <2>2. batch \in Batches /\ outcome[batch] = "held"
    BY <1>2 DEF ConsumerInv, ConsumerTypeOK, PassInv
  <2> QED BY <2>1, <2>2 DEF NextPass, ConsumerInv, ConsumerTypeOK, Settled
<1> QED BY <1>1, <1>2

\* The part of ConsumerInv about the pass, which the runner does not touch.
PassTyped ==
    /\ batch \in Batches \cup {NoBatch}
    /\ attempt \in 0..MaxRetries
    /\ outcome \in [Batches -> Settled \cup {"unfetched", "held"}]
    /\ calls \in [Batches -> Nat]
PassOK == PassTyped /\ PassInv /\ AttemptsBounded

\* The part about the tasks.
TasksTyped ==
    /\ status \in {"idle", "starting", "running", "stopping", "stopped"}
    /\ stop \in BOOLEAN /\ cancelled \in BOOLEAN
    /\ runner \in {"created", "starting", "waiting", "draining", "cancelling", "cleaning", "done"}
    /\ loop \in {"none", "ready", "check", "failed", "timed_out", "done"} \cup Processing
TasksOK == TasksTyped /\ Lifecycle

LEMMA Parts == ConsumerInv <=> TasksOK /\ PassOK
BY DEF ConsumerInv, TasksOK, PassOK, ConsumerTypeOK, TasksTyped, PassTyped

LEMMA PartsNext == TasksOK' /\ PassOK' => ConsumerInv'
BY DEF ConsumerInv, TasksOK, PassOK, ConsumerTypeOK, TasksTyped, PassTyped

\* A step of the loop outside a pass, or into one, with nothing in hand.
LEMMA BetweenPasses ==
    ASSUME PassOK, UNCHANGED pass,
           loop' = loop \/ (loop \notin Processing \ {"fetch"} /\ loop' \notin Processing \ {"fetch"})
    PROVE  PassOK'
BY DEF PassOK, PassTyped, PassInv, AttemptsBounded, pass, Processing

\* A pass that ends.
LEMMA PassEnds ==
    ASSUME ConsumerInv, NEW what \in Settled, Settle(what), NextPass, UNCHANGED calls,
           loop' \notin Processing
    PROVE  PassOK'
<1>1. /\ batch' = NoBatch /\ attempt' = 0
      /\ outcome' \in [Batches -> Settled \cup {"unfetched", "held"}]
      /\ \A b \in Batches : outcome'[b] = "unfetched" => outcome[b] = "unfetched"
  BY EndOfPass
<1>2. PassOK
  BY Parts
<1>3. PassTyped'
  BY <1>1, <1>2, ConsumerAssumption DEF PassOK, PassTyped
<1>4. PassInv'
  BY <1>1, <1>2 DEF PassOK, PassInv, Processing
<1>5. AttemptsBounded'
  BY <1>2 DEF PassOK, AttemptsBounded
<1> QED BY <1>3, <1>4, <1>5 DEF PassOK

\* An error in a pass leaves it consistent: retried with what is in hand, or
\* ended.
LEMMA FailedPass ==
    ASSUME ConsumerInv, NEW e \in Errors, Failed(e), loop \in {"fetch", "handle"}
    PROVE  /\ PassOK'
           /\ loop' \in {"delay", "timed_out", "failed"}
           /\ \A b \in Batches : outcome[b] \in Settled => outcome'[b] = outcome[b]
           /\ UNCHANGED calls
<1>1. CASE Retryable(e) /\ MayRetry
  <2>1. loop' = "delay" /\ UNCHANGED pass
    BY <1>1 DEF Failed
  <2> QED BY <1>1, <2>1, Parts DEF PassOK, PassTyped, PassInv, AttemptsBounded, pass, Processing, MayRetry
<1>2. CASE ~(Retryable(e) /\ MayRetry) /\ e = "timeout"
  <2>1. loop' = "timed_out" /\ Settle("timeout") /\ NextPass /\ UNCHANGED calls
    BY <1>2 DEF Failed
  <2>2. "timeout" \in Settled
    BY DEF Settled
  <2> QED BY <2>1, <2>2, PassEnds, EndOfPass DEF Processing
<1>3. CASE ~(Retryable(e) /\ MayRetry) /\ e # "timeout"
  <2>1. loop' = "failed" /\ Settle("error") /\ NextPass /\ UNCHANGED calls
    BY <1>3 DEF Failed
  <2>2. "error" \in Settled
    BY DEF Settled
  <2> QED BY <2>1, <2>2, PassEnds, EndOfPass DEF Processing
<1> QED BY <1>1, <1>2, <1>3

-----------------------------------------------------------------------------
(* One lemma per kind of step *)

\* Any step of a loop that exists, which moves it to where a live or finished
\* loop may be, keeps the tasks consistent.
LEMMA LoopMoves ==
    ASSUME TasksOK, ~LoopGone, UNCHANGED consumer,
           loop' \in {"ready", "check", "failed", "timed_out", "done"} \cup Processing
    PROVE  TasksOK'
BY DEF TasksOK, TasksTyped, Lifecycle, LoopGone, consumer, Processing

LEMMA LoopStep ==
    ASSUME ConsumerInv, LoopRuns
    PROVE  ConsumerInv'
<1> USE Parts, PartsNext
<1>1. CASE Poll
  <2>1. UNCHANGED <<consumer, pass>> /\ loop = "ready" /\ loop' \in {"done", "check"}
    BY <1>1 DEF Poll
  <2>2. TasksOK'
    BY <2>1, LoopMoves DEF LoopGone, TasksOK, TasksTyped
  <2>3. PassOK'
    BY <2>1, BetweenPasses DEF Processing
  <2> QED BY <2>2, <2>3
<1>2. CASE CheckEnds
  <2>1. UNCHANGED <<consumer, pass>> /\ loop = "check" /\ loop' \in {"ready", "fetch", "failed"}
    BY <1>2 DEF CheckEnds, Consume
  <2>2. TasksOK'
    BY <2>1, LoopMoves DEF LoopGone, TasksOK, TasksTyped, Processing
  <2>3. PassOK'
    BY <2>1, BetweenPasses DEF Processing
  <2> QED BY <2>2, <2>3
<1>3. CASE FetchEnds
  <2>1. UNCHANGED consumer /\ loop = "fetch"
    BY <1>3 DEF FetchEnds
  <2>2. CASE loop' = "ready" /\ UNCHANGED pass
    <3>1. TasksOK'
      BY <2>1, <2>2, LoopMoves DEF LoopGone, TasksOK, TasksTyped
    <3>2. PassOK'
      BY <2>1, <2>2, BetweenPasses DEF Processing
    <3> QED BY <3>1, <3>2
  <2>3. ASSUME NEW b \in Batches, FetchBatch(b) PROVE ConsumerInv'
    <3>1. /\ outcome[b] = "unfetched" /\ loop' = "handle" /\ batch' = b /\ UNCHANGED attempt
          /\ outcome' = [outcome EXCEPT ![b] = "held"]
          /\ calls' = [calls EXCEPT ![b] = @ + 1]
      BY <2>3 DEF FetchBatch, Called, Batches, NoBatch
    <3>2. attempt = 0 /\ calls[b] = 0 /\ calls'[b] = 1 /\ PassTyped
      BY <2>1, <3>1 DEF PassOK, PassInv, PassTyped
    <3>3. TasksOK'
      BY <2>1, <3>1, LoopMoves DEF LoopGone, TasksOK, TasksTyped, Processing
    <3>4. PassTyped'
      BY <3>1, <3>2 DEF PassTyped
    <3>5. PassInv'
      BY <3>1, <3>2 DEF PassOK, PassInv, PassTyped, Processing
    <3>6. AttemptsBounded'
      BY <3>1, <3>2, ConsumerAssumption DEF PassOK, PassTyped, AttemptsBounded
    <3> QED BY <3>3, <3>4, <3>5, <3>6 DEF PassOK
  <2>4. ASSUME NEW e \in Errors, Failed(e) PROVE ConsumerInv'
    <3>1. PassOK' /\ loop' \in {"delay", "timed_out", "failed"}
      BY <2>1, <2>4, FailedPass
    <3>2. TasksOK'
      BY <2>1, <3>1, LoopMoves DEF LoopGone, TasksOK, TasksTyped, Processing
    <3> QED BY <3>1, <3>2
  <2> QED BY <1>3, <2>2, <2>3, <2>4 DEF FetchEnds
<1>4. CASE HandleEnds
  <2>1. UNCHANGED consumer /\ loop = "handle"
    BY <1>4 DEF HandleEnds
  <2>2. CASE Succeeded
    <3>1. loop' = "ready" /\ Settle("processed") /\ NextPass /\ UNCHANGED calls
      BY <2>2 DEF Succeeded
    <3>2. PassOK'
      BY <3>1, PassEnds DEF Settled, Processing
    <3>3. TasksOK'
      BY <2>1, <3>1, LoopMoves DEF LoopGone, TasksOK, TasksTyped
    <3> QED BY <3>2, <3>3
  <2>3. ASSUME NEW e \in Errors, Failed(e) PROVE ConsumerInv'
    <3>1. PassOK' /\ loop' \in {"delay", "timed_out", "failed"}
      BY <2>1, <2>3, FailedPass
    <3>2. TasksOK'
      BY <2>1, <3>1, LoopMoves DEF LoopGone, TasksOK, TasksTyped, Processing
    <3> QED BY <3>1, <3>2
  <2> QED BY <1>4, <2>2, <2>3 DEF HandleEnds
<1>5. CASE DelayEnds
  <2>1. /\ UNCHANGED <<consumer, batch, outcome>> /\ loop = "delay" /\ loop' = "handle"
        /\ attempt' = attempt + 1 /\ calls' = Called(batch)
    BY <1>5 DEF DelayEnds, NextAttempt
  <2>2. TasksOK'
    BY <2>1, LoopMoves DEF LoopGone, TasksOK, TasksTyped, Processing
  <2>3. attempt' \in 0..MaxRetries /\ PassTyped
    BY <2>1, ConsumerAssumption DEF PassOK, PassInv, PassTyped
  <2>4. CASE batch = NoBatch
    <3>1. calls' = calls
      BY <2>1, <2>4 DEF Called
    <3> QED BY <2>1, <2>2, <2>3, <2>4, <3>1
         DEF PassOK, PassInv, PassTyped, AttemptsBounded, Processing
  <2>5. CASE batch # NoBatch
    <3>1. /\ calls' = [calls EXCEPT ![batch] = @ + 1] /\ batch \in Batches
          /\ calls[batch] = attempt + 1 /\ outcome[batch] = "held"
      BY <2>1, <2>3, <2>5 DEF Called, PassTyped, PassOK, PassInv
    <3>2. PassTyped'
      BY <2>1, <2>3, <3>1 DEF PassTyped
    <3>3. PassInv'
      BY <2>1, <2>3, <3>1 DEF PassOK, PassInv, PassTyped, Processing
    <3>4. AttemptsBounded'
      BY <2>1, <2>3, <3>1, ConsumerAssumption DEF PassOK, PassTyped, AttemptsBounded
    <3> QED BY <2>2, <3>2, <3>3, <3>4 DEF PassOK
  <2> QED BY <2>4, <2>5
<1>6. CASE TimeOut
  <2>1. /\ UNCHANGED <<consumer, calls>> /\ loop \in Processing
        /\ loop' = "timed_out" /\ Settle("timeout") /\ NextPass
    BY <1>6 DEF TimeOut, Timed
  <2>2. PassOK'
    BY <2>1, PassEnds DEF Settled, Processing
  <2>3. TasksOK'
    BY <2>1, LoopMoves DEF LoopGone, TasksOK, TasksTyped, Processing
  <2> QED BY <2>2, <2>3
<1>7. CASE ReportEnds \/ TimeoutReportEnds
  <2>1. /\ UNCHANGED <<consumer, pass>> /\ loop \in {"failed", "timed_out"}
        /\ loop' \in {"ready", "done"}
    BY <1>7 DEF ReportEnds, TimeoutReportEnds
  <2>2. TasksOK'
    BY <2>1, LoopMoves DEF LoopGone, TasksOK, TasksTyped
  <2>3. PassOK'
    BY <2>1, BetweenPasses DEF Processing
  <2> QED BY <2>2, <2>3
<1> QED BY <1>1, <1>2, <1>3, <1>4, <1>5, <1>6, <1>7 DEF LoopRuns

LEMMA RunnerStep ==
    ASSUME ConsumerInv,
           Start \/ Initialized \/ InitializeFails \/ Cancel \/ Finish
    PROVE  ConsumerInv'
<1> USE Parts, PartsNext
<1>1. CASE Start \/ Initialized
  <2>1. PassOK'
    BY <1>1, BetweenPasses DEF Start, Initialized, Processing, TasksOK, Lifecycle
  <2>2. TasksOK'
    BY <1>1 DEF Start, Initialized, TasksOK, TasksTyped, Lifecycle, LoopGone
  <2> QED BY <2>1, <2>2
<1>2. CASE InitializeFails \/ Cancel
  <2>1. UNCHANGED <<loop, pass>>
    BY <1>2 DEF InitializeFails, Cancel
  <2>2. TasksOK'
    BY <1>2 DEF InitializeFails, Cancel, BeginShutdown, AfterCancel, TasksOK, TasksTyped, Lifecycle, LoopGone
  <2> QED BY <2>1, <2>2, BetweenPasses
<1>3. CASE DrainEnds \/ DrainTimesOut \/ CancelEnds \/ CleanupEnds
  <2>1. UNCHANGED <<loop, pass>>
    BY <1>3 DEF DrainEnds, DrainTimesOut, CancelEnds, CleanupEnds
  <2>2. TasksOK'
    BY <1>3 DEF DrainEnds, DrainTimesOut, DrainExpired, CancelEnds, CleanupEnds, AfterCancel,
       TasksOK, TasksTyped, Lifecycle, LoopGone
  <2> QED BY <2>1, <2>2, BetweenPasses
<1>4. CASE LoopCancelled
  <2>1. /\ UNCHANGED <<consumer, calls>> /\ runner = "cancelling"
        /\ loop' = "done" /\ Settle("cancelled") /\ NextPass
    BY <1>4 DEF LoopCancelled
  <2>2. PassOK'
    BY <2>1, PassEnds DEF Settled, Processing
  <2>3. TasksOK'
    BY <2>1 DEF consumer, TasksOK, TasksTyped, Lifecycle, LoopGone
  <2> QED BY <2>2, <2>3
<1> QED BY <1>1, <1>2, <1>3, <1>4 DEF Finish

-----------------------------------------------------------------------------
(* The theorems *)

LEMMA Inductive == ConsumerInv /\ [ConsumerNext]_consumerVars => ConsumerInv'
<1> SUFFICES ASSUME ConsumerInv, [ConsumerNext]_consumerVars PROVE ConsumerInv'
  OBVIOUS
<1>1. CASE ConsumerNext
  BY <1>1, LoopStep, RunnerStep DEF ConsumerNext
<1>2. CASE UNCHANGED consumerVars
  BY <1>2 DEF consumerVars, consumer, pass, ConsumerInv, ConsumerTypeOK, Lifecycle, PassInv, AttemptsBounded, LoopGone
<1> QED BY <1>1, <1>2

LEMMA Invariance == ConsumerSpec => []ConsumerInv
BY InitInv, Inductive, PTL DEF ConsumerSpec

\* The variables keep their types.
THEOREM ConsumerTyped == ConsumerSpec => []ConsumerTypeOK
<1>1. ConsumerInv => ConsumerTypeOK
  BY DEF ConsumerInv
<1> QED BY Invariance, <1>1, PTL

\* _cleanup runs only when the loop is gone, and a stopped consumer has none.
THEOREM ConsumerStopsClean == ConsumerSpec => []CleanStop
<1>1. ConsumerInv => CleanStop
  BY DEF ConsumerInv, Lifecycle, CleanStop
<1> QED BY Invariance, <1>1, PTL

\* No batch is handled more than 1 + max_retries times.
THEOREM ConsumerBoundsAttempts == ConsumerSpec => []AttemptsBounded
<1>1. ConsumerInv => AttemptsBounded
  BY DEF ConsumerInv
<1> QED BY Invariance, <1>1, PTL

\* After a stop request no message is taken from the source.
THEOREM ConsumerFetchesNoMore == ConsumerSpec => NoFetchAfterStop
<1>1. [ConsumerNext]_consumerVars => [stop /\ loop' = "fetch" => loop = "fetch"]_consumerVars
  BY DEF ConsumerNext, consumerVars, pass, consumer, LoopRuns, Finish, Poll, CheckEnds, Consume, FetchEnds, FetchBatch,
     HandleEnds, Failed, Succeeded, DelayEnds, TimeOut, ReportEnds, TimeoutReportEnds, LoopCancelled,
     Start, Initialized, InitializeFails, Cancel, DrainEnds, DrainTimesOut, CancelEnds, CleanupEnds
<1> QED BY <1>1, PTL DEF ConsumerSpec, NoFetchAfterStop

\* A settled batch keeps its outcome and is not handled again.
THEOREM ConsumerSettlesForGood == ConsumerSpec => SettledForGood
<1> DEFINE Kept == \A b \in Batches : outcome[b] \in Settled =>
                     outcome'[b] = outcome[b] /\ calls'[b] = calls[b]
<1>1. ConsumerInv /\ [ConsumerNext]_consumerVars => [Kept]_consumerVars
  <2> SUFFICES ASSUME ConsumerInv, ConsumerNext PROVE Kept
    OBVIOUS
  <2>1. CASE UNCHANGED pass
    BY <2>1 DEF pass
  <2>2. ASSUME NEW what \in Settled, Settle(what), NextPass, UNCHANGED calls PROVE Kept
    BY <2>2, EndOfPass
  <2>3. ASSUME NEW e \in Errors, Failed(e), loop \in {"fetch", "handle"} PROVE Kept
    BY <2>3, FailedPass
  <2>4. ASSUME NEW b \in Batches, FetchBatch(b) PROVE Kept
    <3>1. /\ outcome[b] = "unfetched"
          /\ outcome' = [outcome EXCEPT ![b] = "held"]
          /\ calls' = [calls EXCEPT ![b] = @ + 1]
      BY <2>4 DEF FetchBatch, Called, Batches, NoBatch
    <3> QED BY <3>1 DEF ConsumerInv, ConsumerTypeOK, Settled
  <2>5. CASE DelayEnds
    <3>1. UNCHANGED outcome /\ calls' = Called(batch)
      BY <2>5 DEF DelayEnds
    <3>2. CASE batch = NoBatch
      BY <3>1, <3>2 DEF Called
    <3>3. CASE batch # NoBatch
      BY <3>1, <3>3 DEF Called, ConsumerInv, ConsumerTypeOK, PassInv, Settled
    <3> QED BY <3>2, <3>3
  <2>6. CASE TimeOut \/ LoopCancelled
    <3>1. (Settle("timeout") \/ Settle("cancelled")) /\ NextPass /\ UNCHANGED calls
      BY <2>6 DEF TimeOut, LoopCancelled
    <3> QED BY <2>2, <3>1 DEF Settled
  <2>7. CASE FetchEnds
    BY <2>1, <2>3, <2>4, <2>7 DEF FetchEnds
  <2>8. CASE HandleEnds
    <3>1. CASE Succeeded
      BY <2>2, <3>1 DEF Succeeded, Settled
    <3> QED BY <2>3, <2>8, <3>1 DEF HandleEnds
  <2>9. \/ UNCHANGED pass
        \/ DelayEnds \/ TimeOut \/ LoopCancelled \/ FetchEnds \/ HandleEnds
    BY DEF ConsumerNext, LoopRuns, Finish, Poll, CheckEnds, ReportEnds, TimeoutReportEnds, Start, Initialized,
       InitializeFails, Cancel, DrainEnds, DrainTimesOut, CancelEnds, CleanupEnds
  <2> QED BY <2>1, <2>5, <2>6, <2>7, <2>8, <2>9
<1> QED BY Invariance, <1>1, PTL DEF ConsumerSpec, SettledForGood
=============================================================================
