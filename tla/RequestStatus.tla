--------------------------- MODULE RequestStatus ---------------------------
(***************************************************************************)
(* The status of one request id: "start" when a call arrives, "success" or *)
(* "failed" when the call ends, unless it was answered 202.  What a call   *)
(* answered 202 leaves to be done is a job of the queue, whose worker      *)
(* closes the status, or, for the endpoints of the research layer, a task  *)
(* of the server, which does not.  A caller may repeat a call with the     *)
(* same id, the queue takes no second job of that id while the first or    *)
(* its result is there, and every write of the status may fail unseen.     *)
(*                                                                         *)
(* Abstracted: after a failed write further ones are skipped for a while,  *)
(* which is the write failing again.                                       *)
(***************************************************************************)
EXTENDS Integers, FiniteSets

CONSTANTS Calls,      \* calls with this request id
          Background, \* those answered 202 with a job of the queue
          InProcess,  \* those answered 202 with a task of the server
          MaxLapses   \* bound on failed writes, timeouts and deaths

ASSUME StatusAssumption ==
    /\ Background \subseteq Calls /\ InProcess \subseteq Calls \ Background
    /\ MaxLapses \in Nat

VARIABLES requestStatus, \* status in Redis, "none" when there is no key
          call,          \* where each call is
          job,           \* the job of this id in the queue
          serverTask,    \* what each call left to a task of the server
          worked,        \* history: outcomes of the work, of calls and jobs
          repeated,      \* history: a call whose job the queue did not take
          lapses         \* so far, for the bound

statusVars == <<requestStatus, call, job, serverTask, worked, repeated, lapses>>

StatusInit ==
    /\ requestStatus = "none" /\ job = "none"
    /\ call = [c \in Calls |-> "idle"] /\ serverTask = [c \in Calls |-> "none"]
    /\ worked = {} /\ repeated = FALSE /\ lapses = 0

Lapse == lapses < MaxLapses /\ lapses' = lapses + 1
CallAt(c, pc) == call' = [call EXCEPT ![c] = pc]

\* update_request_status tells nobody that it failed.
Write(s) ==
    \/ requestStatus' = s /\ UNCHANGED lapses
    \/ UNCHANGED requestStatus /\ Lapse

-----------------------------------------------------------------------------
(* The middleware and the handler *)

BeginCall(c) ==
    /\ call[c] = "idle"
    /\ Write("start")
    /\ CallAt(c, "working")
    /\ UNCHANGED <<job, serverTask, worked, repeated>>

\* The call does the work itself, or fails before it is handed on.
Work(c, outcome) ==
    /\ call[c] = "working"
    /\ outcome = "success" => c \notin Background \cup InProcess
    /\ CallAt(c, outcome)
    /\ worked' = worked \cup {outcome}
    /\ UNCHANGED <<requestStatus, job, serverTask, repeated, lapses>>

\* schedule_background_job: the call is answered while its task runs.
Schedule(c) ==
    /\ call[c] = "working" /\ c \in InProcess
    /\ CallAt(c, "accepted")
    /\ serverTask' = [serverTask EXCEPT ![c] = "running"]
    /\ UNCHANGED <<requestStatus, job, worked, repeated, lapses>>

\* The queue answers, whether or not it took the job.
Enqueue(c) ==
    /\ call[c] = "working" /\ c \in Background
    /\ CallAt(c, "accepted")
    /\ job' = IF job = "none" THEN "queued" ELSE job
    /\ repeated' = (repeated \/ job # "none")
    /\ UNCHANGED <<requestStatus, serverTask, worked, lapses>>

\* The answer of the queue is lost.
EnqueueLost(c) ==
    /\ call[c] = "working" /\ c \in Background /\ Lapse
    /\ CallAt(c, "failed")
    /\ job' = IF job = "none" THEN "queued" ELSE job
    /\ worked' = worked \cup {"failed"}
    /\ UNCHANGED <<requestStatus, serverTask, repeated>>

ByItsCode(c) == IF call[c] = "failed" THEN "failed" ELSE "success"
\* on_request_complete leaves a call answered 202 to whoever does its work.
Closes(c) == IF call[c] = "accepted" THEN requestStatus ELSE call[c]

CompleteCall(c) ==
    /\ call[c] \in {"success", "failed", "accepted"}
    /\ IF Closes(c) = requestStatus THEN UNCHANGED <<requestStatus, lapses>> ELSE Write(Closes(c))
    /\ CallAt(c, "done")
    /\ UNCHANGED <<job, serverTask, worked, repeated>>

\* The process that serves the calls dies.
ServerDies ==
    /\ Lapse
    /\ call' = [c \in Calls |-> IF call[c] = "idle" THEN "idle" ELSE "done"]
    /\ serverTask' = [c \in Calls |-> IF serverTask[c] = "none" THEN "none" ELSE "ended"]
    /\ UNCHANGED <<requestStatus, job, worked, repeated>>

\* A task ends, well or not, in the state of its research job alone.
TaskEnds(c) ==
    /\ serverTask[c] = "running"
    /\ serverTask' = [serverTask EXCEPT ![c] = "ended"]
    /\ UNCHANGED <<requestStatus, call, job, worked, repeated, lapses>>

-----------------------------------------------------------------------------
(* The worker *)

StartJob ==
    /\ job = "queued" /\ job' = "running"
    /\ UNCHANGED <<requestStatus, call, serverTask, worked, repeated, lapses>>

SuccessOnly(outcome) == outcome = "success"
\* run_memorize_single_message_job closes the status either way.
Closed(outcome) == outcome \in {"success", "failed"}

JobEnds(outcome) ==
    /\ job = "running" /\ job' = "kept"
    /\ worked' = worked \cup {outcome}
    /\ IF Closed(outcome) THEN Write(outcome) ELSE UNCHANGED <<requestStatus, lapses>>
    /\ UNCHANGED <<call, serverTask, repeated>>

\* A job that takes too long is cancelled, which its except clause does not
\* catch; the queue keeps the result all the same.
JobCutOff ==
    /\ job = "running" /\ job' = "kept" /\ Lapse
    /\ UNCHANGED <<requestStatus, call, serverTask, worked, repeated>>

\* The queue gives the job of a dead worker to another, from its beginning.
WorkerDies ==
    /\ job = "running" /\ job' = "queued" /\ Lapse
    /\ UNCHANGED <<requestStatus, call, serverTask, worked, repeated>>

ResultExpires ==
    /\ job = "kept" /\ job' = "none"
    /\ UNCHANGED <<requestStatus, call, serverTask, worked, repeated, lapses>>

StatusExpires ==
    /\ requestStatus # "none" /\ requestStatus' = "none"
    /\ UNCHANGED <<call, job, serverTask, worked, repeated, lapses>>

-----------------------------------------------------------------------------

WorkMoves ==
    \/ StartJob
    \/ \E outcome \in {"success", "failed"} :
          JobEnds(outcome) \/ \E c \in Calls : Work(c, outcome)
    \/ \E c \in Calls :
          Schedule(c) \/ TaskEnds(c) \/ Enqueue(c) \/ EnqueueLost(c) \/ CompleteCall(c)

StatusNext ==
    \/ WorkMoves \/ \E c \in Calls : BeginCall(c)
    \/ ServerDies \/ JobCutOff \/ WorkerDies \/ ResultExpires \/ StatusExpires

StatusSpec == StatusInit /\ [][StatusNext]_statusVars /\ WF_statusVars(WorkMoves)

-----------------------------------------------------------------------------
(* Properties *)

AtWork ==
    \/ job \in {"queued", "running"}
    \/ \E c \in Calls : call[c] \notin {"idle", "done"} \/ serverTask[c] = "running"

\* What may leave "start" behind: a write, a job or a process that was lost, a
\* repeated call whose job the queue did not take, or the end of a server task.
LeftOpen == lapses > 0 \/ repeated \/ \E c \in Calls : serverTask[c] = "ended"

\* Types: a status of the call itself is never written.
StatusTypeOK ==
    /\ requestStatus \in {"none", "start", "success", "failed"}
    /\ call \in [Calls -> {"idle", "working", "success", "failed", "accepted", "done"}]
    /\ job \in {"none", "queued", "running", "kept"}
    /\ serverTask \in [Calls -> {"none", "running", "ended"}]
    /\ worked \subseteq {"success", "failed"} /\ repeated \in BOOLEAN /\ lapses \in 0..MaxLapses

\* A request is reported done only when its work was done, be it by the call
\* or by the worker, and failed only when something failed.
ReportedAsWorked == requestStatus \in {"success", "failed"} => requestStatus \in worked

\* "start" stands for work that is under way, unless something left it open.
StartIsUnderWay == requestStatus = "start" => AtWork \/ LeftOpen

\* And that work ends, so that the status closes or expires.
StatusCloses == requestStatus = "start" ~> requestStatus # "start" \/ LeftOpen

\* What on_request_complete says of a call answered 202: the request is kept
\* in "start" until its task finishes.  So when no call is repeated and nothing
\* is lost, "start" means that there is work.
KeptUntilFinished == requestStatus = "start" => AtWork \/ lapses > 0 \/ repeated
=============================================================================
