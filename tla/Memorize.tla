------------------------------ MODULE Memorize ------------------------------
(***************************************************************************)
(* The messages of one group on their way into memcells.  Every message is *)
(* a request: it is logged, and its worker reads the earlier messages that *)
(* are not used yet, asks the language model whether the conversation      *)
(* ended before the new message, and if so marks the earlier messages used *)
(* and saves them as a memcell.  Workers of one group overlap.             *)
(*                                                                         *)
(* An action is the code from one await to the next.  Calls of the         *)
(* database swallow their errors; a worker's job may be cut off by its     *)
(* timeout, and is delivered again if the worker process dies.             *)
(*                                                                         *)
(* The created_at of a log is the server's time, here the number of its    *)
(* message; the timestamp in the message is the time of its client, which  *)
(* a memcell takes over and the next history is then asked to start from.  *)
(*                                                                         *)
(* Abstracted: a request has one message; texts, tokens and what is        *)
(* extracted from a memcell.                                               *)
(***************************************************************************)
EXTENDS Integers, FiniteSetsExt

CONSTANTS Messages,    \* requests are 1..Messages, in the order they are logged
          Stamp,       \* the client's timestamp of each, in the server's time
          Synchronous, \* those with sync_mode=true
          MaxSlips     \* bound on failing calls, timeouts of jobs and deaths

ASSUME MemorizeAssumption ==
    /\ Messages \in Nat /\ Stamp \in [1..Messages -> Nat]
    /\ Synchronous \subseteq 1..Messages /\ MaxSlips \in Nat

VARIABLES log,      \* sync_status of the message in memory_request_logs
          lastCell, \* last_memcell_time of the conversation status, 0 for none
          worker,   \* where memorize is, the history it read, the time it read
          memcells, \* saved: maker, messages, and whether they were marked used
          crossed,  \* history: requests in flight, from log to end, while another was
          mishaps   \* faults so far, for the bound

memorizeVars == <<log, lastCell, worker, memcells, crossed, mishaps>>

Requests == 1..Messages
Idle == [pc |-> "idle", history |-> {}, since |-> 0, marked |-> FALSE]

MemorizeInit ==
    /\ log = [r \in Requests |-> "none"]
    /\ lastCell = 0
    /\ worker = [r \in Requests |-> Idle]
    /\ memcells = {}
    /\ crossed = {}
    /\ mishaps = 0

Mishap == mishaps < MaxSlips /\ mishaps' = mishaps + 1
\* A call does what it does, or fails and is caught.
Succeeds(ok) == IF ok THEN UNCHANGED mishaps ELSE Mishap

WorkerAt(r, pc) == worker' = [worker EXCEPT ![r].pc = pc]
InFlight == {r \in Requests : worker[r].pc \notin {"idle", "ended"}}
UnderWay == {r \in InFlight : worker[r].pc \notin {"logged", "queued"}}

-----------------------------------------------------------------------------
(* memorize_single_message *)

\* The log, without which the message is still handed on.
SaveLog(r, ok) ==
    /\ worker[r].pc = "idle" /\ Succeeds(ok)
    /\ \A m \in 1..(r - 1) : worker[m].pc # "idle"
    /\ log' = IF ok THEN [log EXCEPT ![r] = "pending"] ELSE log
    /\ crossed' = IF InFlight = {} THEN crossed ELSE crossed \cup InFlight \cup {r}
    /\ WorkerAt(r, "logged")
    /\ UNCHANGED <<lastCell, memcells>>

\* A request in sync mode goes on itself; the others go to the queue, or the
\* queue cannot be reached.
HandOn(r, ok) ==
    /\ worker[r].pc = "logged" /\ Succeeds(ok)
    /\ ~ok => r \notin Synchronous
    /\ WorkerAt(r, IF ok THEN "queued" ELSE "ended")
    /\ UNCHANGED <<log, lastCell, memcells, crossed>>

-----------------------------------------------------------------------------
(* memorize *)

\* The status of the conversation.
BeginMemorize(r) ==
    /\ worker[r].pc = "queued"
    /\ worker' = [worker EXCEPT ![r].pc = "history", ![r].since = lastCell]
    /\ UNCHANGED <<log, lastCell, memcells, crossed, mishaps>>

Unused == {m \in Requests : log[m] \in {"pending", "accumulating"}}
Logged == {m \in Requests : log[m] # "none"}
\* What get_conversation_data returns: the logs created since that time.
History(r) == {m \in Unused \ {r} : m >= worker[r].since}

ReadHistory(r, ok) ==
    /\ worker[r].pc = "history" /\ Succeeds(ok)
    /\ worker' = [worker EXCEPT ![r].pc = "boundary",
                                ![r].history = IF ok THEN History(r) ELSE {}]
    /\ UNCHANGED <<log, lastCell, memcells, crossed>>

\* What the model may say; without a history nobody asks it.
DetectBoundary(r, pc) ==
    /\ worker[r].pc = "boundary"
    /\ pc = "mark" => worker[r].history # {}
    /\ WorkerAt(r, pc)
    /\ UNCHANGED <<log, lastCell, memcells, crossed, mishaps>>

\* The message or a time in the history cannot be read, or the memcell cannot
\* be converted to be saved.
MemorizeRaises(r) ==
    /\ worker[r].pc \in {"boundary", "save"} /\ Mishap
    /\ WorkerAt(r, "ended")
    /\ UNCHANGED <<log, lastCell, memcells, crossed>>

ConfirmAny(r) == [log EXCEPT ![r] = IF @ = "none" THEN @ ELSE "accumulating"]
\* confirm_accumulation_by_message_ids
Confirmed(r) == [log EXCEPT ![r] = IF @ = "pending" THEN "accumulating" ELSE @]

AfterAccumulating(r) == IF worker[r].pc = "wait" THEN "ended" ELSE "statusRead"

\* No boundary: the message accumulates, and the status is written unless the
\* model wants to wait.
Accumulate(r, ok) ==
    /\ worker[r].pc \in {"goOn", "wait"} /\ Succeeds(ok)
    /\ log' = IF ok THEN Confirmed(r) ELSE log
    /\ WorkerAt(r, AfterAccumulating(r))
    /\ UNCHANGED <<lastCell, memcells, crossed>>

\* _update_status_for_continuing_conversation writes back the time it reads.
ReadStatus(r) ==
    /\ worker[r].pc = "statusRead"
    /\ worker' = [worker EXCEPT ![r].pc = "statusWrite", ![r].since = lastCell]
    /\ UNCHANGED <<log, lastCell, memcells, crossed, mishaps>>

WriteStatus(r, ok) ==
    /\ worker[r].pc = "statusWrite" /\ Succeeds(ok)
    /\ lastCell' = IF ok THEN worker[r].since ELSE lastCell
    /\ WorkerAt(r, "ended")
    /\ UNCHANGED <<log, memcells, crossed>>

MarkedAll(r) == Unused
MarkedAccumulating(r) == {m \in Unused \ {r} : log[m] = "accumulating"}
\* mark_as_used_by_group_id: all but the new message, read or not.
Marked(r) == Unused \ {r}

MarkUsed(r, ok) ==
    /\ worker[r].pc = "mark" /\ Succeeds(ok)
    /\ log' = IF ok THEN [m \in Requests |-> IF m \in Marked(r) THEN "used" ELSE log[m]] ELSE log
    /\ worker' = [worker EXCEPT ![r].pc = "confirm", ![r].marked = ok]
    /\ UNCHANGED <<lastCell, memcells, crossed>>

ConfirmNew(r, ok) ==
    /\ worker[r].pc = "confirm" /\ Succeeds(ok)
    /\ log' = IF ok THEN Confirmed(r) ELSE log
    /\ WorkerAt(r, "save")
    /\ UNCHANGED <<lastCell, memcells, crossed>>

CellOf(r) == [maker |-> r, messages |-> worker[r].history, marked |-> worker[r].marked]

\* A memcell that is not saved is extracted from all the same.
SaveMemcell(r, ok) ==
    /\ worker[r].pc = "save" /\ Succeeds(ok)
    /\ memcells' = IF ok THEN memcells \cup {CellOf(r)} ELSE memcells
    /\ WorkerAt(r, "extract")
    /\ UNCHANGED <<log, lastCell, crossed>>

\* The timestamp of a memcell is that of the last message of the history.
CellTime(r) == Stamp[Max(worker[r].history)]

\* Memories are extracted and saved, and the status is written; when any of it
\* fails memorize returns without the status.
Extract(r, ok) ==
    /\ worker[r].pc = "extract" /\ Succeeds(ok)
    /\ lastCell' = IF ok THEN CellTime(r) ELSE lastCell
    /\ WorkerAt(r, "ended")
    /\ UNCHANGED <<log, memcells, crossed>>

-----------------------------------------------------------------------------
(* The queue of jobs *)

JobTimesOut(r) ==
    /\ r \in UnderWay \ Synchronous /\ Mishap
    /\ WorkerAt(r, "ended")
    /\ UNCHANGED <<log, lastCell, memcells, crossed>>

\* What was under way is lost; the queue delivers it again.
Redelivered(r) ==
    IF worker[r].pc \in {"idle", "ended"} THEN worker[r]
    ELSE [Idle EXCEPT !.pc = IF r \in Synchronous \/ worker[r].pc = "logged" THEN "ended" ELSE "queued"]

MemorizeDies ==
    /\ UnderWay # {} /\ Mishap
    /\ worker' = [r \in Requests |-> Redelivered(r)]
    /\ UNCHANGED <<log, lastCell, memcells, crossed>>

-----------------------------------------------------------------------------

MemorizeMoves(r) ==
    \/ BeginMemorize(r) \/ ReadStatus(r)
    \/ \E pc \in {"mark", "goOn", "wait"} : DetectBoundary(r, pc)
    \/ \E ok \in BOOLEAN :
          \/ HandOn(r, ok) \/ ReadHistory(r, ok) \/ Accumulate(r, ok)
          \/ WriteStatus(r, ok) \/ MarkUsed(r, ok) \/ ConfirmNew(r, ok)
          \/ SaveMemcell(r, ok) \/ Extract(r, ok)

MemorizeNext ==
    \/ \E r \in Requests, ok \in BOOLEAN : SaveLog(r, ok)
    \/ \E r \in Requests : MemorizeMoves(r) \/ MemorizeRaises(r) \/ JobTimesOut(r)
    \/ MemorizeDies

\* The queue delivers, and calls of the database and the model end or time out.
MemorizeSpec ==
    /\ MemorizeInit /\ [][MemorizeNext]_memorizeVars
    /\ \A r \in Requests : WF_memorizeVars(MemorizeMoves(r))

-----------------------------------------------------------------------------
(* Properties *)

\* Types; and a memcell is not empty and holds logged messages but its maker's.
MemorizeTypeOK ==
    /\ log \in [Requests -> {"none", "pending", "accumulating", "used"}]
    /\ lastCell \in Nat
    /\ \A c \in memcells : c.messages # {} /\ c.messages \subseteq Logged \ {c.maker}

\* The order the repository documents: a message that was used by one worker
\* is not brought back by another that confirms it later.
StatusForward ==
    [][\A r \in Requests : /\ log[r] = "used" => log'[r] = "used"
                           /\ log[r] = "accumulating" => log'[r] # "pending"]_memorizeVars

\* An earlier memcell ends, by its client's clock, after m was logged: no later
\* history has m.
Overtaken(m) == \E c \in memcells : Max(c.messages) < m /\ Stamp[Max(c.messages)] > m

\* A message is used only for a memcell that has it or is about to be saved,
\* unless a call failed, the message crossed another request, or the clock of a
\* client that was ahead hid it.
UsedInMemcell ==
    \A m \in Requests : log[m] = "used" =>
        \/ \E c \in memcells : m \in c.messages
        \/ \E r \in Requests : worker[r].pc \in {"confirm", "save"} /\ m \in worker[r].history
        \/ m \in crossed \/ mishaps > 0 \/ Overtaken(m)

\* Two memcells share no message, unless their makers crossed other requests
\* or the messages of one could not be marked.
MemcellsApart ==
    \A c, d \in memcells :
        \/ c = d \/ c.messages \cap d.messages = {}
        \/ {c.maker, d.maker} \subseteq crossed \/ ~c.marked \/ ~d.marked

\* The requests end, whatever fails on their way.
RequestsEnd == <>[](\A r \in Requests : worker[r].pc \in {"idle", "ended"})

\* What sync_status 1 stands for, fully used: the message is in a memcell, or
\* about to be.
UsedRemembered ==
    \A m \in Requests : log[m] = "used" =>
        \/ \E c \in memcells : m \in c.messages
        \/ \E r \in Requests : worker[r].pc \in {"confirm", "save"} /\ m \in worker[r].history
=============================================================================
