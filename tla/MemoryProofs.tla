---------------------------- MODULE MemoryProofs ----------------------------
(* Theorems about the memory pipeline: the status of a request, the        *)
(* messages of a group on their way into memcells, and the clusters.       *)
EXTENDS RequestStatus, Memorize, Clustering, FiniteSetTheorems, SequenceTheorems,
        WellFoundedInduction, TLAPS

-----------------------------------------------------------------------------
(* The status of a request *)

\* A call that is over but not answered has left its outcome behind.
WorkedInv ==
    /\ StatusTypeOK /\ ReportedAsWorked
    /\ \A c \in Calls : call[c] \in {"success", "failed"} => call[c] \in worked

\* "start" is a call that will write its outcome, a job that will, a task that
\* runs, or was left open; a call that was accepted will not close it.
StartInv ==
    requestStatus = "start" =>
        \/ job \in {"queued", "running"}
        \/ \E c \in Calls : call[c] \in {"working", "success", "failed"} \/ serverTask[c] = "running"
        \/ LeftOpen

StatusInv == WorkedInv /\ StartInv

LEMMA StatusStep == ASSUME StatusInv, [StatusNext]_statusVars PROVE StatusInv'
  <1> USE DEF StatusInv, WorkedInv, StartInv, StatusTypeOK, ReportedAsWorked, LeftOpen, CallAt, Write,
              Lapse
  <1> USE StatusAssumption
  <1>1. ASSUME NEW c \in Calls, BeginCall(c) PROVE StatusInv'
    BY <1>1 DEF BeginCall
  <1>2. ASSUME NEW c \in Calls, NEW outcome \in {"success", "failed"}, Work(c, outcome)
        PROVE  StatusInv'
    BY <1>2 DEF Work
  <1>3. ASSUME NEW c \in Calls, Enqueue(c) PROVE StatusInv'
    <2>1. /\ call[c] = "working" /\ call' = [call EXCEPT ![c] = "accepted"]
          /\ job' \in {"queued", "running", "kept"}
          /\ job = "none" => job' = "queued"
          /\ job # "none" => job' = job
          /\ repeated' = (repeated \/ job # "none")
          /\ UNCHANGED <<requestStatus, serverTask, worked, lapses>>
      BY <1>3 DEF Enqueue
    <2>2. repeated' \in BOOLEAN /\ (job # "none" => LeftOpen')
      BY <2>1, Zenon DEF LeftOpen
    <2>3. WorkedInv'
      BY <2>1, <2>2
    <2>4. job' = "queued" \/ LeftOpen'
      BY <2>1, <2>2, Zenon
    <2>5. StartInv'
      BY <2>4, Zenon DEF StartInv
    <2> QED BY <2>3, <2>5
  <1>10. ASSUME NEW c \in Calls, Schedule(c) PROVE StatusInv'
    BY <1>10 DEF Schedule
  <1>11. ASSUME NEW c \in Calls, TaskEnds(c) PROVE StatusInv'
    BY <1>11 DEF TaskEnds
  <1>4. ASSUME NEW c \in Calls, EnqueueLost(c) PROVE StatusInv'
    BY <1>4 DEF EnqueueLost
  <1>5. ASSUME NEW c \in Calls, CompleteCall(c) PROVE StatusInv'
    BY <1>5 DEF CompleteCall, Closes
  <1>6. CASE ServerDies
    BY <1>6 DEF ServerDies
  <1>7. CASE StartJob
    BY <1>7 DEF StartJob
  <1>8. ASSUME NEW outcome \in {"success", "failed"}, JobEnds(outcome) PROVE StatusInv'
    <2>1. /\ job' = "kept" /\ call' = call /\ repeated' = repeated /\ worked' = worked \cup {outcome}
          /\ serverTask' = serverTask
          /\ \/ requestStatus' = outcome /\ lapses' = lapses
             \/ requestStatus' = requestStatus /\ lapses < MaxLapses /\ lapses' = lapses + 1
      BY <1>8 DEF JobEnds, Closed
    <2>2. StatusTypeOK' /\ ReportedAsWorked'
      BY <2>1
    <2>3. StartInv'
      BY <2>1
    <2> QED BY <2>1, <2>2, <2>3
  <1>9. CASE JobCutOff \/ WorkerDies \/ ResultExpires \/ StatusExpires \/ UNCHANGED statusVars
    <2>1. CASE JobCutOff \/ WorkerDies
      <3>1. /\ job' \in {"kept", "queued"} /\ requestStatus' = requestStatus /\ call' = call
            /\ worked' = worked /\ repeated' = repeated /\ serverTask' = serverTask
            /\ lapses < MaxLapses /\ lapses' = lapses + 1
        BY <2>1 DEF JobCutOff, WorkerDies
      <3> QED BY <3>1
    <2>2. CASE ResultExpires \/ StatusExpires
      BY <2>2 DEF ResultExpires, StatusExpires
    <2>3. CASE UNCHANGED statusVars
      BY <2>3 DEF statusVars
    <2> QED BY <1>9, <2>1, <2>2, <2>3
  <1> QED
    BY <1>1, <1>2, <1>3, <1>4, <1>5, <1>6, <1>7, <1>8, <1>9, <1>10, <1>11
    DEF StatusNext, WorkMoves

LEMMA StatusInvAlways == StatusSpec => []StatusInv
  <1>1. StatusInit => StatusInv
    <2> SUFFICES ASSUME StatusInit PROVE StatusInv
      OBVIOUS
    <2>1. StatusTypeOK
      <3>1. repeated \in BOOLEAN
        BY Zenon DEF StatusInit
      <3>2. /\ requestStatus = "none" /\ job = "none" /\ worked = {} /\ lapses = 0
            /\ call = [c \in Calls |-> "idle"] /\ MaxLapses \in Nat
            /\ serverTask = [c \in Calls |-> "none"]
        BY StatusAssumption DEF StatusInit
      <3> QED BY <3>1, <3>2 DEF StatusTypeOK
    <2> QED BY <2>1 DEF StatusInit, StatusInv, WorkedInv, StartInv, ReportedAsWorked
  <1> QED BY <1>1, StatusStep, PTL DEF StatusSpec

\* A request is reported done or failed only when its work ended so.
THEOREM RequestReportedAsWorked == StatusSpec => []ReportedAsWorked
  <1>1. StatusInv => ReportedAsWorked
    BY DEF StatusInv, WorkedInv
  <1> QED BY <1>1, StatusInvAlways, PTL

\* "start" stands for work under way, as long as nothing was lost, repeated or
\* left to a task of the server that has ended.
THEOREM RequestStartUnderWay == StatusSpec => []StartIsUnderWay
  <1>1. StatusInv => StartIsUnderWay
    BY DEF StatusInv, WorkedInv, StartInv, StartIsUnderWay, AtWork
  <1> QED BY <1>1, StatusInvAlways, PTL

-----------------------------------------------------------------------------
(* A bounded set of numbers has a greatest *)

LEMMA MaxOf ==
    ASSUME NEW T \in SUBSET Nat, NEW N \in Nat, \A t \in T : t <= N, T # {}
    PROVE  Max(T) \in T /\ \A t \in T : t <= Max(T)
  <1> DEFINE D == {N - t : t \in T}
  <1>1. D \in SUBSET Nat /\ D # {}
    <2>1. \A t \in T : N - t \in Nat
      OBVIOUS
    <2> QED BY <2>1
  <1>2. \E z \in D : \A y \in D : ~(<<y, z>> \in OpToRel(<, Nat))
    <2> HIDE DEF D
    <2> QED BY <1>1, WFMin, NatLessThanWellFounded, Zenon
  <1>3. \A y, z \in Nat : y < z => <<y, z>> \in OpToRel(<, Nat)
    BY DEF OpToRel
  <1>4. PICK z \in D : \A y \in D : ~(y < z)
    BY <1>1, <1>2, <1>3
  <1>5. PICK m \in T : z = N - m
    BY <1>4
  <1>6. \A t \in T : N - t \in D
    OBVIOUS
  <1>7. \A t \in T : m >= t
    <2>1. \A t \in T : t \in Nat /\ m \in Nat /\ ~(N - t < N - m)
      BY <1>4, <1>5, <1>6
    <2> QED BY <2>1
  <1> HIDE DEF D
  <1>8. Max(T) \in T /\ \A t \in T : Max(T) >= t
    BY <1>7 DEF Max
  <1> QED BY <1>8

-----------------------------------------------------------------------------
(* Memorize: types, order and crossings *)

Places ==
    {"idle", "logged", "queued", "history", "boundary", "mark", "goOn", "wait",
     "statusRead", "statusWrite", "confirm", "save", "extract", "ended"}
WorkerRows == [pc : Places, history : SUBSET Requests, since : Nat, marked : BOOLEAN]
CellRows == [maker : Requests, messages : SUBSET Requests, marked : BOOLEAN]
LogRows == {"none", "pending", "accumulating", "used"}

MTyped ==
    /\ worker \in [Requests -> WorkerRows] /\ log \in [Requests -> LogRows]
    /\ lastCell \in Nat /\ mishaps \in Nat
    /\ memcells \subseteq CellRows /\ crossed \subseteq Requests

WithHistory == {"boundary", "mark", "confirm", "save", "extract"}

\* A history has logged messages, and there is one where a memcell is made.
HistoryLogged ==
    /\ \A r \in Requests : worker[r].pc \in WithHistory =>
          \A m \in worker[r].history : m # r /\ log[m] # "none"
    /\ \A r \in Requests : worker[r].pc \in WithHistory \ {"boundary"} => worker[r].history # {}

LEMMA MTypedStep == ASSUME MTyped, HistoryLogged, [MemorizeNext]_memorizeVars PROVE MTyped'
  <1> USE DEF MTyped
  <1>0. ASSUME NEW r \in Requests, NEW pc \in Places, WorkerAt(r, pc)
        PROVE  worker' \in [Requests -> WorkerRows]
    BY <1>0 DEF WorkerAt, WorkerRows
  <1>r. ASSUME NEW r \in Requests, NEW pc \in Places
        PROVE  /\ \A t \in Nat :
                     [worker EXCEPT ![r].pc = pc, ![r].since = t] \in [Requests -> WorkerRows]
               /\ \A h \in SUBSET Requests :
                     [worker EXCEPT ![r].pc = pc, ![r].history = h] \in [Requests -> WorkerRows]
               /\ \A b \in BOOLEAN :
                     [worker EXCEPT ![r].pc = pc, ![r].marked = b] \in [Requests -> WorkerRows]
    <2>1. worker[r] \in WorkerRows
      OBVIOUS
    <2>2. \A t \in Nat : [worker[r] EXCEPT !.pc = pc, !.since = t] \in WorkerRows
      BY <2>1 DEF WorkerRows
    <2>3. \A h \in SUBSET Requests : [worker[r] EXCEPT !.pc = pc, !.history = h] \in WorkerRows
      BY <2>1 DEF WorkerRows
    <2>4. \A b \in BOOLEAN : [worker[r] EXCEPT !.pc = pc, !.marked = b] \in WorkerRows
      BY <2>1 DEF WorkerRows
    <2> QED BY <2>2, <2>3, <2>4
  <1>m. ASSUME NEW ok, Succeeds(ok) \/ Mishap \/ UNCHANGED mishaps PROVE mishaps' \in Nat
    BY <1>m DEF Mishap, Succeeds
  <1>l. ASSUME NEW r \in Requests, log' = log \/ log' = Confirmed(r) PROVE log' \in [Requests -> LogRows]
    BY <1>l DEF Confirmed, LogRows
  <1>1. ASSUME NEW r \in Requests, NEW ok \in BOOLEAN, SaveLog(r, ok) PROVE MTyped'
    <2>1. /\ Succeeds(ok) /\ WorkerAt(r, "logged") /\ lastCell' = lastCell /\ memcells' = memcells
          /\ log' = [log EXCEPT ![r] = "pending"] \/ log' = log
          /\ crossed' \subseteq crossed \cup InFlight \cup {r}
      BY <1>1 DEF SaveLog
    <2>2. log' \in [Requests -> LogRows]
      BY <2>1 DEF LogRows
    <2> QED BY <1>0, <1>m, <2>1, <2>2 DEF InFlight, Places
  <1>2. ASSUME NEW r \in Requests, NEW ok \in BOOLEAN, HandOn(r, ok) PROVE MTyped'
    <2>1. \E pc \in Places : WorkerAt(r, pc)
      BY <1>2 DEF HandOn, Places
    <2> QED BY <1>0, <1>m, <1>2, <2>1 DEF HandOn
  <1>3. ASSUME NEW r \in Requests, BeginMemorize(r) \/ ReadStatus(r) PROVE MTyped'
    <2>1. PICK pc \in Places :
             /\ worker' = [worker EXCEPT ![r].pc = pc, ![r].since = lastCell]
             /\ UNCHANGED <<log, lastCell, memcells, crossed, mishaps>>
      BY <1>3 DEF BeginMemorize, ReadStatus, Places
    <2>2. worker' \in [Requests -> WorkerRows]
      BY <2>1, <1>r
    <2> QED BY <2>1, <2>2
  <1>4. ASSUME NEW r \in Requests, NEW ok \in BOOLEAN, ReadHistory(r, ok) PROVE MTyped'
    <2>1. History(r) \subseteq Requests
      BY DEF History, Unused
    <2>2. PICK h \in SUBSET Requests : worker' = [worker EXCEPT ![r].pc = "boundary", ![r].history = h]
      BY <1>4, <2>1 DEF ReadHistory
    <2>3. worker' \in [Requests -> WorkerRows]
      BY <2>2, <1>r DEF Places
    <2> QED BY <1>m, <1>4, <2>3 DEF ReadHistory
  <1>5. ASSUME NEW r \in Requests, NEW pc \in {"mark", "goOn", "wait"}, DetectBoundary(r, pc)
        PROVE  MTyped'
    BY <1>0, <1>5 DEF DetectBoundary, Places
  <1>6. ASSUME NEW r \in Requests, MemorizeRaises(r) \/ JobTimesOut(r) PROVE MTyped'
    <2>1. WorkerAt(r, "ended") /\ Mishap /\ UNCHANGED <<log, lastCell, memcells, crossed>>
      <3>1. CASE MemorizeRaises(r)
        BY <3>1 DEF MemorizeRaises
      <3>2. CASE JobTimesOut(r)
        BY <3>2 DEF JobTimesOut
      <3> QED BY <1>6, <3>1, <3>2
    <2> QED BY <1>0, <1>m, <2>1 DEF Places
  <1>7. ASSUME NEW r \in Requests, NEW ok \in BOOLEAN, Accumulate(r, ok) PROVE MTyped'
    <2>1. \E pc \in Places : WorkerAt(r, pc)
      BY <1>7 DEF Accumulate, AfterAccumulating, Places
    <2>2. log' \in [Requests -> LogRows]
      BY <1>7, <1>l DEF Accumulate
    <2> QED BY <1>0, <1>m, <1>7, <2>1, <2>2 DEF Accumulate
  <1>8. ASSUME NEW r \in Requests, NEW ok \in BOOLEAN, WriteStatus(r, ok) PROVE MTyped'
    <2>1. lastCell' \in Nat /\ WorkerAt(r, "ended")
      BY <1>8 DEF WriteStatus, WorkerRows
    <2> QED BY <1>0, <1>m, <1>8, <2>1 DEF WriteStatus, Places
  <1>9. ASSUME NEW r \in Requests, NEW ok \in BOOLEAN, MarkUsed(r, ok) PROVE MTyped'
    <2>1. worker' \in [Requests -> WorkerRows]
      BY <1>9, <1>r DEF MarkUsed, Places
    <2>2. log' \in [Requests -> LogRows]
      BY <1>9 DEF MarkUsed, LogRows
    <2> QED BY <1>m, <1>9, <2>1, <2>2 DEF MarkUsed
  <1>10. ASSUME NEW r \in Requests, NEW ok \in BOOLEAN, ConfirmNew(r, ok) PROVE MTyped'
    <2>1. log' \in [Requests -> LogRows] /\ WorkerAt(r, "save")
      BY <1>10, <1>l DEF ConfirmNew
    <2> QED BY <1>0, <1>m, <1>10, <2>1 DEF ConfirmNew, Places
  <1>11. ASSUME NEW r \in Requests, NEW ok \in BOOLEAN, SaveMemcell(r, ok) PROVE MTyped'
    <2>1. CellOf(r) \in CellRows
      BY DEF CellOf, CellRows, WorkerRows
    <2>2. memcells' \subseteq CellRows /\ WorkerAt(r, "extract")
      BY <1>11, <2>1 DEF SaveMemcell
    <2> QED BY <1>0, <1>m, <1>11, <2>2 DEF SaveMemcell, Places
  <1>12. ASSUME NEW r \in Requests, NEW ok \in BOOLEAN, Extract(r, ok),
                Max(worker[r].history) \in worker[r].history
         PROVE  MTyped'
    <2>1. CellTime(r) \in Nat
      BY <1>12, MemorizeAssumption DEF CellTime, WorkerRows, Requests
    <2>2. lastCell' \in Nat /\ WorkerAt(r, "ended")
      BY <1>12, <2>1 DEF Extract
    <2> QED BY <1>0, <1>m, <1>12, <2>2 DEF Extract, Places
  <1>12a. ASSUME NEW r \in Requests, NEW ok \in BOOLEAN, Extract(r, ok)
          PROVE  Max(worker[r].history) \in worker[r].history
    <2>1. worker[r].history \in SUBSET Requests /\ worker[r].history # {}
      BY <1>12a DEF HistoryLogged, WithHistory, Extract, WorkerRows
    <2>2. /\ worker[r].history \in SUBSET Nat /\ Messages \in Nat
          /\ \A t \in worker[r].history : t <= Messages
      BY <2>1, MemorizeAssumption DEF Requests
    <2> QED BY <2>1, <2>2, MaxOf
  <1>13. CASE MemorizeDies
    <2>1. \A r \in Requests : Redelivered(r) \in WorkerRows
      <3>1. Idle \in WorkerRows
        BY MemorizeAssumption DEF Idle, WorkerRows, Places
      <3> QED BY <3>1 DEF Redelivered, WorkerRows, Places
    <2> QED BY <1>13, <1>m, <2>1 DEF MemorizeDies
  <1>14. CASE UNCHANGED memorizeVars
    BY <1>14 DEF memorizeVars
  <1> QED
    BY <1>1, <1>2, <1>3, <1>4, <1>5, <1>6, <1>7, <1>8, <1>9, <1>10, <1>11, <1>12, <1>12a, <1>13, <1>14
       DEF MemorizeNext, MemorizeMoves

\* What no step but SaveLog changes: who is idle, what is crossed, and that a
\* log row moves forward; a history is carried along or was just read.
Forward(q) ==
    \/ log'[q] = log[q]
    \/ log[q] = "pending" /\ log'[q] \in {"accumulating", "used"}
    \/ log[q] = "accumulating" /\ log'[q] = "used"
Carried(q) ==
    /\ worker[q].pc \in WithHistory /\ worker'[q].history = worker[q].history
    /\ worker'[q].pc # "boundary" => worker[q].history # {}
ReadNow(q) == worker'[q].pc = "boundary" /\ worker'[q].history \subseteq Unused \ {q}

Quiet ==
    /\ crossed' = crossed /\ (mishaps' = 0 => mishaps = 0)
    /\ \A q \in Requests :
          /\ worker'[q].pc = "idle" <=> worker[q].pc = "idle"
          /\ worker[q].pc = "ended" => worker'[q].pc = "ended"
          /\ Forward(q)
          /\ worker'[q].pc \in WithHistory => Carried(q) \/ ReadNow(q)

\* A step of one worker is quiet if its row and the log change that way.
LEMMA OneMoves ==
    ASSUME MTyped, HistoryLogged, NEW r \in Requests, NEW row,
           worker' = [worker EXCEPT ![r] = row],
           worker[r].pc \notin {"idle", "ended"}, row.pc # "idle",
           row.pc \in WithHistory => Carried(r) \/ ReadNow(r),
           \A q \in Requests : Forward(q), crossed' = crossed, mishaps' \in {mishaps, mishaps + 1}
    PROVE  Quiet
  <1>1. ASSUME NEW q \in Requests, q # r PROVE worker'[q] = worker[q]
    BY <1>1 DEF MTyped
  <1>2. ASSUME NEW q \in Requests, q # r, worker'[q].pc \in WithHistory PROVE Carried(q)
    BY <1>1, <1>2 DEF HistoryLogged, Carried
  <1>3. worker'[r].pc = row.pc
    BY DEF MTyped
  <1>4. mishaps' = 0 => mishaps = 0
    BY DEF MTyped
  <1> QED BY <1>1, <1>2, <1>3, <1>4 DEF Quiet

LEMMA QuietStep ==
    ASSUME MTyped, HistoryLogged, [MemorizeNext]_memorizeVars,
           \A r \in Requests, ok \in BOOLEAN : ~SaveLog(r, ok)
    PROVE  Quiet
  <1>t. /\ \A r \in Requests : worker[r] \in WorkerRows
        /\ \A r \in Requests : log[r] \in LogRows
        /\ mishaps \in Nat
    BY DEF MTyped
  <1>s. \A q \in Requests : log' = log => Forward(q)
    BY DEF Forward
  <1>m. ASSUME NEW ok, Succeeds(ok) \/ Mishap \/ UNCHANGED mishaps PROVE mishaps' \in {mishaps, mishaps + 1}
    BY <1>m DEF Mishap, Succeeds
  <1>c. ASSUME NEW r \in Requests, log' = log \/ log' = Confirmed(r) PROVE \A q \in Requests : Forward(q)
    BY <1>c, <1>t DEF Confirmed, Forward, MTyped
  <1>w. ASSUME NEW r \in Requests, NEW pc, WorkerAt(r, pc)
        PROVE  /\ worker' = [worker EXCEPT ![r] = [worker[r] EXCEPT !.pc = pc]]
               /\ [worker[r] EXCEPT !.pc = pc].pc = pc
               /\ worker'[r] = [worker[r] EXCEPT !.pc = pc] /\ worker'[r].history = worker[r].history
    BY <1>w, <1>t DEF WorkerAt, MTyped, WorkerRows
  <1>p. ASSUME NEW r \in Requests, NEW pc, WorkerAt(r, pc),
               worker[r].pc \notin {"idle", "ended"}, pc # "idle",
               pc \in WithHistory => Carried(r) \/ ReadNow(r),
               \A q \in Requests : Forward(q), crossed' = crossed, mishaps' \in {mishaps, mishaps + 1}
        PROVE  Quiet
    <2> DEFINE row == [worker[r] EXCEPT !.pc = pc]
    <2>1. worker' = [worker EXCEPT ![r] = row] /\ row.pc = pc
      BY <1>p, <1>w
    <2> HIDE DEF row
    <2> QED BY <1>p, <2>1, OneMoves
  <1>2. ASSUME NEW r \in Requests, NEW ok \in BOOLEAN, HandOn(r, ok) PROVE Quiet
    <2>1. PICK pc \in {"queued", "ended"} : WorkerAt(r, pc)
      BY <1>2 DEF HandOn
    <2>2. /\ worker[r].pc = "logged" /\ log' = log /\ crossed' = crossed
          /\ mishaps' \in {mishaps, mishaps + 1}
      BY <1>2, <1>m DEF HandOn
    <2> QED BY <1>s, <1>p, <2>1, <2>2 DEF WithHistory
  <1>3. ASSUME NEW r \in Requests, BeginMemorize(r) \/ ReadStatus(r) PROVE Quiet
    <2>1. PICK pc \in {"history", "statusWrite"} :
             /\ worker' = [worker EXCEPT ![r].pc = pc, ![r].since = lastCell]
             /\ worker[r].pc \in {"queued", "statusRead"}
             /\ UNCHANGED <<log, crossed, mishaps>>
      BY <1>3 DEF BeginMemorize, ReadStatus
    <2>2. /\ worker' = [worker EXCEPT ![r] = [worker[r] EXCEPT !.pc = pc, !.since = lastCell]]
          /\ [worker[r] EXCEPT !.pc = pc, !.since = lastCell].pc = pc
      BY <1>t, <2>1 DEF WorkerRows
    <2> QED BY <1>s, <2>1, <2>2, OneMoves DEF WithHistory
  <1>4. ASSUME NEW r \in Requests, NEW ok \in BOOLEAN, ReadHistory(r, ok) PROVE Quiet
    <2>1. PICK h \in SUBSET Requests :
             /\ worker' = [worker EXCEPT ![r].pc = "boundary", ![r].history = h]
             /\ h \subseteq Unused \ {r}
      <3>1. History(r) \in SUBSET Requests /\ History(r) \subseteq Unused \ {r} /\ {} \in SUBSET Requests
        BY DEF History, Unused
      <3>2. CASE ok
        BY <1>4, <3>1, <3>2 DEF ReadHistory
      <3>3. CASE ~ok
        BY <1>4, <3>1, <3>3 DEF ReadHistory
      <3> QED BY <3>2, <3>3
    <2>2. /\ worker[r].pc = "history" /\ log' = log /\ crossed' = crossed
          /\ mishaps' \in {mishaps, mishaps + 1}
      BY <1>4, <1>m DEF ReadHistory
    <2>3. /\ worker' = [worker EXCEPT ![r] = [worker[r] EXCEPT !.pc = "boundary", !.history = h]]
          /\ [worker[r] EXCEPT !.pc = "boundary", !.history = h].pc = "boundary"
          /\ [worker[r] EXCEPT !.pc = "boundary", !.history = h].history = h
      BY <1>t, <2>1 DEF WorkerRows
    <2>4. worker'[r] = [worker[r] EXCEPT !.pc = "boundary", !.history = h]
      BY <2>3 DEF MTyped
    <2>5. ReadNow(r)
      BY <2>1, <2>3, <2>4 DEF ReadNow
    <2> QED BY <1>s, <2>2, <2>3, <2>5, OneMoves
  <1>5. ASSUME NEW r \in Requests, NEW pc \in {"mark", "goOn", "wait"}, DetectBoundary(r, pc)
        PROVE  Quiet
    <2>1. /\ WorkerAt(r, pc) /\ worker[r].pc = "boundary" /\ UNCHANGED <<log, crossed, mishaps>>
          /\ pc = "mark" => worker[r].history # {}
      BY <1>5 DEF DetectBoundary
    <2>2. pc \in WithHistory => Carried(r)
      BY <1>w, <2>1 DEF Carried, WithHistory
    <2> QED BY <1>s, <1>p, <2>1, <2>2
  <1>6. ASSUME NEW r \in Requests, MemorizeRaises(r) \/ JobTimesOut(r) PROVE Quiet
    <2>1. /\ WorkerAt(r, "ended") /\ worker[r].pc \notin {"idle", "ended"}
          /\ Mishap /\ UNCHANGED <<log, crossed>>
      <3>1. CASE MemorizeRaises(r)
        BY <3>1 DEF MemorizeRaises
      <3>2. CASE JobTimesOut(r)
        BY <3>2 DEF JobTimesOut, UnderWay, InFlight
      <3> QED BY <1>6, <3>1, <3>2
    <2> QED BY <1>s, <1>m, <1>p, <2>1 DEF WithHistory
  <1>7. ASSUME NEW r \in Requests, NEW ok \in BOOLEAN, Accumulate(r, ok) PROVE Quiet
    <2>1. PICK pc \in {"ended", "statusRead"} : WorkerAt(r, pc)
      BY <1>7 DEF Accumulate, AfterAccumulating
    <2>2. /\ worker[r].pc \in {"goOn", "wait"} /\ crossed' = crossed
          /\ mishaps' \in {mishaps, mishaps + 1} /\ \A q \in Requests : Forward(q)
      BY <1>7, <1>c, <1>m DEF Accumulate
    <2> QED BY <1>p, <2>1, <2>2 DEF WithHistory
  <1>8. ASSUME NEW r \in Requests, NEW ok \in BOOLEAN, WriteStatus(r, ok) \/ Extract(r, ok) PROVE Quiet
    <2>1. /\ WorkerAt(r, "ended") /\ worker[r].pc \in {"statusWrite", "extract"}
          /\ Succeeds(ok) /\ UNCHANGED <<log, crossed>>
      BY <1>8 DEF WriteStatus, Extract
    <2> QED BY <1>s, <1>m, <1>p, <2>1 DEF WithHistory
  <1>9. ASSUME NEW r \in Requests, NEW ok \in BOOLEAN, MarkUsed(r, ok) PROVE Quiet
    <2>1. /\ worker' = [worker EXCEPT ![r] = [worker[r] EXCEPT !.pc = "confirm", !.marked = ok]]
          /\ worker[r].pc = "mark" /\ Succeeds(ok) /\ crossed' = crossed
          /\ [worker[r] EXCEPT !.pc = "confirm", !.marked = ok].pc = "confirm"
          /\ [worker[r] EXCEPT !.pc = "confirm", !.marked = ok].history = worker[r].history
      BY <1>9, <1>t DEF MarkUsed, WorkerRows
    <2>2. \A q \in Requests : Forward(q)
      BY <1>9, <1>t DEF MarkUsed, Marked, Unused, Forward, LogRows
    <2>3. worker'[r] = [worker[r] EXCEPT !.pc = "confirm", !.marked = ok]
      BY <2>1 DEF MTyped
    <2>4. Carried(r)
      BY <2>1, <2>3 DEF Carried, WithHistory, HistoryLogged
    <2> QED BY <1>m, <2>1, <2>2, <2>4, OneMoves
  <1>10. ASSUME NEW r \in Requests, NEW ok \in BOOLEAN, ConfirmNew(r, ok) \/ SaveMemcell(r, ok) PROVE Quiet
    <2>1. PICK pc \in {"save", "extract"} :
             /\ WorkerAt(r, pc) /\ worker[r].pc \in {"confirm", "save"}
             /\ Succeeds(ok) /\ crossed' = crossed
             /\ log' = log \/ log' = Confirmed(r)
      BY <1>10 DEF ConfirmNew, SaveMemcell
    <2>2. Carried(r)
      BY <1>w, <2>1 DEF Carried, WithHistory, HistoryLogged
    <2> QED BY <1>c, <1>m, <1>p, <2>1, <2>2
  <1>13. CASE MemorizeDies
    <2>1. /\ log' = log /\ crossed' = crossed /\ mishaps' = mishaps + 1
          /\ worker' = [r \in Requests |-> Redelivered(r)]
      BY <1>13 DEF MemorizeDies, Mishap
    <2>2. \A r \in Requests :
              worker[r].pc \notin {"idle", "ended"} => Redelivered(r).pc \in {"ended", "queued"}
      BY DEF Redelivered, Idle
    <2>3. \A r \in Requests : worker[r].pc \in {"idle", "ended"} => Redelivered(r) = worker[r]
      BY DEF Redelivered
    <2> QED BY <1>s, <1>t, <2>1, <2>2, <2>3 DEF Quiet, WithHistory
  <1>14. CASE UNCHANGED memorizeVars
    <2>1. worker' = worker /\ log' = log /\ crossed' = crossed /\ mishaps' = mishaps
      BY <1>14 DEF memorizeVars
    <2> QED BY <1>s, <2>1 DEF Quiet, Carried, HistoryLogged
  <1> QED
    BY <1>2, <1>3, <1>4, <1>5, <1>6, <1>7, <1>8, <1>9, <1>10, <1>13, <1>14
       DEF MemorizeNext, MemorizeMoves

-----------------------------------------------------------------------------
(* Memorize: requests in order, and those that crossed *)

\* Requests come in order; of two that are in flight both are crossed, and one
\* that is not has no later request.
InOrder ==
    /\ \A r \in Requests : worker[r].pc = "idle" => log[r] = "none"
    /\ \A m, r \in Requests : m < r /\ worker[m].pc = "idle" => worker[r].pc = "idle"
    /\ \A r \in Requests : mishaps = 0 /\ worker[r].pc # "idle" => log[r] # "none"
    /\ \A r, q \in InFlight : r # q => r \in crossed
    /\ \A m, r \in Requests : m < r /\ m \in InFlight \ crossed => worker[r].pc = "idle"

MemorizeBase == MTyped /\ HistoryLogged /\ InOrder

LEMMA LogStep ==
    ASSUME MemorizeBase, NEW r \in Requests, NEW ok \in BOOLEAN, SaveLog(r, ok)
    PROVE  /\ worker' = [worker EXCEPT ![r].pc = "logged"] /\ worker[r].pc = "idle"
           /\ worker'[r].pc = "logged" /\ \A q \in Requests \ {r} : worker'[q] = worker[q]
           /\ log' = log \/ log' = [log EXCEPT ![r] = "pending"]
           /\ mishaps' = 0 => mishaps = 0 /\ log'[r] = "pending"
           /\ log[r] = "none" /\ log'[r] \in {"none", "pending"}
           /\ \A q \in Requests \ {r} : log'[q] = log[q]
           /\ \A q \in InFlight : q \in crossed' /\ r \in crossed'
           /\ crossed \subseteq crossed'
           /\ InFlight' = InFlight \cup {r}
  <1> USE DEF MemorizeBase, MTyped
  <1>1. /\ worker' = [worker EXCEPT ![r].pc = "logged"] /\ worker[r].pc = "idle"
        /\ log' = IF ok THEN [log EXCEPT ![r] = "pending"] ELSE log
        /\ Succeeds(ok)
        /\ crossed' = IF InFlight = {} THEN crossed ELSE crossed \cup InFlight \cup {r}
    BY DEF SaveLog, WorkerAt
  <1>2. worker'[r].pc = "logged" /\ \A q \in Requests \ {r} : worker'[q] = worker[q]
    BY <1>1 DEF WorkerRows
  <1>3. mishaps' = 0 => mishaps = 0 /\ ok
    BY <1>1 DEF Succeeds, Mishap
  <1>4. InFlight' = InFlight \cup {r}
    BY <1>1, <1>2 DEF InFlight
  <1>5. log[r] = "none"
    BY <1>1 DEF InOrder
  <1> QED BY <1>1, <1>2, <1>3, <1>4, <1>5

LEMMA BaseStep == ASSUME MemorizeBase, [MemorizeNext]_memorizeVars PROVE MemorizeBase'
  <1> USE DEF MemorizeBase
  <1>1. MTyped'
    BY MTypedStep
  <1>h. \A q \in Requests : worker[q].history \subseteq Requests
    BY DEF MTyped, WorkerRows
  <1>2. ASSUME NEW r \in Requests, NEW ok \in BOOLEAN, SaveLog(r, ok) PROVE MemorizeBase'
    <2>1. /\ worker[r].pc = "idle" /\ worker'[r].pc = "logged"
          /\ \A q \in Requests \ {r} : worker'[q] = worker[q] /\ log'[q] = log[q]
          /\ mishaps' = 0 => mishaps = 0 /\ log'[r] = "pending"
          /\ log[r] = "none" /\ log'[r] \in {"none", "pending"}
          /\ \A q \in InFlight : q \in crossed' /\ r \in crossed'
          /\ crossed \subseteq crossed' /\ InFlight' = InFlight \cup {r}
      BY <1>2, LogStep
    <2>2. HistoryLogged'
      <3>1. \A q \in Requests : worker'[q].pc \in WithHistory => worker'[q] = worker[q]
        BY <2>1 DEF WithHistory
      <3>2. \A m \in Requests : log[m] # "none" => log'[m] # "none"
        BY <2>1
      <3> QED BY <1>h, <3>1, <3>2 DEF HistoryLogged
    <2>3. \A m \in Requests : m < r => worker[m].pc # "idle"
      BY <1>2 DEF SaveLog, Requests
    <2>4. \A m, q \in Requests : m < q /\ worker'[m].pc = "idle" => worker'[q].pc = "idle"
      BY <2>1, <2>3 DEF InOrder
    <2>5. \A m, q \in Requests : m < q /\ m \in InFlight' \ crossed' => worker'[q].pc = "idle"
      <3> SUFFICES ASSUME NEW m \in Requests, NEW q \in Requests, m < q, m \in InFlight' \ crossed'
                   PROVE  worker'[q].pc = "idle"
        OBVIOUS
      <3>1. m = r
        BY <2>1
      <3>2. q # r /\ worker[q].pc = "idle"
        BY <2>1, <3>1 DEF InOrder, Requests
      <3> QED BY <2>1, <3>2
    <2>6. \A q, m \in InFlight' : q # m => q \in crossed'
      BY <2>1 DEF InOrder
    <2> QED BY <1>1, <2>1, <2>2, <2>4, <2>5, <2>6 DEF InOrder
  <1>3. ASSUME \A r \in Requests, ok \in BOOLEAN : ~SaveLog(r, ok) PROVE MemorizeBase'
    <2>1. Quiet
      BY <1>3, QuietStep
    <2>2. InFlight' \subseteq InFlight
      BY <2>1 DEF Quiet, InFlight
    <2>3. HistoryLogged'
      <3>1. \A q \in Requests : log'[q] = "none" <=> log[q] = "none"
        BY <2>1 DEF Quiet, Forward
      <3>2. ASSUME NEW q \in Requests, worker'[q].pc \in WithHistory, Carried(q)
            PROVE  /\ \A m \in worker'[q].history : m # q /\ log'[m] # "none"
                   /\ worker'[q].pc \in WithHistory \ {"boundary"} => worker'[q].history # {}
        BY <1>h, <3>1, <3>2 DEF Carried, HistoryLogged
      <3>3. ASSUME NEW q \in Requests, ReadNow(q)
            PROVE  /\ \A m \in worker'[q].history : m # q /\ log'[m] # "none"
                   /\ worker'[q].pc = "boundary"
        BY <3>1, <3>3 DEF ReadNow, Unused
      <3> QED BY <2>1, <3>2, <3>3 DEF Quiet, HistoryLogged
    <2>4. InOrder'
      <3>1. \A q \in Requests : log'[q] = "none" <=> log[q] = "none"
        BY <2>1 DEF Quiet, Forward
      <3> QED BY <2>1, <2>2, <3>1 DEF Quiet, InOrder
    <2> QED BY <1>1, <2>3, <2>4
  <1> QED BY <1>2, <1>3

LEMMA BaseInit == MemorizeInit => MemorizeBase
  <1> SUFFICES ASSUME MemorizeInit PROVE MemorizeBase
    OBVIOUS
  <1>1. Idle \in WorkerRows /\ Idle.pc = "idle" /\ Messages \in Nat
    BY MemorizeAssumption DEF Idle, WorkerRows, Places
  <1>2. MTyped
    BY <1>1 DEF MemorizeInit, MTyped, LogRows
  <1>3. InFlight = {}
    BY <1>1 DEF MemorizeInit, InFlight
  <1> QED
    BY <1>1, <1>2, <1>3
       DEF MemorizeInit, MemorizeBase, HistoryLogged, InOrder, WithHistory

LEMMA BaseAlways == MemorizeSpec => []MemorizeBase
  <1> QED BY BaseInit, BaseStep, PTL DEF MemorizeSpec

\* A message that one worker used is not brought back by another.
THEOREM MessagesMoveForward == MemorizeSpec => StatusForward
  <1>1. ASSUME MemorizeBase, [MemorizeNext]_memorizeVars
        PROVE  [\A r \in Requests : /\ log[r] = "used" => log'[r] = "used"
                                    /\ log[r] = "accumulating" => log'[r] # "pending"]_memorizeVars
    <2>1. ASSUME NEW r \in Requests, NEW ok \in BOOLEAN, SaveLog(r, ok),
                 NEW q \in Requests
          PROVE  log'[q] = log[q] \/ log[q] = "none"
      BY <1>1, <2>1, LogStep
    <2>2. ASSUME \A r \in Requests, ok \in BOOLEAN : ~SaveLog(r, ok), NEW q \in Requests
          PROVE  Forward(q)
      BY <1>1, <2>2, QuietStep DEF Quiet, MemorizeBase
    <2> QED BY <2>1, <2>2 DEF Forward
  <1> QED BY <1>1, BaseAlways, PTL DEF MemorizeSpec, StatusForward

-----------------------------------------------------------------------------
(* Memorize: memcells share no message *)

AllUsed(ms) == \A m \in ms : log[m] = "used"
BothCrossed(r, q) == r \in crossed /\ q \in crossed

\* A marked memcell has used messages only, so a history read after it has
\* none of them, and one read before it is that of a request it crossed.
ApartInv ==
    /\ MemcellsApart
    /\ \A c \in memcells : c.marked => AllUsed(c.messages)
    /\ \A q \in Requests : worker[q].pc \in {"confirm", "save"} /\ worker[q].marked =>
          AllUsed(worker[q].history)
    /\ \A c \in memcells, q \in Requests :
          c.marked /\ worker[q].pc \in WithHistory \ {"extract"} =>
             c.messages \cap worker[q].history = {} \/ BothCrossed(c.maker, q)

\* Where a worker has come to, when it neither marks nor saves.
Later(q) ==
    /\ worker'[q].pc \in {"confirm", "save"} =>
          worker[q].pc \in {"confirm", "save"} /\ worker'[q].marked = worker[q].marked
    /\ worker[q].pc = "extract" => worker'[q].pc \notin WithHistory \ {"extract"}
    /\ worker'[q].pc = "extract" => worker[q].pc = "extract"

LEMMA LaterStep ==
    ASSUME MemorizeBase, [MemorizeNext]_memorizeVars,
           \A r \in Requests, ok \in BOOLEAN : ~SaveLog(r, ok) /\ ~MarkUsed(r, ok) /\ ~SaveMemcell(r, ok)
    PROVE  memcells' = memcells /\ \A q \in Requests : Later(q)
  <1>t. \A r \in Requests : worker[r] \in WorkerRows
    BY DEF MemorizeBase, MTyped
  <1>e. worker \in [Requests -> WorkerRows]
    BY DEF MemorizeBase, MTyped
  <1>s. \A q \in Requests : worker'[q] = worker[q] => Later(q)
    BY DEF Later
  <1>p. ASSUME NEW r \in Requests, NEW pc, WorkerAt(r, pc), worker[r].pc # "extract",
               pc \notin {"confirm", "save", "extract"}
        PROVE  \A q \in Requests : Later(q)
    <2>1. /\ worker'[r] = [worker[r] EXCEPT !.pc = pc]
          /\ \A q \in Requests \ {r} : worker'[q] = worker[q]
      BY <1>e, <1>p DEF WorkerAt
    <2>2. worker'[r].pc = pc
      BY <1>t, <2>1 DEF WorkerRows
    <2> QED BY <1>p, <1>s, <2>1, <2>2 DEF Later
  <1>f. ASSUME NEW r \in Requests, WorkerAt(r, "ended") PROVE \A q \in Requests : Later(q)
    <2>1. /\ worker'[r] = [worker[r] EXCEPT !.pc = "ended"]
          /\ \A q \in Requests \ {r} : worker'[q] = worker[q]
      BY <1>e, <1>f DEF WorkerAt
    <2>2. worker'[r].pc = "ended"
      BY <1>t, <2>1 DEF WorkerRows
    <2> QED BY <1>s, <2>1, <2>2 DEF Later, WithHistory
  <1>2. ASSUME NEW r \in Requests, NEW ok \in BOOLEAN, HandOn(r, ok) PROVE \A q \in Requests : Later(q)
    BY <1>2, <1>p DEF HandOn
  <1>3. ASSUME NEW r \in Requests, BeginMemorize(r) \/ ReadStatus(r) \/ \E ok \in BOOLEAN : ReadHistory(r, ok)
        PROVE  \A q \in Requests : Later(q)
    <2>1. /\ \A q \in Requests \ {r} : worker'[q] = worker[q]
          /\ worker[r].pc \in {"queued", "statusRead", "history"}
          /\ worker'[r].pc \in {"history", "statusWrite", "boundary"}
      BY <1>3, <1>e, <1>t DEF BeginMemorize, ReadStatus, ReadHistory, WorkerRows
    <2> QED BY <1>s, <2>1 DEF Later, WithHistory
  <1>5. ASSUME NEW r \in Requests, NEW pc \in {"mark", "goOn", "wait"}, DetectBoundary(r, pc)
        PROVE  \A q \in Requests : Later(q)
    BY <1>5, <1>p DEF DetectBoundary
  <1>6. ASSUME NEW r \in Requests, NEW ok \in BOOLEAN,
               MemorizeRaises(r) \/ JobTimesOut(r) \/ WriteStatus(r, ok) \/ Extract(r, ok)
        PROVE  \A q \in Requests : Later(q)
    BY <1>6, <1>f DEF MemorizeRaises, JobTimesOut, WriteStatus, Extract
  <1>7. ASSUME NEW r \in Requests, NEW ok \in BOOLEAN, Accumulate(r, ok) PROVE \A q \in Requests : Later(q)
    <2>1. PICK pc \in {"ended", "statusRead"} : WorkerAt(r, pc)
      BY <1>7 DEF Accumulate, AfterAccumulating
    <2> QED BY <1>7, <1>p, <2>1 DEF Accumulate
  <1>10. ASSUME NEW r \in Requests, NEW ok \in BOOLEAN, ConfirmNew(r, ok)
         PROVE  \A q \in Requests : Later(q)
    <2>1. /\ worker'[r] = [worker[r] EXCEPT !.pc = "save"] /\ worker[r].pc = "confirm"
          /\ \A q \in Requests \ {r} : worker'[q] = worker[q]
      BY <1>e, <1>10 DEF ConfirmNew, WorkerAt
    <2>2. worker'[r].pc = "save" /\ worker'[r].marked = worker[r].marked
      BY <1>t, <2>1 DEF WorkerRows
    <2> QED BY <1>s, <2>1, <2>2 DEF Later
  <1>13. ASSUME MemorizeDies PROVE \A q \in Requests : Later(q)
    <2>1. \A r \in Requests :
              worker'[r] = worker[r] \/ worker'[r].pc \in {"ended", "queued"}
      BY <1>13 DEF MemorizeDies, Redelivered, Idle
    <2>2. ASSUME NEW r \in Requests, worker'[r].pc \in {"ended", "queued"} PROVE Later(r)
      BY <2>2 DEF Later, WithHistory
    <2> QED BY <1>s, <2>1, <2>2
  <1>14. CASE UNCHANGED memorizeVars
    BY <1>14, <1>s DEF memorizeVars
  <1>15. memcells' = memcells
    BY DEF MemorizeNext, MemorizeMoves, HandOn, BeginMemorize, ReadStatus, ReadHistory, DetectBoundary,
           MemorizeRaises, JobTimesOut, WriteStatus, Extract, Accumulate, ConfirmNew, MemorizeDies,
           memorizeVars
  <1> QED
    BY <1>2, <1>3, <1>5, <1>6, <1>7, <1>10, <1>13, <1>14, <1>15 DEF MemorizeNext, MemorizeMoves

LEMMA ApartStep ==
    ASSUME MemorizeBase, ApartInv, [MemorizeNext]_memorizeVars PROVE ApartInv'
  <1> USE DEF AllUsed, BothCrossed
  <1>t. /\ \A q \in Requests : worker[q].history \subseteq Requests
        /\ \A c \in memcells : c.messages \subseteq Requests /\ c.maker \in Requests
    BY DEF MemorizeBase, MTyped, WorkerRows, CellRows
  <1>u. \A m \in Requests : log[m] = "used" => log'[m] = "used"
    <2>1. ASSUME NEW r \in Requests, NEW ok \in BOOLEAN, SaveLog(r, ok),
                 NEW m \in Requests, log[m] = "used"
          PROVE  log'[m] = "used"
      BY <2>1, LogStep
    <2>2. ASSUME \A r \in Requests, ok \in BOOLEAN : ~SaveLog(r, ok) PROVE Quiet
      BY <2>2, QuietStep DEF MemorizeBase
    <2> QED BY <2>1, <2>2 DEF Quiet, Forward
  <1>c. crossed \subseteq crossed'
    <2>1. ASSUME NEW r \in Requests, NEW ok \in BOOLEAN, SaveLog(r, ok) PROVE crossed \subseteq crossed'
      BY <2>1, LogStep
    <2>2. ASSUME \A r \in Requests, ok \in BOOLEAN : ~SaveLog(r, ok) PROVE crossed' = crossed
      BY <2>2, QuietStep DEF MemorizeBase, Quiet
    <2> QED BY <2>1, <2>2
  <1>a. \A c \in memcells : c.marked => AllUsed(c.messages)'
    BY <1>t, <1>u DEF ApartInv, AllUsed
  \* Histories that stay, memcells that stay.
  <1>k. ASSUME memcells' = memcells,
               \A q \in Requests : worker'[q].pc \in {"confirm", "save"} /\ worker'[q].marked =>
                   AllUsed(worker[q].history)',
               \A q \in Requests : worker'[q].pc \in WithHistory \ {"extract"} =>
                   \/ worker[q].pc \in WithHistory \ {"extract"} /\ worker'[q].history = worker[q].history
                   \/ \A m \in worker'[q].history : m \in Requests /\ log[m] # "used"
        PROVE  ApartInv'
    <2>1. MemcellsApart'
      BY <1>k, <1>c DEF ApartInv, MemcellsApart
    <2>2. ASSUME NEW c \in memcells, NEW q \in Requests, c.marked,
                 worker'[q].pc \in WithHistory \ {"extract"}
          PROVE  c.messages \cap worker'[q].history = {} \/ BothCrossed(c.maker, q)'
      BY <1>k, <1>c, <1>t, <2>2 DEF ApartInv
    <2>3. \A c \in memcells' : c.marked => AllUsed(c.messages)'
      BY <1>a, <1>k
    <2>4. \A c \in memcells', q \in Requests :
              c.marked /\ worker'[q].pc \in WithHistory \ {"extract"} =>
                 c.messages \cap worker'[q].history = {} \/ BothCrossed(c.maker, q)'
      BY <1>k, <2>2
    <2> QED BY <1>k, <2>1, <2>3, <2>4 DEF ApartInv
  <1>1. ASSUME NEW r \in Requests, NEW ok \in BOOLEAN, SaveLog(r, ok) PROVE ApartInv'
    <2>1. /\ worker'[r].pc = "logged" /\ \A q \in Requests \ {r} : worker'[q] = worker[q]
          /\ memcells' = memcells
      BY <1>1, LogStep DEF SaveLog
    <2>2. \A q \in Requests : worker'[q].pc \in WithHistory => worker'[q] = worker[q]
      BY <2>1 DEF WithHistory
    <2>3. ASSUME NEW q \in Requests, worker'[q].pc \in {"confirm", "save"}, worker'[q].marked
          PROVE  AllUsed(worker[q].history)'
      BY <1>t, <1>u, <2>2, <2>3 DEF ApartInv, WithHistory
    <2> QED BY <1>k, <2>1, <2>2, <2>3
  <1>2. ASSUME NEW r \in Requests, NEW ok \in BOOLEAN, MarkUsed(r, ok) PROVE ApartInv'
    <2>1. /\ worker'[r] = [worker[r] EXCEPT !.pc = "confirm", !.marked = ok]
          /\ \A q \in Requests \ {r} : worker'[q] = worker[q]
          /\ memcells' = memcells /\ worker[r].pc = "mark"
      BY <1>2 DEF MarkUsed, MemorizeBase, MTyped
    <2>2. /\ worker'[r].pc = "confirm" /\ worker'[r].marked = ok /\ worker'[r].history = worker[r].history
      BY <2>1 DEF MemorizeBase, MTyped, WorkerRows
    <2>3. ASSUME ok, NEW m \in worker[r].history PROVE log'[m] = "used"
      <3>1. m \in Requests /\ m # r /\ log[m] # "none" /\ log[m] \in LogRows
        BY <1>t, <2>1, <2>3 DEF MemorizeBase, MTyped, HistoryLogged, WithHistory
      <3> QED BY <1>2, <2>3, <3>1 DEF MarkUsed, Marked, Unused, LogRows
    <2>4. ASSUME NEW q \in Requests, worker'[q].pc \in {"confirm", "save"}, worker'[q].marked
          PROVE  AllUsed(worker[q].history)'
      <3>1. CASE q = r
        BY <2>2, <2>3, <2>4, <3>1
      <3>2. CASE q # r
        BY <1>t, <1>u, <2>1, <2>4, <3>2 DEF ApartInv
      <3> QED BY <3>1, <3>2
    <2>5. \A q \in Requests : worker'[q].pc \in WithHistory \ {"extract"} =>
              worker[q].pc \in WithHistory \ {"extract"} /\ worker'[q].history = worker[q].history
      BY <2>1, <2>2 DEF WithHistory
    <2> QED BY <1>k, <2>1, <2>4, <2>5
  <1>3. ASSUME NEW r \in Requests, NEW ok \in BOOLEAN, SaveMemcell(r, ok) PROVE ApartInv'
    <2>1. /\ worker'[r].pc = "extract" /\ worker[r].pc = "save"
          /\ \A q \in Requests \ {r} : worker'[q] = worker[q]
          /\ memcells' = memcells \/ memcells' = memcells \cup {CellOf(r)}
          /\ crossed' = crossed /\ log' = log
      BY <1>3 DEF SaveMemcell, WorkerAt, MemorizeBase, MTyped, WorkerRows
    <2>2. /\ CellOf(r).maker = r /\ CellOf(r).messages = worker[r].history
          /\ CellOf(r).marked = worker[r].marked
      BY DEF CellOf
    <2>3. ASSUME NEW q \in Requests, worker'[q].pc \in WithHistory \ {"extract"}
          PROVE  worker'[q] = worker[q] /\ BothCrossed(r, q)
      <3>1. q # r /\ q \in InFlight /\ r \in InFlight
        BY <2>1, <2>3 DEF WithHistory, InFlight
      <3> QED BY <2>1, <3>1 DEF MemorizeBase, InOrder, BothCrossed
    <2>4. \A d \in memcells : d.marked /\ worker[r].marked =>
              d.messages \cap worker[r].history = {} \/ BothCrossed(d.maker, r)
      BY <2>1 DEF ApartInv, WithHistory
    <2>5. MemcellsApart'
      BY <2>1, <2>2, <2>4 DEF ApartInv, MemcellsApart, BothCrossed
    <2>6. worker[r].marked => AllUsed(worker[r].history)
      BY <2>1 DEF ApartInv
    <2> QED BY <1>a, <2>1, <2>2, <2>3, <2>5, <2>6 DEF ApartInv, WithHistory
  <1>4. ASSUME \A r \in Requests, ok \in BOOLEAN : ~SaveLog(r, ok),
               \A r \in Requests, ok \in BOOLEAN : ~MarkUsed(r, ok),
               \A r \in Requests, ok \in BOOLEAN : ~SaveMemcell(r, ok)
        PROVE  ApartInv'
    <2>1. Quiet /\ memcells' = memcells /\ \A q \in Requests : Later(q)
      BY <1>4, QuietStep, LaterStep DEF MemorizeBase
    <2>2. ASSUME NEW q \in Requests, worker'[q].pc \in {"confirm", "save"}, worker'[q].marked
          PROVE  AllUsed(worker[q].history)'
      <3>1. Carried(q) /\ worker[q].pc \in {"confirm", "save"} /\ worker[q].marked
        BY <2>1, <2>2 DEF Quiet, ReadNow, Later, WithHistory
      <3> QED BY <1>t, <1>u, <3>1 DEF Carried, ApartInv
    <2>3. ASSUME NEW q \in Requests, worker'[q].pc \in WithHistory \ {"extract"}
          PROVE  \/ worker[q].pc \in WithHistory \ {"extract"} /\ worker'[q].history = worker[q].history
                 \/ \A m \in worker'[q].history : m \in Requests /\ log[m] # "used"
      BY <2>1, <2>3 DEF Quiet, Carried, ReadNow, Later, Unused
    <2> QED BY <1>k, <2>1, <2>2, <2>3
  <1> QED BY <1>1, <1>2, <1>3, <1>4

\* Two memcells share a message only if their makers crossed other requests or
\* one of them could not mark its messages.
THEOREM MemcellsStayApart == MemorizeSpec => []MemcellsApart
  <1>1. MemorizeInit => ApartInv
    BY DEF MemorizeInit, ApartInv, MemcellsApart, Idle
  <1>2. ApartInv => MemcellsApart
    BY DEF ApartInv
  <1> QED BY <1>1, <1>2, ApartStep, BaseAlways, PTL DEF MemorizeSpec

-----------------------------------------------------------------------------
(* Memorize: a used message is in a memcell *)

Waiting(m) == log[m] \in {"pending", "accumulating"}
\* No message that a boundary may still take is earlier than v, but for those
\* that a client's clock hides.
Below(v) == \A m \in Requests \ crossed : log[m] # "used" => v <= m \/ Overtaken(m)

\* The history of q has m, or no history has it.
Held(q, m) == m \in worker[q].history \/ Overtaken(m)

\* Where nothing failed, what an uncrossed request finds unused it has read,
\* and what it marked leaves nothing unused: so the time it writes hides no
\* message from the next, unless it is overtaken.
UsedInv ==
    /\ UsedInMemcell
    /\ mishaps = 0 =>
          /\ Below(lastCell)
          /\ \A q \in Requests :
                /\ worker[q].pc \in {"history", "statusWrite"} => Below(worker[q].since)
                /\ worker[q].pc \in {"boundary", "mark"} =>
                      \A m \in Requests \ crossed : m # q /\ Waiting(m) => Held(q, m)
                /\ worker[q].pc \in {"confirm", "save", "extract"} =>
                      \A m \in Requests \ crossed : m # q => log[m] \in {"none", "used"}
                /\ worker[q].pc = "extract" =>
                      \E c \in memcells : c.messages = worker[q].history

LEMMA UsedMoves ==
    ASSUME MemorizeBase, UsedInv, mishaps = 0, NEW r \in Requests,
           crossed' = crossed, \A q \in Requests \ {r} : worker'[q] = worker[q],
           \A q \in Requests : Forward(q),
           Below(lastCell)',
           worker'[r].pc \in {"history", "statusWrite"} => Below(worker[r].since)',
           worker'[r].pc \in {"boundary", "mark"} =>
              \A m \in Requests \ crossed : m # r /\ Waiting(m)' => Held(r, m)',
           worker'[r].pc \in {"confirm", "save", "extract"} =>
              \A m \in Requests \ crossed : m # r => log'[m] \in {"none", "used"},
           \A m \in Requests \ crossed : log'[m] = "used" =>
              \/ log[m] = "used" \/ Overtaken(m)
              \/ worker'[r].pc = "confirm" /\ m \in worker'[r].history,
           memcells \subseteq memcells',
           worker[r].pc \in {"confirm", "save"} =>
              \/ worker'[r].pc \in {"confirm", "save"} /\ worker'[r].history = worker[r].history
              \/ \E c \in memcells' : c.messages = worker[r].history,
           worker'[r].pc = "extract" => \E c \in memcells' : c.messages = worker'[r].history
    PROVE  UsedInv'
  <1>0. /\ \A m \in Requests : Waiting(m)' => Waiting(m)
        /\ \A m \in Requests : log[m] \in {"none", "used"} => log'[m] = log[m]
        /\ \A m \in Requests : log'[m] # "used" => log[m] # "used"
        /\ \A m \in Requests : Overtaken(m) => Overtaken(m)'
    BY DEF Forward, Waiting, Overtaken
  <1>1. ASSUME NEW m \in Requests, log'[m] = "used", m \notin crossed, ~Overtaken(m)'
        PROVE  \/ \E c \in memcells' : m \in c.messages
               \/ \E q \in Requests : worker'[q].pc \in {"confirm", "save"} /\ m \in worker'[q].history
    <2>1. CASE log[m] = "used"
      <3>1. CASE \E c \in memcells : m \in c.messages
        BY <3>1
      <3>2. CASE \E q \in Requests : worker[q].pc \in {"confirm", "save"} /\ m \in worker[q].history
        <4>1. PICK q \in Requests : worker[q].pc \in {"confirm", "save"} /\ m \in worker[q].history
          BY <3>2
        <4>2. CASE q = r
          BY <4>1, <4>2
        <4>3. CASE q # r
          BY <4>1, <4>3
        <4> QED BY <4>2, <4>3
      <3> QED BY <1>0, <1>1, <2>1, <3>1, <3>2 DEF UsedInv, UsedInMemcell
    <2>2. CASE worker'[r].pc = "confirm" /\ m \in worker'[r].history
      BY <2>2
    <2> QED BY <1>0, <1>1, <2>1, <2>2
  <1>2. UsedInMemcell'
    BY <1>1 DEF UsedInMemcell
  <1>3. ASSUME NEW q \in Requests, q # r
        PROVE  /\ worker'[q].pc \in {"history", "statusWrite"} => Below(worker[q].since)'
               /\ worker'[q].pc \in {"boundary", "mark"} =>
                     \A m \in Requests \ crossed : m # q /\ Waiting(m)' => Held(q, m)'
               /\ worker'[q].pc \in {"confirm", "save", "extract"} =>
                     \A m \in Requests \ crossed : m # q => log'[m] \in {"none", "used"}
               /\ worker'[q].pc = "extract" =>
                     \E c \in memcells' : c.messages = worker'[q].history
    <2>1. worker'[q] = worker[q]
      BY <1>3
    <2>2. worker'[q].pc \in {"history", "statusWrite"} => Below(worker[q].since)'
      BY <1>0, <2>1 DEF UsedInv, Below
    <2>3. worker'[q].pc \in {"boundary", "mark"} =>
              \A m \in Requests \ crossed : m # q /\ Waiting(m)' => Held(q, m)'
      BY <1>0, <2>1 DEF UsedInv, Held
    <2>4. worker'[q].pc \in {"confirm", "save", "extract"} =>
              \A m \in Requests \ crossed : m # q => log'[m] \in {"none", "used"}
      BY <1>0, <2>1 DEF UsedInv
    <2>5. worker'[q].pc = "extract" => \E c \in memcells' : c.messages = worker'[q].history
      BY <2>1 DEF UsedInv
    <2> QED BY <2>2, <2>3, <2>4, <2>5
  <1> QED BY <1>2, <1>3 DEF UsedInv

LEMMA UsedLogStep ==
    ASSUME MemorizeBase, UsedInv, mishaps' = 0, NEW r \in Requests, NEW ok \in BOOLEAN, SaveLog(r, ok)
    PROVE  UsedInv'
  <1>1. /\ worker[r].pc = "idle" /\ worker'[r].pc = "logged"
        /\ \A q \in Requests \ {r} : worker'[q] = worker[q] /\ log'[q] = log[q]
        /\ mishaps = 0 /\ log'[r] = "pending" /\ log[r] = "none"
        /\ \A q \in InFlight : q \in crossed' /\ r \in crossed'
        /\ crossed \subseteq crossed'
    BY LogStep
  <1>2. memcells' = memcells /\ lastCell' = lastCell
    BY DEF SaveLog
  <1>o. \A m : Overtaken(m)' <=> Overtaken(m)
    BY <1>2 DEF Overtaken
  <1>3. \A v : Below(v) => Below(v)'
    BY <1>1, <1>o DEF Below
  <1>4. ASSUME NEW m \in Requests, log'[m] = "used", m \notin crossed', ~Overtaken(m)'
        PROVE  \/ \E c \in memcells' : m \in c.messages
               \/ \E q \in Requests : worker'[q].pc \in {"confirm", "save"} /\ m \in worker'[q].history
    <2>1. m # r /\ log[m] = "used" /\ m \notin crossed
      BY <1>1, <1>4
    <2>2. CASE \E c \in memcells : m \in c.messages
      BY <1>2, <2>2
    <2>3. CASE \E q \in Requests : worker[q].pc \in {"confirm", "save"} /\ m \in worker[q].history
      BY <1>1, <2>3
    <2> QED BY <1>1, <1>4, <1>o, <2>1, <2>2, <2>3 DEF UsedInv, UsedInMemcell
  <1>5. ASSUME NEW q \in Requests
        PROVE  /\ worker'[q].pc \in {"history", "statusWrite"} => Below(worker[q].since)'
               /\ worker'[q].pc \in {"boundary", "mark"} =>
                     \A m \in Requests \ crossed' : m # q /\ Waiting(m)' => Held(q, m)'
               /\ worker'[q].pc \in {"confirm", "save", "extract"} =>
                     \A m \in Requests \ crossed' : m # q => log'[m] \in {"none", "used"}
               /\ worker'[q].pc = "extract" =>
                     \E c \in memcells' : c.messages = worker'[q].history
    <2>1. CASE worker'[q].pc \notin {"history", "statusWrite", "boundary", "mark", "confirm", "save", "extract"}
      BY <2>1
    <2>2. CASE worker'[q].pc \in {"history", "statusWrite", "boundary", "mark", "confirm", "save", "extract"}
      <3>1. q # r /\ worker'[q] = worker[q] /\ q \in InFlight
        BY <1>1, <2>2 DEF InFlight
      <3>2. r \in crossed' /\ \A m \in Requests \ crossed' : m # r /\ log'[m] = log[m] /\ m \notin crossed
        BY <1>1, <3>1
      <3>3. worker'[q].pc \in {"history", "statusWrite"} => Below(worker[q].since)'
        BY <1>1, <1>3, <3>1 DEF UsedInv
      <3>4. worker'[q].pc \in {"boundary", "mark"} =>
                \A m \in Requests \ crossed' : m # q /\ Waiting(m)' => Held(q, m)'
        BY <1>1, <1>o, <3>1, <3>2 DEF UsedInv, Waiting, Held
      <3>5. worker'[q].pc \in {"confirm", "save", "extract"} =>
                \A m \in Requests \ crossed' : m # q => log'[m] \in {"none", "used"}
        BY <1>1, <3>1, <3>2 DEF UsedInv
      <3>6. worker'[q].pc = "extract" => \E c \in memcells' : c.messages = worker'[q].history
        BY <1>1, <1>2, <3>1 DEF UsedInv
      <3> QED BY <3>3, <3>4, <3>5, <3>6
    <2> QED BY <2>1, <2>2
  <1>6. UsedInMemcell'
    BY <1>4 DEF UsedInMemcell
  <1>7. Below(lastCell)'
    BY <1>1, <1>2, <1>3 DEF UsedInv, Below
  <1> QED BY <1>5, <1>6, <1>7 DEF UsedInv

\* The last message of a memcell was logged before those still unused, so its
\* time hides only the ones that it overtakes.
LEMMA ExtractBelow ==
    ASSUME MemorizeBase, UsedInv, mishaps = 0, NEW r \in Requests, worker[r].pc = "extract"
    PROVE  Below(CellTime(r))
  <1> DEFINE H == worker[r].history
  <1>1. H \in SUBSET Requests /\ H # {} /\ \A h \in H : h # r /\ log[h] # "none"
    BY DEF MemorizeBase, MTyped, WorkerRows, HistoryLogged, WithHistory
  <1>2. Max(H) \in H
    <2>1. Messages \in Nat /\ H \in SUBSET Nat /\ \A t \in H : t <= Messages
      BY <1>1, MemorizeAssumption DEF Requests
    <2> HIDE DEF H
    <2> QED BY <1>1, <2>1, MaxOf
  <1>3. ASSUME NEW m \in Requests \ crossed, log[m] # "used", NEW h \in H PROVE h < m
    <2>0. m \in Nat /\ h \in Nat /\ h \in Requests
      BY <1>1, MemorizeAssumption DEF Requests
    <2>1. worker[h].pc # "idle"
      BY <1>1, <2>0 DEF MemorizeBase, InOrder
    <2>2. CASE m = r
      <3>1. r \in InFlight \ crossed
        BY <1>3, <2>2 DEF InFlight
      <3> QED BY <1>1, <2>0, <2>1, <2>2, <3>1 DEF MemorizeBase, InOrder
    <2>3. CASE m # r
      <3>1. log[m] = "none"
        BY <1>3, <2>3 DEF UsedInv
      <3>2. worker[m].pc = "idle"
        BY <3>1 DEF MemorizeBase, InOrder
      <3> QED BY <2>0, <2>1, <3>2 DEF MemorizeBase, InOrder
    <2> QED BY <2>2, <2>3
  <1>4. PICK c \in memcells : c.messages = H
    BY DEF UsedInv
  <1>5. ASSUME NEW m \in Requests \ crossed, log[m] # "used", ~(CellTime(r) <= m) PROVE Overtaken(m)
    <2>1. Max(H) < m
      BY <1>2, <1>3, <1>5
    <2>2. Stamp[Max(H)] > m
      <3>1. Stamp[Max(H)] \in Nat /\ m \in Nat
        BY <1>1, <1>2, MemorizeAssumption DEF Requests
      <3> QED BY <1>5, <3>1 DEF CellTime
    <2> QED BY <1>4, <2>1, <2>2 DEF Overtaken
  <1> QED BY <1>5 DEF Below

LEMMA UsedStep == ASSUME MemorizeBase, UsedInv, [MemorizeNext]_memorizeVars PROVE UsedInv'
  <1>0. mishaps \in Nat /\ mishaps' \in Nat
    BY MTypedStep DEF MemorizeBase, MTyped
  <1>1. CASE mishaps' # 0
    BY <1>0, <1>1 DEF UsedInv, UsedInMemcell
  <1>2. CASE mishaps' = 0
    <2>1. ASSUME NEW r \in Requests, NEW ok \in BOOLEAN, SaveLog(r, ok) PROVE UsedInv'
      BY <1>2, <2>1, UsedLogStep
    <2>2. ASSUME \A r \in Requests, ok \in BOOLEAN : ~SaveLog(r, ok) PROVE UsedInv'
      <3>q. Quiet /\ mishaps = 0 /\ crossed' = crossed /\ \A q \in Requests : Forward(q)
        BY <1>2, <2>2, QuietStep DEF MemorizeBase, Quiet
      <3>t. worker \in [Requests -> WorkerRows] /\ \A q \in Requests : worker[q] \in WorkerRows
        BY DEF MemorizeBase, MTyped
      <3>m. ASSUME NEW ok \in BOOLEAN, Succeeds(ok) PROVE ok
        BY <1>0, <1>2, <3>m DEF Succeeds, Mishap
      <3>o. memcells \subseteq memcells' => \A m : Overtaken(m) => Overtaken(m)'
        BY DEF Overtaken
      <3>b. memcells \subseteq memcells' => \A v : Below(v) => Below(v)'
        BY <3>o, <3>q DEF Below, Forward
      <3>l. memcells \subseteq memcells' /\ lastCell' = lastCell => Below(lastCell)'
        BY <3>b, <3>q DEF UsedInv, Below
      <3>1. ASSUME NEW r \in Requests, NEW pc, WorkerAt(r, pc), lastCell' = lastCell \/ Below(lastCell)',
                   pc \notin {"history", "statusWrite", "boundary", "mark", "confirm", "save", "extract"},
                   worker[r].pc \notin {"confirm", "save"}, memcells' = memcells,
                   \A q \in Requests : log'[q] = "used" => log[q] = "used"
            PROVE  UsedInv'
        <4>1. /\ worker'[r].pc = pc /\ \A q \in Requests \ {r} : worker'[q] = worker[q]
          BY <3>t, <3>1 DEF WorkerAt, WorkerRows
        <4> QED BY <3>q, <3>l, <3>1, <4>1, UsedMoves
      <3>2. ASSUME NEW r \in Requests, NEW ok \in BOOLEAN, HandOn(r, ok) PROVE UsedInv'
        <4>1. PICK pc \in {"queued", "ended"} : WorkerAt(r, pc)
          BY <3>2 DEF HandOn
        <4> QED BY <3>1, <3>2, <4>1 DEF HandOn
      <3>3. ASSUME NEW r \in Requests, BeginMemorize(r) \/ ReadStatus(r) PROVE UsedInv'
        <4>1. /\ worker'[r].pc \in {"history", "statusWrite"} /\ worker'[r].since = lastCell
              /\ \A q \in Requests \ {r} : worker'[q] = worker[q]
              /\ worker[r].pc \in {"queued", "statusRead"}
              /\ UNCHANGED <<log, lastCell, memcells>>
          BY <3>3, <3>t DEF BeginMemorize, ReadStatus, WorkerRows
        <4>2. Below(worker[r].since)'
          BY <3>l, <4>1 DEF Below
        <4> QED BY <3>q, <3>l, <4>1, <4>2, UsedMoves
      <3>4. ASSUME NEW r \in Requests, NEW ok \in BOOLEAN, ReadHistory(r, ok) PROVE UsedInv'
        <4>1. /\ worker' = [worker EXCEPT ![r].pc = "boundary", ![r].history = History(r)]
              /\ worker[r].pc = "history" /\ UNCHANGED <<log, lastCell, memcells>>
          BY <3>4, <3>m DEF ReadHistory
        <4>2. /\ worker'[r].pc = "boundary" /\ worker'[r].history = History(r)
              /\ \A q \in Requests \ {r} : worker'[q] = worker[q]
          BY <3>t, <4>1 DEF WorkerRows
        <4>3. ASSUME NEW m \in Requests \ crossed, m # r, Waiting(m), ~Overtaken(m)
              PROVE  m \in History(r)
          <5>1. worker[r].since <= m
            BY <3>q, <4>1, <4>3 DEF UsedInv, Below, Waiting
          <5>2. worker[r].since \in Nat /\ m \in Nat
            BY <3>t, MemorizeAssumption DEF WorkerRows, Requests
          <5> QED BY <4>3, <5>1, <5>2 DEF History, Unused, Waiting
        <4>4. \A m \in Requests \ crossed : m # r /\ Waiting(m)' => Held(r, m)'
          BY <3>o, <4>1, <4>2, <4>3 DEF Waiting, Held
        <4> QED BY <3>q, <3>l, <4>1, <4>2, <4>4, UsedMoves
      <3>5. ASSUME NEW r \in Requests, NEW pc \in {"mark", "goOn", "wait"}, DetectBoundary(r, pc)
            PROVE  UsedInv'
        <4>1. /\ worker'[r].pc = pc /\ worker'[r].history = worker[r].history
              /\ \A q \in Requests \ {r} : worker'[q] = worker[q]
              /\ worker[r].pc = "boundary" /\ UNCHANGED <<log, lastCell, memcells>>
          BY <3>5, <3>t DEF DetectBoundary, WorkerAt, WorkerRows
        <4>2. \A m \in Requests \ crossed : m # r /\ Waiting(m)' => Held(r, m)'
          BY <3>o, <3>q, <4>1 DEF UsedInv, Waiting, Held
        <4> QED BY <3>q, <3>l, <4>1, <4>2, UsedMoves
      <3>6. ASSUME NEW r \in Requests, MemorizeRaises(r) \/ JobTimesOut(r) PROVE UsedInv'
        BY <1>0, <1>2, <3>6 DEF MemorizeRaises, JobTimesOut, Mishap
      <3>7. ASSUME NEW r \in Requests, NEW ok \in BOOLEAN, Accumulate(r, ok) PROVE UsedInv'
        <4>1. PICK pc \in {"ended", "statusRead"} : WorkerAt(r, pc)
          BY <3>7 DEF Accumulate, AfterAccumulating
        <4>2. \A q \in Requests : log'[q] = "used" => log[q] = "used"
          BY <3>7 DEF Accumulate, Confirmed, MemorizeBase, MTyped
        <4> QED BY <3>1, <3>7, <4>1, <4>2 DEF Accumulate
      <3>8. ASSUME NEW r \in Requests, NEW ok \in BOOLEAN, WriteStatus(r, ok) PROVE UsedInv'
        <4>1. lastCell' = worker[r].since /\ Below(worker[r].since) /\ UNCHANGED <<log, memcells, crossed>>
          BY <3>8, <3>m, <3>q DEF WriteStatus, UsedInv
        <4>2. Below(lastCell)'
          BY <4>1 DEF Below, Overtaken
        <4> QED BY <3>1, <3>8, <4>1, <4>2 DEF WriteStatus
      <3>9. ASSUME NEW r \in Requests, NEW ok \in BOOLEAN, Extract(r, ok) PROVE UsedInv'
        <4>1. /\ lastCell' = CellTime(r) /\ UNCHANGED <<log, memcells, crossed>>
              /\ worker[r].pc = "extract"
          BY <3>9, <3>m, <3>q DEF Extract
        <4>2. Below(lastCell)'
          BY <3>q, <4>1, ExtractBelow DEF Below, Overtaken
        <4> QED BY <3>1, <3>9, <4>1, <4>2 DEF Extract
      <3>10. ASSUME NEW r \in Requests, NEW ok \in BOOLEAN, MarkUsed(r, ok) PROVE UsedInv'
        <4>1. /\ worker' = [worker EXCEPT ![r].pc = "confirm", ![r].marked = ok]
              /\ log' = [m \in Requests |-> IF m \in Marked(r) THEN "used" ELSE log[m]]
              /\ worker[r].pc = "mark" /\ UNCHANGED <<lastCell, memcells>>
          BY <3>10, <3>m DEF MarkUsed
        <4>2. /\ worker'[r].pc = "confirm" /\ worker'[r].history = worker[r].history
              /\ \A q \in Requests \ {r} : worker'[q] = worker[q]
          BY <3>t, <4>1 DEF WorkerRows
        <4>3. \A m \in Requests \ crossed : m # r => log'[m] \in {"none", "used"}
          <5>1. \A m \in Requests : log[m] \in LogRows
            BY DEF MemorizeBase, MTyped
          <5> QED BY <4>1, <5>1 DEF Marked, Unused, LogRows
        <4>4. \A m \in Requests \ crossed : log'[m] = "used" =>
                  \/ log[m] = "used" \/ Overtaken(m)
                  \/ worker'[r].pc = "confirm" /\ m \in worker'[r].history
          BY <3>q, <4>1, <4>2 DEF Marked, Unused, UsedInv, Waiting, Held
        <4> QED BY <3>q, <3>l, <4>1, <4>2, <4>3, <4>4, UsedMoves
      <3>11. ASSUME NEW r \in Requests, NEW ok \in BOOLEAN, ConfirmNew(r, ok) PROVE UsedInv'
        <4>1. /\ worker'[r].pc = "save" /\ worker'[r].history = worker[r].history
              /\ \A q \in Requests \ {r} : worker'[q] = worker[q]
              /\ worker[r].pc = "confirm" /\ UNCHANGED <<lastCell, memcells>>
          BY <3>11, <3>t DEF ConfirmNew, WorkerAt, WorkerRows
        <4>2. \A m \in Requests : log[m] \in {"none", "used"} => log'[m] \in {"none", "used"}
          BY <3>q DEF Forward
        <4>3. \A m \in Requests \ crossed : m # r => log'[m] \in {"none", "used"}
          BY <3>q, <4>1, <4>2 DEF UsedInv
        <4>4. \A q \in Requests : log'[q] = "used" => log[q] = "used"
          BY <3>11 DEF ConfirmNew, Confirmed, MemorizeBase, MTyped
        <4> QED BY <3>q, <3>l, <4>1, <4>3, <4>4, UsedMoves
      <3>12. ASSUME NEW r \in Requests, NEW ok \in BOOLEAN, SaveMemcell(r, ok) PROVE UsedInv'
        <4>1. /\ worker'[r].pc = "extract" /\ worker[r].pc = "save"
              /\ \A q \in Requests \ {r} : worker'[q] = worker[q]
              /\ UNCHANGED <<log, lastCell>> /\ memcells' = memcells \cup {CellOf(r)}
          BY <3>12, <3>m, <3>t DEF SaveMemcell, WorkerAt, WorkerRows
        <4>2. CellOf(r).messages = worker[r].history
          BY DEF CellOf
        <4>3. \A m \in Requests \ crossed : m # r => log'[m] \in {"none", "used"}
          BY <3>q, <4>1 DEF UsedInv
        <4>4. memcells \subseteq memcells' /\ Below(lastCell)'
          BY <3>l, <4>1
        <4>5. worker'[r].history = worker[r].history
          BY <3>12, <3>t DEF SaveMemcell, WorkerAt, WorkerRows
        <4>6. \E c \in memcells' : c.messages = worker[r].history
          BY <4>1, <4>2
        <4> QED BY <3>q, <4>1, <4>3, <4>4, <4>5, <4>6, UsedMoves
      <3>13. CASE MemorizeDies
        BY <1>0, <1>2, <3>13 DEF MemorizeDies, Mishap
      <3>14. CASE UNCHANGED memorizeVars
        BY <3>14 DEF memorizeVars, UsedInv, UsedInMemcell, Below, Waiting, Held, Overtaken
      <3> QED
        BY <2>2, <3>2, <3>3, <3>4, <3>5, <3>6, <3>7, <3>8, <3>9, <3>10, <3>11, <3>12, <3>13, <3>14
           DEF MemorizeNext, MemorizeMoves
    <2> QED BY <2>1, <2>2
  <1> QED BY <1>1, <1>2

\* A used message is in a memcell or about to be, unless a call failed, the
\* message crossed another request or a client's clock that was ahead hid it.
THEOREM UsedIsInMemcell == MemorizeSpec => []UsedInMemcell
  <1>1. MemorizeInit => UsedInv
    <2> SUFFICES ASSUME MemorizeInit PROVE UsedInv
      OBVIOUS
    <2>1. /\ lastCell = 0 /\ \A q \in Requests : worker[q].pc = "idle"
          /\ \A m \in Requests : log[m] = "none"
      BY DEF MemorizeInit, Idle
    <2>2. \A m \in Requests : 0 <= m
      BY MemorizeAssumption DEF Requests
    <2> QED BY <2>1, <2>2 DEF UsedInv, UsedInMemcell, Below
  <1>2. UsedInv => UsedInMemcell
    BY DEF UsedInv
  <1> QED BY <1>1, <1>2, UsedStep, BaseAlways, PTL DEF MemorizeSpec

-----------------------------------------------------------------------------
(* Clusters: a state agrees with itself *)

Members(s, c) == {m \in Memcells : s.of[m] = c}
Agrees(s, c) ==
    s.count[c] = Cardinality(Members(s, c)) \/ (s.count[c] = 0 /\ Cardinality(Members(s, c)) = 1)
Assigned(s) == {m \in Memcells : s.of[m] # Nowhere}

StateRows == [of : [Memcells -> Nat], next : Nat, count : [ClusterNumbers -> Nat]]
\* Numbers in use are not above next, and next not above the memcells that have one.
SaneState(s) ==
    /\ s \in StateRows
    /\ s.next <= Cardinality(Assigned(s))
    /\ \A m \in Memcells : s.of[m] <= s.next
    /\ \A c \in ClusterNumbers : Agrees(s, c)

TaskPlaces == {"idle", "embed", "find", "save", "profile", "upsert", "ended"}
SaneStates == {s \in StateRows : SaneState(s)}
TaskRows == [pc : TaskPlaces, state : SaneStates, found : Nat, material : SUBSET Memcells]

LEMMA MemcellSets ==
    /\ IsFiniteSet(Memcells) /\ Cardinality(Memcells) \in Nat
    /\ \A T \in SUBSET Memcells :
          /\ IsFiniteSet(T) /\ Cardinality(T) \in Nat /\ Cardinality(T) <= Cardinality(Memcells)
          /\ \A m \in Memcells \ T : Cardinality(T \cup {m}) = Cardinality(T) + 1
  BY ClusteringAssumption, FS_Subset, FS_CardinalityType, FS_AddElement

LEMMA EmptySane == SaneState(Empty)
  <1>1. Empty \in StateRows /\ Empty.next = 0 /\ \A m \in Memcells : Empty.of[m] = 0
    BY DEF Empty, StateRows, Nowhere
  <1>2. Assigned(Empty) = {}
    BY <1>1 DEF Assigned, Nowhere
  <1>3. \A c \in ClusterNumbers : Empty.count[c] = 0 /\ Members(Empty, c) = {}
    BY <1>1, MemcellSets DEF Empty, Members, ClusterNumbers
  <1> QED BY <1>1, <1>2, <1>3, FS_EmptySet DEF SaneState, Agrees

\* A memcell that is in no cluster gets one of its own, counted or not.
LEMMA NewSane ==
    ASSUME NEW s, SaneState(s), NEW m \in Memcells, s.of[m] = Nowhere
    PROVE  /\ SaneState(InNew(s, m)) /\ SaneState(Counted(InNew(s, m), s.next + 1))
           /\ InNew(s, m).of[m] \in ClusterNumbers
           /\ Counted(InNew(s, m), s.next + 1).of[m] \in ClusterNumbers
           /\ \A e \in Memcells \ {m} :
                 /\ InNew(s, m).of[e] = s.of[e]
                 /\ Counted(InNew(s, m), s.next + 1).of[e] = s.of[e]
  <1> DEFINE n == InNew(s, m)
             k == Counted(n, s.next + 1)
             new == s.next + 1
  <1>1. /\ s \in StateRows /\ s.next \in Nat /\ s.next <= Cardinality(Assigned(s))
        /\ \A e \in Memcells : s.of[e] \in Nat /\ s.of[e] <= s.next
        /\ \A c \in ClusterNumbers : Agrees(s, c) /\ s.count[c] \in Nat
    BY DEF SaneState, StateRows
  <1>2. /\ n \in StateRows /\ n.next = new /\ n.count = s.count /\ n.of[m] = new
        /\ \A e \in Memcells \ {m} : n.of[e] = s.of[e]
    <2>1. n = [of |-> [s.of EXCEPT ![m] = new], next |-> new, count |-> s.count]
      <3>1. [s EXCEPT !.of[m] = new] = [of |-> [s.of EXCEPT ![m] = new], next |-> s.next, count |-> s.count]
        BY <1>1 DEF StateRows
      <3>2. n = [[s EXCEPT !.of[m] = new] EXCEPT !.next = new]
        BY DEF InNew
      <3> HIDE DEF n
      <3> QED BY <3>1, <3>2
    <2>2. [s.of EXCEPT ![m] = new] \in [Memcells -> Nat] /\ s.count \in [ClusterNumbers -> Nat]
      BY <1>1 DEF StateRows
    <2> HIDE DEF n
    <2> QED BY <1>1, <2>1, <2>2 DEF StateRows
  <1>3. /\ k \in StateRows /\ k.next = new /\ k.of = n.of
        /\ \A c \in ClusterNumbers : k.count[c] = IF c = new THEN s.count[c] + 1 ELSE s.count[c]
    BY <1>1, <1>2 DEF Counted, StateRows
  <1> HIDE DEF n, k
  <1>4. Assigned(n) = Assigned(s) \cup {m} /\ m \notin Assigned(s) /\ Assigned(k) = Assigned(n)
    BY <1>1, <1>2, <1>3 DEF Assigned, Nowhere
  <1>5. Cardinality(Assigned(n)) = Cardinality(Assigned(s)) + 1 /\ Cardinality(Assigned(s)) \in Nat
        /\ Cardinality(Assigned(n)) <= Cardinality(Memcells)
    <2>1. Assigned(s) \in SUBSET Memcells /\ Assigned(n) \in SUBSET Memcells
      BY DEF Assigned
    <2> QED BY <1>4, <2>1, MemcellSets
  <1>6. new <= Cardinality(Assigned(n)) /\ new \in ClusterNumbers
    BY <1>1, <1>5, MemcellSets DEF ClusterNumbers
  <1>7. \A e \in Memcells : n.of[e] <= new
    BY <1>1, <1>2
  <1>8. Members(n, new) = {m} /\ Members(k, new) = {m} /\ Members(s, new) = {}
    BY <1>1, <1>2, <1>3 DEF Members
  <1>9. \A c \in ClusterNumbers : c # new => Members(n, c) = Members(s, c) /\ Members(k, c) = Members(s, c)
    <2>1. \A c \in ClusterNumbers : c # Nowhere
      BY DEF ClusterNumbers, Nowhere
    <2> QED BY <1>2, <1>3, <2>1 DEF Members
  <1>10. Cardinality({m}) = 1 /\ Cardinality({}) = 0
    BY FS_Singleton, FS_EmptySet
  <1>11. s.count[new] = 0
    BY <1>1, <1>6, <1>8, <1>10 DEF Agrees
  <1>12. \A c \in ClusterNumbers : Agrees(n, c) /\ Agrees(k, c)
    <2> TAKE c \in ClusterNumbers
    <2>1. CASE c = new
      BY <1>2, <1>3, <1>6, <1>8, <1>10, <1>11, <2>1 DEF Agrees
    <2>2. CASE c # new
      BY <1>1, <1>2, <1>3, <1>9, <2>2 DEF Agrees
    <2> QED BY <2>1, <2>2
  <1>13. SaneState(n)
    BY <1>2, <1>6, <1>7, <1>12 DEF SaneState
  <1>14. SaneState(k)
    BY <1>3, <1>4, <1>6, <1>7, <1>12 DEF SaneState
  <1> QED BY <1>2, <1>3, <1>6, <1>13, <1>14 DEF n, k

\* It may join a cluster that counts memcells.
LEMMA JoinSane ==
    ASSUME NEW s, SaneState(s), NEW m \in Memcells, s.of[m] = Nowhere,
           NEW c \in ClusterNumbers, s.count[c] > 0
    PROVE  /\ SaneState(InExisting(s, m, c)) /\ InExisting(s, m, c).of[m] \in ClusterNumbers
           /\ \A e \in Memcells \ {m} : InExisting(s, m, c).of[e] = s.of[e]
  <1> DEFINE k == InExisting(s, m, c)
  <1>1. /\ s \in StateRows /\ s.next \in Nat /\ s.next <= Cardinality(Assigned(s))
        /\ \A e \in Memcells : s.of[e] \in Nat /\ s.of[e] <= s.next
        /\ \A d \in ClusterNumbers : Agrees(s, d) /\ s.count[d] \in Nat
    BY DEF SaneState, StateRows
  <1>2. /\ k \in StateRows /\ k.next = s.next /\ k.of[m] = c
        /\ \A e \in Memcells \ {m} : k.of[e] = s.of[e]
        /\ \A d \in ClusterNumbers : k.count[d] = IF d = c THEN s.count[d] + 1 ELSE s.count[d]
    <2>1. k = [of |-> [s.of EXCEPT ![m] = c], next |-> s.next,
               count |-> [s.count EXCEPT ![c] = s.count[c] + 1]]
      <3> DEFINE t == [s EXCEPT !.of[m] = c]
      <3>1. t = [of |-> [s.of EXCEPT ![m] = c], next |-> s.next, count |-> s.count]
        BY <1>1 DEF StateRows
      <3>2. c \in DOMAIN s.count /\ s.count \in [ClusterNumbers -> Nat]
        BY <1>1 DEF StateRows
      <3>3. k = [t EXCEPT !.count[c] = t.count[c] + 1]
        BY DEF InExisting, Counted
      <3> HIDE DEF t, k
      <3> QED BY <3>1, <3>2, <3>3
    <2>2. c \in Nat
      BY MemcellSets DEF ClusterNumbers
    <2>3. /\ [s.of EXCEPT ![m] = c] \in [Memcells -> Nat]
          /\ [s.count EXCEPT ![c] = s.count[c] + 1] \in [ClusterNumbers -> Nat]
      BY <1>1, <2>2 DEF StateRows
    <2> HIDE DEF k
    <2> QED BY <1>1, <2>1, <2>3 DEF StateRows
  <1> HIDE DEF k
  <1>3. Members(k, c) = Members(s, c) \cup {m} /\ m \notin Members(s, c)
    BY <1>1, <1>2 DEF Members, ClusterNumbers, Nowhere
  <1>4. \A d \in ClusterNumbers : d # c => Members(k, d) = Members(s, d)
    <2>1. \A d \in ClusterNumbers : d # Nowhere
      BY DEF ClusterNumbers, Nowhere
    <2> QED BY <1>2, <2>1 DEF Members
  <1>5. Members(s, c) \in SUBSET Memcells /\ Assigned(s) \in SUBSET Memcells /\ Assigned(k) \in SUBSET Memcells
    BY DEF Members, Assigned
  <1>6. s.count[c] = Cardinality(Members(s, c)) /\ Cardinality(Members(k, c)) = Cardinality(Members(s, c)) + 1
    BY <1>1, <1>3, <1>5, MemcellSets DEF Agrees
  <1>7. \A d \in ClusterNumbers : Agrees(k, d)
    <2> TAKE d \in ClusterNumbers
    <2>1. CASE d = c
      BY <1>2, <1>6, <2>1 DEF Agrees
    <2>2. CASE d # c
      BY <1>1, <1>2, <1>4, <2>2 DEF Agrees
    <2> QED BY <2>1, <2>2
  <1>8. c <= s.next
    <2>1. Members(s, c) # {}
      BY <1>6, FS_EmptySet
    <2> QED BY <1>1, <2>1 DEF Members
  <1>9. s.next <= Cardinality(Assigned(k))
    <2>1. Assigned(k) = Assigned(s) \cup {m} /\ m \notin Assigned(s)
      BY <1>1, <1>2 DEF Assigned, Nowhere, ClusterNumbers
    <2>2. Cardinality(Assigned(k)) = Cardinality(Assigned(s)) + 1 /\ Cardinality(Assigned(s)) \in Nat
      BY <1>5, <2>1, MemcellSets
    <2> QED BY <1>1, <2>2
  <1>10. \A e \in Memcells : k.of[e] <= s.next
    BY <1>1, <1>2, <1>8
  <1>11. SaneState(k)
    BY <1>2, <1>7, <1>9, <1>10 DEF SaneState
  <1> QED BY <1>2, <1>11 DEF k

-----------------------------------------------------------------------------
(* Clusters: tasks that write over each other *)

ProfileRows == [material : SUBSET Memcells, count : Nat]

Early == {"idle", "embed"}
Placed == {"find", "save", "profile", "upsert"}

\* Until its task has put a memcell into a cluster, no state has it, so every
\* task adds one memcell to a state that agrees.
UnplacedNowhere ==
    \A m \in Memcells : task[m].pc \in Early =>
        /\ \A i \in DOMAIN documents : documents[i].of[m] = Nowhere
        /\ \A e \in Memcells : task[e].state.of[m] = Nowhere
PlacedSomewhere ==
    \A m \in Memcells : task[m].pc \in Placed => task[m].state.of[m] \in ClusterNumbers
\* What a task is about to save as a profile is counted, unless a call failed.
MaterialCounted ==
    \A m \in Memcells : task[m].pc = "upsert" =>
        task[m].state.count[task[m].state.of[m]] = Cardinality(task[m].material) \/ misses > 0

ClusterTyped ==
    /\ task \in [Memcells -> TaskRows] /\ documents \in Seq(SaneStates)
    /\ profiles \in Seq(ProfileRows) /\ misses \in Nat
ClusterInv ==
    ClusterTyped /\ UnplacedNowhere /\ PlacedSomewhere /\ MaterialCounted /\ ProfilesCounted

LEMMA UpsertedRows ==
    ASSUME NEW S, NEW rows \in Seq(S), NEW row \in S, NEW i \in Nat,
           NEW new, new = Upserted(rows, i, row)
    PROVE  /\ new \in Seq(S)
           /\ \A j \in DOMAIN new : new[j] = row \/ (j \in DOMAIN rows /\ new[j] = rows[j])
  <1>1. CASE i = 0
    <2>1. new = Append(rows, row)
      BY <1>1 DEF Upserted
    <2> QED BY <2>1, AppendProperties
  <1>2. CASE i \in 1..Len(rows)
    <2>1. new = [rows EXCEPT ![i] = row]
      BY <1>2 DEF Upserted
    <2>2. [rows EXCEPT ![i] = row] \in Seq(S)
      BY <1>2, ExceptSeq
    <2> QED BY <2>1, <2>2
  <1>3. CASE i # 0 /\ i \notin 1..Len(rows)
    <2>1. i \notin DOMAIN rows
      BY <1>3
    <2>2. new = rows
      BY <1>3, <2>1 DEF Upserted
    <2> QED BY <2>2
  <1> QED BY <1>1, <1>2, <1>3

LEMMA FoundRow == ASSUME NEW S, NEW rows \in Seq(S), NEW i \in FindOne(rows) PROVE i \in Nat
  BY DEF FindOne

\* A step of one task that leaves the rows as they are.
LEMMA TaskMoves ==
    ASSUME ClusterInv, NEW m \in Memcells, NEW row \in TaskRows,
           task' = [task EXCEPT ![m] = row], documents' = documents,
           misses' \in {misses, misses + 1}, profiles' = profiles,
           \A e \in Memcells \ {m} : task[e].pc \in Early => row.state.of[e] = Nowhere,
           row.pc \in Early => task[m].pc \in Early /\ row.state.of[m] = Nowhere,
           row.pc \in Placed => row.state.of[m] \in ClusterNumbers,
           row.pc = "upsert" =>
              row.state.count[row.state.of[m]] = Cardinality(row.material) \/ misses' > 0
    PROVE  ClusterInv'
  <1> USE DEF ClusterInv
  <1>1. task'[m] = row /\ \A e \in Memcells \ {m} : task'[e] = task[e]
    BY DEF ClusterTyped
  <1>2. ClusterTyped' /\ (misses > 0 => misses' > 0)
    BY DEF ClusterTyped
  <1>3. UnplacedNowhere'
    <2>1. SUFFICES ASSUME NEW e \in Memcells, task'[e].pc \in Early
                   PROVE  /\ \A i \in DOMAIN documents' : documents'[i].of[e] = Nowhere
                          /\ \A d \in Memcells : task'[d].state.of[e] = Nowhere
      BY DEF UnplacedNowhere
    <2>2. task[e].pc \in Early
      BY <1>1, <2>1
    <2>3. row.state.of[e] = Nowhere
      BY <1>1, <2>1, <2>2
    <2> QED BY <1>1, <2>2, <2>3 DEF UnplacedNowhere
  <1>4. PlacedSomewhere'
    BY <1>1 DEF PlacedSomewhere
  <1>5. MaterialCounted'
    BY <1>1, <1>2 DEF MaterialCounted
  <1>6. ProfilesCounted'
    BY <1>2 DEF ProfilesCounted
  <1> QED BY <1>2, <1>3, <1>4, <1>5, <1>6

LEMMA ClusterStep == ASSUME ClusterInv, [ClusteringNext]_clusteringVars PROVE ClusterInv'
  <1> USE DEF ClusterInv
  <1>t. \A m \in Memcells : /\ task[m] \in TaskRows /\ task[m].state \in SaneStates
                            /\ SaneState(task[m].state)
    BY DEF ClusterTyped, TaskRows, SaneStates
  <1>m. ASSUME NEW ok \in BOOLEAN, Answers(ok)
        PROVE  /\ misses \in Nat /\ misses' \in Nat /\ misses' \in {misses, misses + 1}
               /\ (misses > 0 => misses' > 0) /\ (misses' > 0 \/ ok)
    BY <1>m DEF Answers, ClusterTyped
  <1>p. ASSUME NEW m \in Memcells, NEW pc \in {"save", "profile", "ended"}, TaskAt(m, pc),
               task[m].pc \in Placed,
               documents' = documents, profiles' = profiles, misses' \in {misses, misses + 1}
        PROVE  ClusterInv'
    <2> DEFINE row == [task[m] EXCEPT !.pc = pc]
    <2>1. row \in TaskRows /\ row.pc = pc /\ row.state = task[m].state
      BY <1>t DEF TaskRows, TaskPlaces
    <2>2. task' = [task EXCEPT ![m] = row]
      BY <1>p DEF TaskAt
    <2>3. task[m].state.of[m] \in ClusterNumbers
      BY <1>p DEF PlacedSomewhere
    <2>4. \A e \in Memcells \ {m} : task[e].pc \in Early => row.state.of[e] = Nowhere
      BY <2>1 DEF UnplacedNowhere
    <2>5. row.pc \notin Early /\ row.pc # "upsert"
      BY <2>1 DEF Early
    <2> HIDE DEF row
    <2> QED BY <1>p, <2>1, <2>2, <2>3, <2>4, <2>5, TaskMoves
  <1>1. ASSUME NEW m \in Memcells, NEW ok \in BOOLEAN, Load(m, ok) PROVE ClusterInv'
    <2>1. PICK i \in FindOne(documents) :
              task' = [task EXCEPT ![m].pc = "embed",
                                   ![m].state = IF ok /\ i # 0 THEN documents[i] ELSE Empty]
      BY <1>1 DEF Load
    <2> DEFINE s == IF ok /\ i # 0 THEN documents[i] ELSE Empty
               row == [task[m] EXCEPT !.pc = "embed", !.state = s]
    <2>2. i = 0 \/ i \in DOMAIN documents
      BY <2>1 DEF FindOne
    <2>3. s \in SaneStates
      <3>1. CASE ok /\ i # 0
        BY <2>2, <3>1 DEF ClusterTyped
      <3>2. CASE ~(ok /\ i # 0)
        BY <3>2, EmptySane DEF SaneStates, SaneState
      <3> QED BY <3>1, <3>2
    <2>4. \A e \in Memcells : task[e].pc \in Early => s.of[e] = Nowhere
      <3>1. CASE ok /\ i # 0
        BY <2>2, <3>1 DEF UnplacedNowhere
      <3>2. CASE ~(ok /\ i # 0)
        BY <3>2 DEF Empty
      <3> QED BY <3>1, <3>2
    <2>5. /\ task' = [task EXCEPT ![m] = [task[m] EXCEPT !.pc = "embed", !.state = s]]
          /\ task[m].pc \in Early
          /\ documents' = documents /\ profiles' = profiles /\ misses' \in {misses, misses + 1}
      BY <1>1, <1>m, <2>1 DEF Load, Early
    <2> HIDE DEF s
    <2>6. row \in TaskRows /\ row.pc = "embed" /\ row.state = s
      BY <1>t, <2>3 DEF TaskRows, TaskPlaces
    <2>7. row.pc \notin Placed /\ row.pc # "upsert"
      BY <2>6 DEF Placed
    <2> HIDE DEF row
    <2> QED BY <2>4, <2>5, <2>6, <2>7, TaskMoves DEF row
  <1>2. ASSUME NEW m \in Memcells, NEW embedded \in BOOLEAN, Cluster(m, embedded)
        PROVE  ClusterInv'
    <2>1. PICK s \in Clustered(task[m].state, m, embedded) :
              task' = [task EXCEPT ![m].pc = "find", ![m].state = s]
      BY <1>2 DEF Cluster
    <2> DEFINE row == [task[m] EXCEPT !.pc = "find", !.state = s]
               old == task[m].state
    <2>2. task[m].pc \in Early /\ old.of[m] = Nowhere /\ SaneState(old)
      BY <1>2, <1>t DEF Cluster, Early, UnplacedNowhere
    <2>3. SaneState(s) /\ s.of[m] \in ClusterNumbers /\ \A e \in Memcells \ {m} : s.of[e] = old.of[e]
      <3> HIDE DEF old
      <3>1. \/ s = InNew(old, m) \/ s = Counted(InNew(old, m), old.next + 1)
            \/ \E c \in ClusterNumbers : old.count[c] > 0 /\ s = InExisting(old, m, c)
        BY <2>1 DEF Clustered, old
      <3> QED BY <2>2, <3>1, NewSane, JoinSane
    <2>4. s \in SaneStates
      BY <2>3 DEF SaneStates, SaneState
    <2>5. row \in TaskRows /\ row.pc = "find" /\ row.state = s
      BY <1>t, <2>4 DEF TaskRows, TaskPlaces
    <2>6. \A e \in Memcells \ {m} : task[e].pc \in Early => s.of[e] = Nowhere
      BY <2>3 DEF UnplacedNowhere
    <2>7. /\ task' = [task EXCEPT ![m] = row]
          /\ documents' = documents /\ profiles' = profiles /\ misses' \in {misses, misses + 1}
      BY <1>2, <1>m, <2>1 DEF Cluster
    <2>8. row.pc \notin Early /\ row.pc # "upsert"
      BY <2>5 DEF Early
    <2> HIDE DEF row, old
    <2> QED BY <2>3, <2>5, <2>6, <2>7, <2>8, TaskMoves
  <1>3. ASSUME NEW m \in Memcells, NEW ok \in BOOLEAN, FindDocument(m, ok) PROVE ClusterInv'
    <2>1. PICK i \in FindOne(documents) :
              task' = [task EXCEPT ![m].pc = IF ok THEN "save" ELSE "profile", ![m].found = i]
      BY <1>3 DEF FindDocument
    <2> DEFINE pc == IF ok THEN "save" ELSE "profile"
               row == [task[m] EXCEPT !.pc = pc, !.found = i]
    <2>2. i \in Nat /\ task[m].pc \in Placed
      BY <1>3, <2>1 DEF FindDocument, FindOne, Placed, ClusterTyped
    <2>3. row \in TaskRows /\ row.pc = pc /\ row.state = task[m].state
      BY <1>t, <2>2 DEF TaskRows, TaskPlaces
    <2>4. row.pc \notin Early /\ row.pc # "upsert" /\ row.state.of[m] \in ClusterNumbers
      BY <2>2, <2>3 DEF Early, PlacedSomewhere
    <2>5. \A e \in Memcells \ {m} : task[e].pc \in Early => row.state.of[e] = Nowhere
      BY <2>3 DEF UnplacedNowhere
    <2>6. /\ task' = [task EXCEPT ![m] = row]
          /\ documents' = documents /\ profiles' = profiles /\ misses' \in {misses, misses + 1}
      BY <1>3, <1>m, <2>1 DEF FindDocument
    <2> HIDE DEF row, pc
    <2> QED BY <2>3, <2>4, <2>5, <2>6, TaskMoves
  <1>4. ASSUME NEW m \in Memcells, NEW ok \in BOOLEAN, SaveDocument(m, ok) PROVE ClusterInv'
    <2>1. CASE ~ok
      <3>1. TaskAt(m, "profile") /\ documents' = documents /\ profiles' = profiles
        BY <1>4, <2>1 DEF SaveDocument
      <3> QED BY <1>4, <1>m, <3>1, <1>p DEF SaveDocument, Placed
    <2>2. CASE ok
      <3> DEFINE s == task[m].state
                 row == [task[m] EXCEPT !.pc = "profile"]
      <3>1. /\ documents' = Upserted(documents, task[m].found, s)
            /\ task' = [task EXCEPT ![m] = row] /\ profiles' = profiles
            /\ misses' \in Nat /\ (misses > 0 => misses' > 0)
        BY <1>4, <1>m, <2>2 DEF SaveDocument, TaskAt
      <3>2. row \in TaskRows /\ row.pc = "profile" /\ row.state = s
        BY <1>t DEF TaskRows, TaskPlaces
      <3>3. /\ documents' \in Seq(SaneStates)
            /\ \A j \in DOMAIN documents' :
                  documents'[j] = s \/ (j \in DOMAIN documents /\ documents'[j] = documents[j])
        <4>1. task[m].found \in Nat /\ s \in SaneStates /\ documents \in Seq(SaneStates)
          BY <1>t DEF TaskRows, ClusterTyped
        <4> HIDE DEF s
        <4> QED BY <3>1, <4>1, UpsertedRows
      <3>4. task[m].pc \in Placed /\ task[m].pc \notin Early
        BY <1>4 DEF SaveDocument, Placed, Early
      <3> HIDE DEF row
      <3>5. task'[m] = row /\ \A e \in Memcells \ {m} : task'[e] = task[e]
        BY <3>1 DEF ClusterTyped
      <3>6. ClusterTyped'
        BY <3>1, <3>2, <3>3 DEF ClusterTyped
      <3>7. UnplacedNowhere'
        <4>1. SUFFICES ASSUME NEW e \in Memcells, task'[e].pc \in Early
                       PROVE  /\ \A i \in DOMAIN documents' : documents'[i].of[e] = Nowhere
                              /\ \A d \in Memcells : task'[d].state.of[e] = Nowhere
          BY DEF UnplacedNowhere
        <4>2. e # m /\ task[e].pc \in Early
          BY <3>2, <3>5, <4>1 DEF Early
        <4>3. /\ \A i \in DOMAIN documents : documents[i].of[e] = Nowhere
              /\ \A d \in Memcells : task[d].state.of[e] = Nowhere
          BY <4>2 DEF UnplacedNowhere
        <4> QED BY <3>2, <3>3, <3>5, <4>3
      <3>8. PlacedSomewhere'
        BY <3>2, <3>4, <3>5 DEF PlacedSomewhere
      <3>9. MaterialCounted'
        BY <3>1, <3>2, <3>5 DEF MaterialCounted
      <3>10. ProfilesCounted'
        BY <3>1 DEF ProfilesCounted
      <3> QED BY <3>6, <3>7, <3>8, <3>9, <3>10
    <2> QED BY <2>1, <2>2
  <1>5. ASSUME NEW m \in Memcells, NEW material \in {MaterialOf(m), {m}, {}},
               ExtractProfile(m, material)
        PROVE  ClusterInv'
    <2>1. PICK i \in FindOne(profiles) :
              task' = [task EXCEPT ![m].pc = IF material = {} THEN "ended" ELSE "upsert",
                                   ![m].found = i, ![m].material = material]
      BY <1>5 DEF ExtractProfile
    <2> DEFINE s == task[m].state
               pc == IF material = {} THEN "ended" ELSE "upsert"
               row == [task[m] EXCEPT !.pc = pc, !.found = i, !.material = material]
    <2>2. i \in Nat /\ task[m].pc \in Placed /\ material \in SUBSET Memcells
      <3>1. i \in Nat
        BY FoundRow DEF ClusterTyped
      <3>2. material \in SUBSET Memcells
        BY DEF MaterialOf
      <3> QED BY <1>5, <3>1, <3>2 DEF ExtractProfile, Placed
    <2>3. row \in TaskRows /\ row.pc = pc /\ row.state = s /\ row.material = material
      <3>1. pc \in TaskPlaces /\ task[m] \in TaskRows
        BY <1>t DEF TaskPlaces
      <3> HIDE DEF pc
      <3> QED BY <2>2, <3>1 DEF TaskRows
    <2>4. s.of[m] \in ClusterNumbers
      BY <2>2 DEF PlacedSomewhere
    <2>5. s.count[s.of[m]] = Cardinality(material) \/ misses' > 0
      <3>1. CASE material = MaterialOf(m)
        <4>1. material = Members(s, s.of[m])
          BY <3>1 DEF MaterialOf, ClusterOf, Members
        <4>2. Agrees(s, s.of[m])
          BY <1>t, <2>4 DEF SaneState
        <4>3. s.count[s.of[m]] >= MinMemcells
          BY <1>5 DEF ExtractProfile, CountOf, ClusterOf
        <4> HIDE DEF s
        <4> QED BY <4>1, <4>2, <4>3, ClusteringAssumption DEF Agrees
      <3>2. CASE material # MaterialOf(m)
        BY <1>5, <1>m, <3>2 DEF ExtractProfile
      <3> QED BY <3>1, <3>2
    <2>6. \A e \in Memcells \ {m} : task[e].pc \in Early => row.state.of[e] = Nowhere
      BY <2>3 DEF UnplacedNowhere
    <2>7. /\ task' = [task EXCEPT ![m] = row]
          /\ documents' = documents /\ profiles' = profiles /\ misses' \in {misses, misses + 1}
      BY <1>5, <1>m, <2>1 DEF ExtractProfile
    <2>8. row.pc \notin Early
      BY <2>3 DEF Early
    <2> HIDE DEF row, pc, s
    <2> QED BY <2>3, <2>4, <2>5, <2>6, <2>7, <2>8, TaskMoves
  <1>6. ASSUME NEW m \in Memcells, SmallCluster(m) PROVE ClusterInv'
    BY <1>6, <1>p DEF SmallCluster, Placed, ClusterTyped
  <1>7. ASSUME NEW m \in Memcells, NEW ok \in BOOLEAN, SaveProfile(m, ok) PROVE ClusterInv'
    <2>1. CASE ~ok
      <3>1. TaskAt(m, "ended") /\ documents' = documents /\ profiles' = profiles
        BY <1>7, <2>1 DEF SaveProfile
      <3> QED BY <1>7, <1>m, <3>1, <1>p DEF SaveProfile, Placed
    <2>2. CASE ok
      <3> DEFINE saved == [material |-> task[m].material, count |-> CountOf(m)]
      <3>1. /\ profiles' = Upserted(profiles, task[m].found, saved)
            /\ TaskAt(m, "ended") /\ documents' = documents
            /\ misses' \in {misses, misses + 1} /\ misses' \in Nat /\ (misses > 0 => misses' > 0)
        BY <1>7, <1>m, <2>2 DEF SaveProfile
      <3>2. task[m].pc \in Placed /\ task[m].pc = "upsert"
        BY <1>7 DEF SaveProfile, Placed
      <3>3. saved \in ProfileRows /\ (saved.count = Cardinality(saved.material) \/ misses > 0)
        <4>1. task[m].state.of[m] \in ClusterNumbers /\ task[m].state \in StateRows
              /\ task[m].material \in SUBSET Memcells
          BY <1>t, <3>2 DEF PlacedSomewhere, SaneState, TaskRows
        <4>2. CountOf(m) \in Nat
          BY <4>1 DEF CountOf, ClusterOf, StateRows
        <4>3. CountOf(m) = Cardinality(task[m].material) \/ misses > 0
          BY <3>2 DEF MaterialCounted, CountOf, ClusterOf
        <4> QED BY <4>1, <4>2, <4>3 DEF ProfileRows
      <3>4. /\ profiles' \in Seq(ProfileRows)
            /\ \A j \in DOMAIN profiles' :
                  profiles'[j] = saved \/ (j \in DOMAIN profiles /\ profiles'[j] = profiles[j])
        <4>1. task[m].found \in Nat /\ profiles \in Seq(ProfileRows)
          BY <1>t DEF TaskRows, ClusterTyped
        <4> DEFINE found == task[m].found
        <4> HIDE DEF saved, found
        <4>2. found \in Nat /\ saved \in ProfileRows /\ profiles' = Upserted(profiles, found, saved)
          BY <3>1, <3>3, <4>1 DEF found
        <4>3. profiles' \in Seq(ProfileRows)
          BY <4>1, <4>2, UpsertedRows
        <4> QED BY <4>1, <4>2, <4>3, UpsertedRows
      <3> HIDE DEF saved
      <3>5. ProfilesCounted'
        BY <3>1, <3>3, <3>4 DEF ProfilesCounted
      <3>6. /\ task' = [task EXCEPT ![m].pc = "ended"]
            /\ task'[m] = [task[m] EXCEPT !.pc = "ended"]
            /\ \A e \in Memcells \ {m} : task'[e] = task[e]
        BY <3>1 DEF TaskAt, ClusterTyped
      <3>7. task'[m] \in TaskRows /\ task'[m].pc = "ended" /\ task'[m].state = task[m].state
        BY <1>t, <3>6 DEF TaskRows, TaskPlaces
      <3>8. ClusterTyped'
        <4>1. task' \in [Memcells -> TaskRows]
          BY <1>t, <3>6, <3>7 DEF ClusterTyped
        <4> QED BY <3>1, <3>4, <4>1 DEF ClusterTyped
      <3>9. UnplacedNowhere'
        <4>1. SUFFICES ASSUME NEW e \in Memcells, task'[e].pc \in Early
                       PROVE  /\ \A i \in DOMAIN documents' : documents'[i].of[e] = Nowhere
                              /\ \A d \in Memcells : task'[d].state.of[e] = Nowhere
          BY DEF UnplacedNowhere
        <4>2. e # m /\ task[e].pc \in Early
          BY <3>6, <3>7, <4>1 DEF Early
        <4> QED BY <3>1, <3>6, <3>7, <4>2 DEF UnplacedNowhere
      <3>10. PlacedSomewhere' /\ MaterialCounted'
        BY <3>1, <3>6, <3>7 DEF PlacedSomewhere, MaterialCounted, Placed
      <3> QED BY <3>5, <3>8, <3>9, <3>10
    <2> QED BY <2>1, <2>2
  <1>8. ASSUME TasksLost PROVE ClusterInv'
    <2>1. /\ documents' = documents /\ profiles' = profiles
          /\ misses' \in Nat /\ (misses > 0 => misses' > 0)
      <3>1. Answers(FALSE) /\ documents' = documents /\ profiles' = profiles
        BY <1>8 DEF TasksLost
      <3> QED BY <1>m, <3>1
    <2>2. ASSUME NEW e \in Memcells
          PROVE  /\ task'[e] \in TaskRows /\ task'[e].state = task[e].state
                 /\ task'[e] = task[e] \/ task'[e].pc = "ended"
      BY <1>8, <1>t, <2>2 DEF TasksLost, TaskRows, TaskPlaces
    <2>3. ClusterTyped'
      <3>1. task' \in [Memcells -> TaskRows]
        BY <1>8, <2>2 DEF TasksLost
      <3> QED BY <2>1, <3>1 DEF ClusterTyped
    <2>4. UnplacedNowhere'
      BY <2>1, <2>2 DEF UnplacedNowhere, Early
    <2>5. PlacedSomewhere' /\ MaterialCounted'
      BY <2>1, <2>2 DEF PlacedSomewhere, MaterialCounted, Placed
    <2>6. ProfilesCounted'
      BY <2>1 DEF ProfilesCounted
    <2> QED BY <2>3, <2>4, <2>5, <2>6
  <1>9. ASSUME UNCHANGED clusteringVars PROVE ClusterInv'
    BY <1>9 DEF clusteringVars, ClusterTyped, UnplacedNowhere, PlacedSomewhere, MaterialCounted,
                ProfilesCounted
  <1> QED BY <1>1, <1>2, <1>3, <1>4, <1>5, <1>6, <1>7, <1>8, <1>9 DEF ClusteringNext

LEMMA ClusterStays == ClusteringSpec => []ClusterInv
  <1>1. ClusteringInit => ClusterInv
    <2>1. SUFFICES ASSUME ClusteringInit PROVE ClusterInv
      OBVIOUS
    <2>2. Empty \in SaneStates
      BY EmptySane DEF SaneStates, SaneState
    <2>3. \A m \in Memcells : task[m].pc = "idle" /\ task[m].state = Empty
      BY <2>1 DEF ClusteringInit
    <2>4. ClusterTyped
      BY <2>1, <2>2 DEF ClusteringInit, ClusterTyped, TaskRows, TaskPlaces
    <2>5. UnplacedNowhere
      BY <2>1, <2>3 DEF ClusteringInit, UnplacedNowhere, Empty
    <2>6. PlacedSomewhere /\ MaterialCounted /\ ProfilesCounted
      BY <2>1, <2>3 DEF ClusteringInit, PlacedSomewhere, MaterialCounted, ProfilesCounted, Placed
    <2> QED BY <2>4, <2>5, <2>6 DEF ClusterInv
  <1> QED BY <1>1, ClusterStep, PTL DEF ClusteringSpec

\* Whatever tasks write over each other, every state of the clusters, in a row
\* or in the hands of a task, counts the memcells that are in a cluster.
THEOREM ClustersAgree == ClusteringSpec => []CountsAgree
  <1>1. ClusterInv => CountsAgree
    <2>1. SUFFICES ASSUME ClusterInv, NEW s \in States, NEW c \in ClusterNumbers
                   PROVE  \/ s.count[c] = Cardinality({m \in Memcells : s.of[m] = c})
                          \/ /\ s.count[c] = 0
                             /\ Cardinality({m \in Memcells : s.of[m] = c}) = 1
      BY DEF CountsAgree
    <2>2. SaneState(s)
      BY <2>1 DEF States, ClusterInv, ClusterTyped, TaskRows, SaneStates
    <2> QED BY <2>2 DEF SaneState, Agrees, Members
  <1> QED BY <1>1, ClusterStays, PTL

\* A saved profile counts the memcells it was made of, unless a call failed.
THEOREM ProfilesCountTheirMaterial == ClusteringSpec => []ProfilesCounted
  BY ClusterStays, PTL DEF ClusterInv
=============================================================================
