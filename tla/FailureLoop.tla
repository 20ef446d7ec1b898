----------------------------- MODULE FailureLoop -----------------------------
(***************************************************************************)
(* Failures reported against nodes and edges of the knowledge graph, and   *)
(* the recompute that applies one: it lowers the targets, marks a gap and  *)
(* a branch at every anchor, records that the failure is attached, scores  *)
(* the routes and writes a version.                                        *)
(*                                                                         *)
(* A recompute holds the event loop from its start to its end, but writes  *)
(* row by row with no transaction: each write is an action, a raise or the *)
(* death of the process may follow any of them, and the graph moves on     *)
(* only between recomputes.  A failure may be recomputed again and again.  *)
(* Routes and scores are abstracted to the failures they may raise.        *)
(***************************************************************************)
EXTENDS KnowledgeGraph

CONSTANTS Failures,  \* failure_id
          Mortal,    \* whether the process may die during a recompute
          MaxRuns    \* bound on recomputes

ASSUME FailureAssumption ==
    /\ MaxRuns \in Nat /\ Mortal \in BOOLEAN
    /\ [failure : Failures, anchor : 1..MaxNodes, kind : {"gap", "branch"}] \subseteq OtherRefs
    /\ OtherRefs \cap ManualRefs = {}

VARIABLES failure,   \* attached_targets and whether the severity is high or critical
          attached,  \* failures with a failure_attached event
          job,       \* where the recompute is
          runs,      \* recomputes so far, for the bound
          penalties  \* history: how often each target edge lost strength

failureRows == <<failure, attached>>
failureVars == <<failure, attached, job, runs, penalties>>
allVars == <<vars, failureVars>>

NoEdge == Edge(0, 0, "none")
NodeTarget(i) == [node |-> i, edge |-> NoEdge]
EdgeTarget(e) == [node |-> 0, edge |-> e]
IsNode(t) == t.edge = NoEdge
Targets == {NodeTarget(i) : i \in DOMAIN nodes} \cup {EdgeTarget(e) : e \in DOMAIN edges}

Idle == [step |-> "idle", failure |-> CHOOSE f \in Failures : TRUE, at |-> 0]
At(step) == job' = [job EXCEPT !.step = step]

FailureInit ==
    /\ Init
    /\ failure = [f \in Failures |-> [targets |-> <<>>, severe |-> FALSE]]
    /\ attached = {} /\ job = Idle /\ runs = 0
    /\ penalties = [f \in Failures |-> <<>>]

-----------------------------------------------------------------------------
(* Reporting *)

\* The targets exist and differ; their status is not asked.
Report(f, targets, severe) ==
    /\ job = Idle
    /\ failure[f].targets = <<>>
    /\ targets # <<>> /\ \A i, j \in DOMAIN targets : i # j => targets[i] # targets[j]
    /\ failure' = [failure EXCEPT ![f] = [targets |-> targets, severe |-> severe]]
    /\ penalties' = [penalties EXCEPT ![f] = [i \in DOMAIN targets |-> 0]]
    /\ UNCHANGED <<vars, attached, job, runs>>

-----------------------------------------------------------------------------
(* apply_failure *)

Ends(t) == IF IsNode(t) THEN {t.node} ELSE {t.edge.from, t.edge.to}
SourceEnd(t) == IF IsNode(t) THEN {t.node} ELSE {t.edge.from}
AnchorsBySource(f) == UNION {SourceEnd(t) : t \in Range(failure[f].targets)}
Anchors(f) == UNION {Ends(t) : t \in Range(failure[f].targets)}

MarkerRef(f, a, kind) == [failure |-> f, anchor |-> a, kind |-> kind]
\* Rows found by object reference, whatever their status.
ActiveMarkers(f, a, kind) == ActiveNodesOf(nodes, MarkerRef(f, a, kind))
Markers(f, a, kind) == {i \in DOMAIN nodes : nodes[i].ref = MarkerRef(f, a, kind)}
Linked(f, a, kind) == \E i \in Markers(f, a, kind) : Edge(a, i, kind) \in DOMAIN edges
Unmarked(f) == {a \in Anchors(f) : \E kind \in {"gap", "branch"} : ~Linked(f, a, kind)}

FromTheFirstTarget(f) == "targets"
\* A failure whose event is found is not applied again.
FirstStep(f) == IF f \in attached THEN "score" ELSE "targets"

Start(f) ==
    /\ job = Idle
    /\ failure[f].targets # <<>>
    /\ runs < MaxRuns /\ versions < MaxVersions
    /\ Len(nodes) + 2 * Cardinality(Unmarked(f)) <= MaxNodes
    /\ job' = [step |-> FirstStep(f), failure |-> f, at |-> 1]
    /\ runs' = runs + 1
    /\ touched' = TRUE
    /\ UNCHANGED <<candidate, objects, graph, versions, workspace, edits, failureRows, penalties>>

Terminal(status) == status \in {"archived", "superseded"}
TargetStatus(t) == IF IsNode(t) THEN nodes[t.node].status ELSE edges[t.edge]

NodeImpact(severe) == IF severe THEN "failed" ELSE "weakened"
EdgeImpact(severe) == IF severe THEN "invalidated" ELSE "weakened"
\* A failed node is not lifted to weakened.
NodeAfter(status, severe) ==
    IF status = "failed" THEN status ELSE NodeImpact(severe)

Hit(f, t) ==
    LET severe == failure[f].severe
    IN  IF IsNode(t)
        THEN /\ nodes' = [nodes EXCEPT ![t.node].status = NodeAfter(@, severe)]
             /\ UNCHANGED <<edges, penalties>>
        ELSE /\ edges' = [edges EXCEPT ![t.edge] = EdgeImpact(severe)]
             /\ penalties' = [penalties EXCEPT ![f][job.at] = @ + 1]
             /\ UNCHANGED nodes

IsLast(at, f) == at = Len(failure[f].targets)

\* A terminal target raises; what the targets before it got stays.
ApplyTarget ==
    /\ job.step = "targets"
    /\ LET t == failure[job.failure].targets[job.at]
       IN  /\ ~Terminal(TargetStatus(t))
           /\ Hit(job.failure, t)
    /\ job' = IF IsLast(job.at, job.failure) THEN [job EXCEPT !.step = "markers"]
              ELSE [job EXCEPT !.at = @ + 1]
    /\ UNCHANGED <<candidate, objects, versions, workspace, edits, touched, failureRows, runs>>

TargetRaises ==
    /\ job.step = "targets"
    /\ Terminal(TargetStatus(failure[job.failure].targets[job.at]))
    /\ job' = Idle
    /\ UNCHANGED <<vars, failureRows, runs, penalties>>

MarkersLeft == job.step = "markers" /\ Unmarked(job.failure) # {}

\* The anchors one after the other, in the order of their ids, which are
\* random: here the order of their rows.  At each the gap node, the branch
\* node, the gap edge and the branch edge, those that are not there yet.
MarkNode(kind) ==
    /\ MarkersLeft /\ Len(nodes) < MaxNodes
    /\ LET a == Least(Unmarked(job.failure))
       IN  /\ Markers(job.failure, a, kind) = {}
           /\ kind = "branch" => Markers(job.failure, a, "gap") # {}
           /\ nodes' = Append(nodes, NewNode(MarkerRef(job.failure, a, kind)))
    /\ UNCHANGED <<candidate, objects, edges, versions, workspace, edits, touched, failureVars>>

MarkEdge(kind) ==
    /\ MarkersLeft
    /\ LET a == Least(Unmarked(job.failure))
       IN  /\ \A k \in {"gap", "branch"} : Markers(job.failure, a, k) # {}
           /\ ~Linked(job.failure, a, kind)
           /\ kind = "branch" => Linked(job.failure, a, "gap")
           /\ edges' = WithEdges(edges, {Edge(a, Least(Markers(job.failure, a, kind)), kind)})
    /\ UNCHANGED <<candidate, objects, nodes, versions, workspace, edits, touched, failureVars>>

Attach ==
    /\ job.step = "markers" /\ Unmarked(job.failure) = {}
    /\ attached' = attached \cup {job.failure}
    /\ At("score")
    /\ UNCHANGED <<vars, failure, runs, penalties>>

-----------------------------------------------------------------------------
(* recompute_from_failure, from the scores on *)

ScoreRoutes ==
    /\ job.step = "score"
    /\ At("version") \/ job' = Idle
    /\ UNCHANGED <<vars, failureRows, runs, penalties>>

WriteVersion ==
    /\ job.step = "version"
    /\ versions' = versions + 1
    /\ At("workspace")
    /\ UNCHANGED <<candidate, objects, graph, workspace, edits, touched, failureRows, runs, penalties>>

WriteWorkspace ==
    /\ job.step = "workspace"
    /\ workspace' = AllRows(versions, nodes, edges)
    /\ job' = Idle
    /\ UNCHANGED <<candidate, objects, graph, versions, edits, touched, failureRows, runs, penalties>>

\* The process dies; the next one finds the rows as they are.
Die ==
    /\ Mortal /\ job # Idle
    /\ job' = Idle
    /\ UNCHANGED <<vars, failureRows, runs, penalties>>

FailureNext ==
    \/ job = Idle /\ GraphNext /\ UNCHANGED failureVars
    \/ \E f \in Failures, severe \in BOOLEAN, t, u \in Targets :
          Report(f, <<t>>, severe) \/ Report(f, <<t, u>>, severe)
    \/ \E f \in Failures : Start(f)
    \/ ApplyTarget \/ TargetRaises
    \/ \E kind \in {"gap", "branch"} : MarkNode(kind) \/ MarkEdge(kind)
    \/ Attach \/ ScoreRoutes \/ WriteVersion \/ WriteWorkspace \/ Die

FailureSpec == FailureInit /\ [][FailureNext]_allVars

-----------------------------------------------------------------------------
(* Properties *)

\* Types, and a recompute is at one of the targets of a reported failure.
FailureTypeOK ==
    /\ TypeOK
    /\ attached \subseteq Failures /\ runs \in 0..MaxRuns
    /\ job.step \in {"idle", "targets", "markers", "score", "version", "workspace"}
    /\ job.step = "targets" => job.at \in DOMAIN failure[job.failure].targets
    /\ \A f \in Failures : /\ DOMAIN penalties[f] = DOMAIN failure[f].targets
                           /\ \A i \in DOMAIN penalties[f] : penalties[f][i] \in Nat

\* However often a failure is recomputed, cut short, rebuilt over or its
\* markers archived, an anchor gets one gap node and one branch node of it.
MarkersOnce ==
    \A i, j \in DOMAIN nodes : nodes[i].ref = nodes[j].ref /\ nodes[i].ref \in OtherRefs => i = j

\* An attached failure has hit every target and marked both ends of every
\* target edge and every target node, whatever raised or died before.
AttachedComplete ==
    \A f \in attached : \A i \in DOMAIN failure[f].targets :
        LET t == failure[f].targets[i]
        IN  /\ IsNode(t) \/ penalties[f][i] > 0
            /\ \A a \in Ends(t), kind \in {"gap", "branch"} :
                  \E m \in DOMAIN nodes : nodes[m].ref = MarkerRef(f, a, kind)
                                          /\ Edge(a, m, kind) \in DOMAIN edges

\* A recompute of an attached failure leaves the graph alone.
AttachedOnce ==
    [][job # Idle /\ job.failure \in attached => UNCHANGED <<graph, penalties>>]_allVars

\* What test_slice8_failure_impact_service_is_idempotent_for_same_failure
\* says: applying a failure again takes no strength from an edge again.
PenaltyOnce == \A f \in Failures : \A i \in DOMAIN penalties[f] : penalties[f][i] <= 1
=============================================================================
