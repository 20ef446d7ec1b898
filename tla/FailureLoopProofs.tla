-------------------------- MODULE FailureLoopProofs --------------------------
(***************************************************************************)
(* Theorems about FailureLoop: whatever raises or dies between the writes  *)
(* of a recompute, the graph keeps its invariant, an anchor gets one gap   *)
(* and one branch of a failure, and an attached failure was applied whole. *)
(***************************************************************************)
EXTENDS FailureLoop, KnowledgeGraphProofs

Steps == {"idle", "targets", "markers", "score", "version", "workspace"}

TargetsOf(f) == failure[f].targets
There(t) == IF IsNode(t) THEN t.node \in DOMAIN nodes ELSE t.edge \in DOMAIN edges
TargetHit(f, i) == IsNode(TargetsOf(f)[i]) \/ penalties[f][i] > 0
Marked(f, i) ==
    \A a \in Ends(TargetsOf(f)[i]), kind \in {"gap", "branch"} :
        \E m \in DOMAIN nodes : /\ nodes[m].ref = MarkerRef(f, a, kind)
                                /\ Edge(a, m, kind) \in DOMAIN edges

\* Every failure is reported against rows, and each target has its counter.
FailuresTyped ==
    /\ DOMAIN failure = Failures /\ DOMAIN penalties = Failures /\ attached \subseteq Failures
    /\ \A f \in Failures :
          /\ failure[f].severe \in BOOLEAN
          /\ Len(TargetsOf(f)) \in Nat /\ DOMAIN TargetsOf(f) = 1..Len(TargetsOf(f))
          /\ penalties[f] \in [DOMAIN TargetsOf(f) -> Nat]
          /\ \A i \in DOMAIN TargetsOf(f) : There(TargetsOf(f)[i])

JobTyped ==
    /\ job \in [step : Steps, failure : Failures \cup {Idle.failure}, at : Nat]
    /\ job.step = "idle" => job = Idle
    /\ job.step # "idle" => job.failure \in Failures /\ TargetsOf(job.failure) # <<>> /\ touched

\* How far a recompute is: the targets before the one it is at were hit, and
\* all were before it marks; the failure is not attached until then.
Progress ==
    /\ job.step \in {"targets", "markers"} => job.failure \notin attached
    /\ job.step = "targets" =>
          /\ job.at \in DOMAIN TargetsOf(job.failure)
          /\ \A i \in 1..(job.at - 1) : TargetHit(job.failure, i)
    /\ job.step = "markers" => \A i \in DOMAIN TargetsOf(job.failure) : TargetHit(job.failure, i)

AttachedWhole ==
    \A f \in attached :
        TargetsOf(f) # <<>> /\ \A i \in DOMAIN TargetsOf(f) : TargetHit(f, i) /\ Marked(f, i)

FailInv ==
    /\ GraphInv /\ Len(nodes) <= MaxNodes
    /\ FailuresTyped /\ JobTyped /\ Progress /\ AttachedWhole /\ MarkersOnce

-----------------------------------------------------------------------------
(* Rows that grow *)

\* What is asked of rows and edges still holds when there are more of them.
RowsGrow ==
    /\ \A i \in DOMAIN nodes : i \in DOMAIN nodes' /\ nodes'[i].ref = nodes[i].ref
    /\ DOMAIN edges \subseteq DOMAIN edges'

LEMMA GrownRows ==
    ASSUME FailuresTyped, AttachedWhole, RowsGrow, UNCHANGED <<failure, attached, penalties>>
    PROVE  FailuresTyped' /\ AttachedWhole'
  <1>1. \A f \in Failures : /\ TargetsOf(f)' = TargetsOf(f)
                            /\ \A i \in DOMAIN TargetsOf(f) : TargetHit(f, i) => TargetHit(f, i)'
    BY DEF TargetsOf, TargetHit
  <1>2. \A t : There(t) => There(t)'
    BY DEF There, RowsGrow
  <1>3. FailuresTyped'
    BY <1>1, <1>2 DEF FailuresTyped, TargetsOf
  <1>4. ASSUME NEW f \in attached, NEW i \in DOMAIN TargetsOf(f), Marked(f, i) PROVE Marked(f, i)'
    BY <1>4 DEF Marked, RowsGrow, TargetsOf
  <1>5. AttachedWhole'
    BY <1>1, <1>4 DEF AttachedWhole, FailuresTyped
  <1> QED BY <1>3, <1>5

\* A write of a recompute leaves the graph's invariant, since the graph counts
\* as touched; its rows are of no candidate.
LEMMA GraphKept ==
    ASSUME GraphInv, UNCHANGED <<candidate, objects>>, nodes' \in Seq(Row), EndsExist',
           \A i \in DOMAIN nodes' : \/ i \in DOMAIN nodes /\ nodes'[i].ref = nodes[i].ref
                                    \/ nodes'[i].ref \notin Candidates,
           touched' \/ UNCHANGED <<nodes, edges, touched>>
    PROVE  GraphInv'
  <1>1. RowsTyped' /\ ConfirmedOnce'
    BY DEF GraphInv, RowsTyped, ConfirmedOnce, Confirmed
  <1>2. EdgesJoinActiveNodes'
    BY DEF GraphInv, EdgesJoinActiveNodes, ActiveEdges, ActiveNodes
  <1>3. RefsConfirmed'
    BY DEF GraphInv, RefsConfirmed, Confirmed
  <1>4. RowsMatch' /\ RelationsDrawn'
    BY DEF GraphInv, RowsMatch, RowPerObject, RelationsDrawn, ActiveEdges, ActiveNodesOf,
           ActiveNodes, Rebuildable, ArchivedRefs, Confirmed
  <1> QED BY <1>1, <1>2, <1>3, <1>4 DEF GraphInv

LEMMA NothingWritten ==
    ASSUME FailInv, UNCHANGED <<candidate, objects, nodes, edges, failure, attached, penalties>>,
           touched' = touched \/ touched', JobTyped', Progress'
    PROVE  FailInv'
  <1>1. GraphInv'
    BY GraphKept DEF FailInv, GraphInv, RowsTyped, EndsExist
  <1>2. FailuresTyped' /\ AttachedWhole'
    BY GrownRows DEF FailInv, RowsGrow
  <1>3. MarkersOnce'
    BY DEF FailInv, MarkersOnce
  <1> QED BY <1>1, <1>2, <1>3 DEF FailInv

-----------------------------------------------------------------------------
(* Steps *)

LEMMA FailGraphStep ==
    ASSUME FailInv, job = Idle, [GraphNext]_vars, UNCHANGED failureVars PROVE FailInv'
  <1>1. GraphInv'
    BY GraphStep DEF FailInv
  <1>2. /\ Len(nodes') <= MaxNodes
        /\ \A i \in DOMAIN nodes' \ DOMAIN nodes : nodes'[i].ref \in Candidates \cup ManualRefs
    BY NewRows DEF FailInv, GraphInv
  <1>3. RowsGrow
    <2>1. \A i \in DOMAIN nodes : i \in DOMAIN nodes' /\ nodes'[i].ref = nodes[i].ref
      BY NodesStep DEF FailInv, GraphInv
    <2>2. KeptEdges
      BY EdgesStep DEF FailInv, GraphInv
    <2> QED BY <2>1, <2>2 DEF KeptEdges, RowsGrow
  <1>4. FailuresTyped' /\ AttachedWhole'
    BY <1>3, GrownRows DEF FailInv, failureVars, failureRows
  <1>5. JobTyped' /\ Progress'
    BY DEF FailInv, JobTyped, Progress, failureVars, failureRows, Idle
  <1>6. MarkersOnce'
    <2>1. OtherRefs \cap (Candidates \cup ManualRefs) = {}
      BY GraphAssumption, FailureAssumption DEF GraphAssumption, FailureAssumption
    <2> QED BY <1>2, <1>3, <2>1 DEF FailInv, MarkersOnce, RowsGrow
  <1> QED BY <1>1, <1>2, <1>4, <1>5, <1>6 DEF FailInv

LEMMA ReportStep ==
    ASSUME FailInv, NEW f \in Failures, NEW severe \in BOOLEAN, NEW t \in Targets, NEW u \in Targets,
           NEW targets \in {<<t>>, <<t, u>>}, Report(f, targets, severe)
    PROVE  FailInv'
  <1>1. /\ Len(targets) \in Nat /\ DOMAIN targets = 1..Len(targets)
        /\ \A i \in DOMAIN targets : targets[i] \in Targets
    OBVIOUS
  <1>2. \A x \in Targets : There(x)
    <2>1. ASSUME NEW e \in DOMAIN edges PROVE e # NoEdge
      <3>1. e.from \in 1..Len(nodes)
        BY DEF FailInv, GraphInv, EndsExist, RowsTyped
      <3> QED BY <3>1 DEF NoEdge, Edge
    <2> QED BY <2>1 DEF Targets, There, NodeTarget, EdgeTarget, IsNode
  <1>3. /\ job = Idle /\ UNCHANGED <<vars, attached, job, runs>> /\ failure[f].targets = <<>>
        /\ failure' = [failure EXCEPT ![f] = [targets |-> targets, severe |-> severe]]
        /\ penalties' = [penalties EXCEPT ![f] = [i \in DOMAIN targets |-> 0]]
    BY DEF Report
  <1>4. f \notin attached
    BY <1>3 DEF FailInv, AttachedWhole, TargetsOf
  <1>5. UNCHANGED <<candidate, objects, nodes, edges, touched>>
    BY <1>3 DEF vars
  <1>6. /\ TargetsOf(f)' = targets /\ penalties'[f] = [i \in DOMAIN targets |-> 0]
        /\ \A g \in Failures \ {f} : TargetsOf(g)' = TargetsOf(g) /\ penalties'[g] = penalties[g]
    BY <1>3 DEF TargetsOf, FailInv, FailuresTyped
  <1>7. FailuresTyped'
    <2>1. /\ DOMAIN failure' = Failures /\ DOMAIN penalties' = Failures
          /\ \A g \in Failures : failure'[g].severe \in BOOLEAN
      BY <1>3 DEF FailInv, FailuresTyped
    <2>2. \A g \in Failures :
            /\ Len(TargetsOf(g)') \in Nat /\ DOMAIN TargetsOf(g)' = 1..Len(TargetsOf(g)')
            /\ penalties'[g] \in [DOMAIN TargetsOf(g)' -> Nat]
      <3>1. TargetsOf(f)' = targets /\ penalties'[f] \in [DOMAIN targets -> Nat]
        BY <1>6
      <3>2. \A g \in Failures \ {f} :
              /\ Len(TargetsOf(g)) \in Nat /\ DOMAIN TargetsOf(g) = 1..Len(TargetsOf(g))
              /\ penalties[g] \in [DOMAIN TargetsOf(g) -> Nat]
        BY DEF FailInv, FailuresTyped
      <3> QED BY <1>1, <1>6, <3>1, <3>2
    <2>3. ASSUME NEW g \in Failures, NEW i \in DOMAIN TargetsOf(g)' PROVE There(TargetsOf(g)[i])'
      <3>1. CASE g = f
        BY <1>1, <1>2, <1>5, <1>6, <2>3, <3>1 DEF There
      <3>2. CASE g # f
        BY <1>5, <1>6, <2>3, <3>2 DEF There, FailInv, FailuresTyped
      <3> QED BY <3>1, <3>2
    <2> QED BY <1>3, <2>1, <2>2, <2>3 DEF FailInv, FailuresTyped
  <1>8. AttachedWhole'
    <2>1. ASSUME NEW g \in attached, NEW i \in DOMAIN TargetsOf(g)
          PROVE  (TargetHit(g, i) => TargetHit(g, i)') /\ (Marked(g, i) => Marked(g, i)')
      BY <1>4, <1>5, <1>6 DEF TargetHit, Marked, FailInv, FailuresTyped
    <2> QED BY <1>3, <1>4, <1>6, <2>1 DEF AttachedWhole, FailInv, FailuresTyped
  <1>9. GraphInv' /\ MarkersOnce' /\ Len(nodes') <= MaxNodes
    BY <1>5, GraphKept DEF FailInv, GraphInv, RowsTyped, EndsExist, MarkersOnce
  <1>10. JobTyped' /\ Progress'
    BY <1>3 DEF FailInv, JobTyped, Progress, Idle
  <1> QED BY <1>7, <1>8, <1>9, <1>10 DEF FailInv

LEMMA StartStep == ASSUME FailInv, NEW f \in Failures, Start(f) PROVE FailInv'
  <1>1. /\ job = Idle /\ TargetsOf(f) # <<>> /\ touched'
        /\ job' = [step |-> FirstStep(f), failure |-> f, at |-> 1]
        /\ UNCHANGED <<candidate, objects, nodes, edges, failure, attached, penalties>>
    BY DEF Start, TargetsOf, graph, failureRows
  <1>2. FirstStep(f) \in {"score", "targets"} /\ (f \in attached => FirstStep(f) = "score")
    BY DEF FirstStep
  <1>3. JobTyped'
    BY <1>1, <1>2 DEF JobTyped, Steps, TargetsOf
  <1>4. Progress'
    <2>1. 1 \in DOMAIN TargetsOf(f)
      BY <1>1 DEF FailInv, FailuresTyped
    <2> QED BY <1>1, <1>2, <2>1 DEF Progress, TargetsOf
  <1> QED BY <1>1, <1>3, <1>4, NothingWritten

LEMMA ApplyStep == ASSUME FailInv, ApplyTarget PROVE FailInv'
  <1>0. PICK f, at, t : f = job.failure /\ at = job.at /\ t = TargetsOf(f)[at]
    OBVIOUS
  <1>1. /\ job.step = "targets" /\ Hit(f, t) /\ touched
        /\ job' = IF IsLast(at, f) THEN [job EXCEPT !.step = "markers"]
                  ELSE [job EXCEPT !.at = @ + 1]
        /\ UNCHANGED <<candidate, objects, touched, failure, attached>>
    BY <1>0 DEF ApplyTarget, TargetsOf, failureRows, FailInv, JobTyped
  <1>2. /\ f \in Failures /\ f \notin attached /\ at \in DOMAIN TargetsOf(f) /\ There(t)
        /\ at \in Nat /\ \A i \in 1..(at - 1) : TargetHit(f, i)
        /\ failure[f].severe \in BOOLEAN /\ penalties[f] \in [DOMAIN TargetsOf(f) -> Nat]
        /\ Len(TargetsOf(f)) \in Nat /\ DOMAIN TargetsOf(f) = 1..Len(TargetsOf(f))
    BY <1>0, <1>1 DEF FailInv, JobTyped, Progress, FailuresTyped
  <1>3. /\ nodes' \in Seq(Row) /\ Len(nodes') = Len(nodes) /\ DOMAIN nodes' = DOMAIN nodes
        /\ DOMAIN edges' = DOMAIN edges
        /\ \A i \in DOMAIN nodes : nodes'[i].ref = nodes[i].ref
    <2>1. CASE IsNode(t)
      <3>1. /\ t.node \in DOMAIN nodes /\ edges' = edges
            /\ nodes' = [nodes EXCEPT ![t.node].status = NodeAfter(@, failure[f].severe)]
        BY <1>1, <1>2, <2>1 DEF There, Hit
      <3>2. NodeAfter(nodes[t.node].status, failure[f].severe) \in NodeStatus
        BY <1>2 DEF NodeAfter, NodeImpact, NodeStatus, Active
      <3>3. nodes \in Seq(Row)
        BY DEF FailInv, GraphInv, RowsTyped
      <3>4. nodes' \in Seq(Row) /\ DOMAIN nodes' = DOMAIN nodes
            /\ \A i \in DOMAIN nodes : nodes'[i].ref = nodes[i].ref
        BY <3>1, <3>2, <3>3, StatusSet
      <3> QED BY <3>1, <3>3, <3>4
    <2>2. CASE ~IsNode(t)
      <3>1. nodes' = nodes /\ DOMAIN edges' = DOMAIN edges
        BY <1>1, <2>2 DEF Hit
      <3> QED BY <3>1 DEF FailInv, GraphInv, RowsTyped
    <2> QED BY <2>1, <2>2
  <1>4. /\ DOMAIN penalties' = Failures /\ penalties'[f] \in [DOMAIN TargetsOf(f) -> Nat]
        /\ \A g \in Failures \ {f} : penalties'[g] = penalties[g]
        /\ \A i \in DOMAIN TargetsOf(f) : penalties'[f][i] >= penalties[f][i]
        /\ IsNode(t) \/ penalties'[f][at] > 0
    <2>1. DOMAIN penalties = Failures
      BY DEF FailInv, FailuresTyped
    <2>2. CASE IsNode(t)
      BY <1>1, <1>2, <2>1, <2>2 DEF Hit
    <2>3. CASE ~IsNode(t)
      <3> DEFINE more == [penalties[f] EXCEPT ![at] = penalties[f][at] + 1]
      <3>1. penalties' = [penalties EXCEPT ![f] = more]
        BY <1>0, <1>1, <2>3 DEF Hit
      <3>2. /\ more \in [DOMAIN TargetsOf(f) -> Nat] /\ more[at] > 0
            /\ \A i \in DOMAIN TargetsOf(f) : more[i] >= penalties[f][i]
        BY <1>2
      <3> HIDE DEF more
      <3> QED BY <1>2, <2>1, <3>1, <3>2
    <2> QED BY <2>2, <2>3
  <1>5. /\ \A g \in Failures : TargetsOf(g)' = TargetsOf(g)
        /\ TargetHit(f, at)' /\ \A i \in DOMAIN TargetsOf(f) : TargetHit(f, i) => TargetHit(f, i)'
    <2>1. \A g \in Failures : TargetsOf(g)' = TargetsOf(g)
      BY <1>1 DEF TargetsOf
    <2> QED BY <1>0, <1>2, <1>4, <2>1 DEF TargetHit
  <1>6. FailuresTyped'
    <2>1. \A g \in Failures : (\A i \in DOMAIN TargetsOf(g) : There(TargetsOf(g)[i]))'
      BY <1>3, <1>5 DEF There, FailInv, FailuresTyped
    <2>2. \A g \in Failures : penalties'[g] \in [DOMAIN TargetsOf(g)' -> Nat]
      BY <1>4, <1>5 DEF FailInv, FailuresTyped
    <2> QED BY <1>1, <1>4, <1>5, <2>1, <2>2 DEF FailInv, FailuresTyped
  <1>7. AttachedWhole'
    <2>1. ASSUME NEW g \in attached, NEW i \in DOMAIN TargetsOf(g)
          PROVE  TargetHit(g, i)' /\ Marked(g, i)'
      <3>1. g # f /\ g \in Failures /\ TargetHit(g, i) /\ Marked(g, i)
        BY <1>2 DEF FailInv, AttachedWhole, FailuresTyped
      <3>2. TargetHit(g, i)'
        BY <1>4, <1>5, <3>1 DEF TargetHit
      <3>3. Marked(g, i)'
        BY <1>3, <1>5, <3>1 DEF Marked
      <3> QED BY <3>2, <3>3
    <2> QED BY <1>1, <1>5, <2>1 DEF AttachedWhole, FailInv, FailuresTyped
  <1>8. GraphInv' /\ MarkersOnce' /\ Len(nodes') <= MaxNodes
    <2>1. EndsExist'
      BY <1>3 DEF EndsExist, FailInv, GraphInv
    <2>2. MarkersOnce'
      BY <1>3 DEF MarkersOnce, FailInv
    <2> QED BY <1>1, <1>3, <2>1, <2>2, GraphKept DEF FailInv
  <1>9. JobTyped' /\ Progress'
    <2>1. job \in [step : Steps, failure : Failures \cup {Idle.failure}, at : Nat]
      BY DEF FailInv, JobTyped
    <2>2. CASE IsLast(at, f)
      <3>1. job' = [step |-> "markers", failure |-> f, at |-> at]
        BY <1>0, <1>1, <2>1, <2>2
      <3>2. \A i \in DOMAIN TargetsOf(f) : TargetHit(f, i)'
        BY <1>2, <1>5, <2>2 DEF IsLast, TargetsOf
      <3>3. JobTyped'
        BY <1>1, <1>2, <1>5, <3>1 DEF JobTyped, Steps
      <3> QED BY <1>1, <1>2, <1>5, <3>1, <3>2, <3>3 DEF Progress
    <2>3. CASE ~IsLast(at, f)
      <3>1. job' = [step |-> "targets", failure |-> f, at |-> at + 1]
        BY <1>0, <1>1, <2>1, <2>3
      <3>2. at + 1 \in DOMAIN TargetsOf(f) /\ \A i \in 1..((at + 1) - 1) : TargetHit(f, i)'
        BY <1>2, <1>5, <2>3 DEF IsLast, TargetsOf
      <3>3. JobTyped'
        BY <1>1, <1>2, <1>5, <3>1 DEF JobTyped, Steps
      <3> QED BY <1>1, <1>2, <1>5, <3>1, <3>2, <3>3 DEF Progress
    <2> QED BY <2>2, <2>3
  <1> QED BY <1>6, <1>7, <1>8, <1>9 DEF FailInv

\* The anchors of a failure are rows.
LEMMA AnchorsThere ==
    ASSUME FailInv, NEW f \in Failures
    PROVE  /\ Anchors(f) \subseteq DOMAIN nodes
           /\ Unmarked(f) # {} => Least(Unmarked(f)) \in Anchors(f)
           /\ \A i \in DOMAIN TargetsOf(f) : Ends(TargetsOf(f)[i]) \subseteq Anchors(f)
  <1>1. \A i \in DOMAIN TargetsOf(f) : Ends(TargetsOf(f)[i]) \subseteq DOMAIN nodes
    BY DEF FailInv, FailuresTyped, There, Ends, GraphInv, EndsExist
  <1>2. Anchors(f) = UNION {Ends(TargetsOf(f)[i]) : i \in DOMAIN TargetsOf(f)}
    BY DEF Anchors, Range, TargetsOf
  <1>3. Anchors(f) \subseteq DOMAIN nodes /\ \A i \in DOMAIN TargetsOf(f) : Ends(TargetsOf(f)[i]) \subseteq Anchors(f)
    BY <1>1, <1>2
  <1>4. Unmarked(f) \subseteq Anchors(f) /\ DOMAIN nodes \subseteq Nat
    BY DEF Unmarked, FailInv, GraphInv, RowsTyped
  <1> HIDE DEF Unmarked
  <1>5. Unmarked(f) # {} => Least(Unmarked(f)) \in Unmarked(f)
    BY <1>3, <1>4, LeastOfNats
  <1> QED BY <1>3, <1>4, <1>5

\* Another row or another edge of the failure being applied.
LEMMA MarkStep ==
    ASSUME FailInv, NEW kind \in {"gap", "branch"}, MarkNode(kind) \/ MarkEdge(kind) PROVE FailInv'
  <1>0. PICK f, a : f = job.failure /\ a = Least(Unmarked(f))
    OBVIOUS
  <1>1. /\ f \in Failures /\ a \in Anchors(f) /\ a \in DOMAIN nodes /\ touched /\ job.step = "markers"
        /\ UNCHANGED <<candidate, objects, touched, failure, attached, job, penalties>>
    <2>1. /\ job.step = "markers" /\ Unmarked(f) # {}
          /\ UNCHANGED <<candidate, objects, touched, failure, attached, job, penalties>>
      BY <1>0 DEF MarkNode, MarkEdge, MarkersLeft, failureVars, failureRows
    <2>2. f \in Failures /\ touched
      BY <1>0, <2>1 DEF FailInv, JobTyped
    <2> QED BY <1>0, <2>1, <2>2, AnchorsThere
  <1>2. nodes \in Seq(Row) /\ Len(nodes) \in Nat /\ MaxNodes \in Nat /\ Len(nodes) <= MaxNodes
    BY GraphAssumption DEF FailInv, GraphInv, RowsTyped
  <1>3. JobTyped' /\ Progress'
    BY <1>1 DEF FailInv, JobTyped, Progress, TargetsOf, TargetHit
  <1>4. CASE MarkNode(kind)
    <2> DEFINE ref == MarkerRef(f, a, kind)
    <2>1. /\ nodes' = Append(nodes, NewNode(ref)) /\ edges' = edges /\ Len(nodes) < MaxNodes
          /\ \A i \in DOMAIN nodes : nodes[i].ref # ref
      BY <1>0, <1>4 DEF MarkNode, Markers
    <2>2. ref \in Refs /\ ref \notin Candidates
      BY <1>1, <1>2, GraphAssumption, FailureAssumption
         DEF GraphAssumption, FailureAssumption, MarkerRef, Refs
    <2> HIDE DEF ref
    <2>3. /\ nodes' \in Seq(Row) /\ Len(nodes') = Len(nodes) + 1
          /\ \A i \in DOMAIN nodes : i \in DOMAIN nodes' /\ nodes'[i] = nodes[i]
          /\ nodes'[Len(nodes')] = NewNode(ref)
      BY <1>2, <2>1, <2>2, Appended
    <2>4. RowsGrow
      BY <2>1, <2>3 DEF RowsGrow
    <2>5. EndsExist'
      BY <2>1, <2>3 DEF EndsExist, FailInv, GraphInv
    <2>6. MarkersOnce'
      <3>1. \A i \in DOMAIN nodes' : i \in DOMAIN nodes \/ i = Len(nodes')
        BY <1>2, <2>3
      <3>2. nodes'[Len(nodes')].ref = ref
        BY <2>3 DEF NewNode
      <3> QED BY <2>1, <2>3, <3>1, <3>2 DEF MarkersOnce, FailInv
    <2>7. FailuresTyped' /\ AttachedWhole'
      BY <1>1, <2>4, GrownRows DEF FailInv
    <2>8. GraphInv'
      <3>1. \A i \in DOMAIN nodes' : i \in DOMAIN nodes \/ i = Len(nodes')
        BY <1>2, <2>3
      <3>2. nodes'[Len(nodes')].ref = ref
        BY <2>3 DEF NewNode
      <3> QED BY <1>1, <2>2, <2>3, <2>5, <3>1, <3>2, GraphKept DEF FailInv
    <2> QED BY <1>2, <1>3, <2>1, <2>3, <2>6, <2>7, <2>8 DEF FailInv
  <1>5. CASE MarkEdge(kind)
    <2>1. PICK i : i = Least(Markers(f, a, kind))
      OBVIOUS
    <2>2. /\ Markers(f, a, kind) # {} /\ nodes' = nodes
          /\ edges' = WithEdges(edges, {Edge(a, i, kind)})
      BY <1>0, <1>5, <2>1 DEF MarkEdge
    <2>3. i \in DOMAIN nodes
      <3>1. Markers(f, a, kind) \subseteq DOMAIN nodes /\ DOMAIN nodes \subseteq Nat
        BY <1>2 DEF Markers
      <3> QED BY <2>1, <2>2, <3>1, LeastOfNats
    <2>4. DOMAIN edges' = DOMAIN edges \cup {Edge(a, i, kind)}
      BY <2>2 DEF WithEdges
    <2>5. RowsGrow
      BY <2>2, <2>4 DEF RowsGrow
    <2>6. EndsExist'
      BY <1>1, <2>2, <2>3, <2>4 DEF EndsExist, Edge, FailInv, GraphInv
    <2>7. FailuresTyped' /\ AttachedWhole'
      BY <1>1, <2>5, GrownRows DEF FailInv
    <2>8. GraphInv'
      BY <1>1, <1>2, <2>2, <2>6, GraphKept DEF FailInv
    <2>9. MarkersOnce' /\ Len(nodes') <= MaxNodes
      BY <2>2 DEF FailInv, MarkersOnce
    <2> QED BY <1>3, <2>7, <2>8, <2>9 DEF FailInv
  <1> QED BY <1>4, <1>5

\* The failure is attached when every anchor is marked.
LEMMA AttachStep == ASSUME FailInv, Attach PROVE FailInv'
  <1>0. PICK f : f = job.failure
    OBVIOUS
  <1>1. /\ job.step = "markers" /\ Unmarked(f) = {} /\ attached' = attached \cup {f}
        /\ job' = [job EXCEPT !.step = "score"]
        /\ UNCHANGED <<candidate, objects, nodes, edges, touched, failure, penalties>>
    BY <1>0 DEF Attach, At, vars
  <1>2. f \in Failures /\ TargetsOf(f) # <<>> /\ \A i \in DOMAIN TargetsOf(f) : TargetHit(f, i)
    BY <1>0, <1>1 DEF FailInv, JobTyped, Progress
  <1>3. \A i \in DOMAIN TargetsOf(f) : Marked(f, i)
    BY <1>1, <1>2, AnchorsThere DEF Unmarked, Linked, Markers, Marked
  <1>4. AttachedWhole'
    <2>1. AttachedWhole /\ attached \subseteq Failures
      BY DEF FailInv, FailuresTyped
    <2> QED BY <1>1, <1>2, <1>3, <2>1 DEF AttachedWhole, TargetsOf, TargetHit, Marked
  <1>5. FailuresTyped'
    BY <1>1, <1>2 DEF FailInv, FailuresTyped, TargetsOf, There
  <1>6. GraphInv' /\ MarkersOnce' /\ Len(nodes') <= MaxNodes
    BY <1>1, GraphKept DEF FailInv, GraphInv, RowsTyped, EndsExist, MarkersOnce
  <1>7. JobTyped' /\ Progress'
    <2>1. job' = [step |-> "score", failure |-> f, at |-> job.at]
      BY <1>0, <1>1 DEF FailInv, JobTyped
    <2> QED BY <1>0, <1>1, <1>2, <2>1 DEF FailInv, JobTyped, Progress, Steps, TargetsOf
  <1> QED BY <1>4, <1>5, <1>6, <1>7 DEF FailInv

\* From the scores on no row changes, and a recompute may stop anywhere.
LEMMA LaterFailureStep ==
    ASSUME FailInv, TargetRaises \/ ScoreRoutes \/ WriteVersion \/ WriteWorkspace \/ Die
    PROVE  FailInv'
  <1>1. /\ UNCHANGED <<candidate, objects, nodes, edges, touched, failure, attached, penalties>>
        /\ \/ job' = Idle
           \/ /\ job.step \in {"score", "version"}
              /\ job' = [job EXCEPT !.step = "version"] \/ job' = [job EXCEPT !.step = "workspace"]
    BY DEF TargetRaises, ScoreRoutes, WriteVersion, WriteWorkspace, Die, At, vars, failureRows, graph
  <1>2. JobTyped' /\ Progress'
    <2>1. CASE job' = Idle
      BY <2>1 DEF FailInv, JobTyped, Progress, Idle, Steps
    <2>2. CASE job.step \in {"score", "version"}
               /\ (job' = [job EXCEPT !.step = "version"] \/ job' = [job EXCEPT !.step = "workspace"])
      <3>1. /\ job' \in [step : Steps, failure : Failures \cup {Idle.failure}, at : Nat]
            /\ job'.step \in {"version", "workspace"} /\ job'.failure = job.failure
        BY <2>2 DEF FailInv, JobTyped, Steps
      <3> QED BY <1>1, <2>2, <3>1 DEF FailInv, JobTyped, Progress, TargetsOf
    <2> QED BY <1>1, <2>1, <2>2
  <1> QED BY <1>1, <1>2, NothingWritten

-----------------------------------------------------------------------------
(* Theorems *)

LEMMA FailStep == ASSUME FailInv, [FailureNext]_allVars PROVE FailInv'
  <1>1. ASSUME NEW f \in Failures, NEW severe \in BOOLEAN, NEW t \in Targets, NEW u \in Targets,
               Report(f, <<t>>, severe) \/ Report(f, <<t, u>>, severe)
        PROVE  FailInv'
    BY <1>1, ReportStep
  <1>2. UNCHANGED allVars => FailInv'
    <2>1. SUFFICES ASSUME UNCHANGED allVars PROVE FailInv'
      OBVIOUS
    <2>2. UNCHANGED <<candidate, objects, nodes, edges, touched, failure, attached, penalties, job>>
      BY <2>1 DEF allVars, vars, failureVars, failureRows
    <2>3. JobTyped' /\ Progress'
      BY <2>2 DEF FailInv, JobTyped, Progress, TargetsOf, TargetHit
    <2> QED BY <2>2, <2>3, NothingWritten
  <1>3. job = Idle /\ GraphNext /\ UNCHANGED failureVars => FailInv'
    BY FailGraphStep
  <1> QED BY <1>1, <1>2, <1>3, StartStep, ApplyStep, MarkStep, AttachStep, LaterFailureStep
          DEF FailureNext

\* The inductive invariant holds in every reachable state, that of the graph
\* included, wherever a recompute was cut short.
THEOREM FailureInvariant == FailureSpec => []FailInv
  <1>1. FailureInit => FailInv
    <2>1. SUFFICES ASSUME FailureInit PROVE FailInv
      OBVIOUS
    <2>2. GraphInv /\ Len(nodes) <= MaxNodes /\ MarkersOnce
      BY <2>1, GraphInit, GraphAssumption DEF FailureInit, Init, MarkersOnce
    <2>3. FailuresTyped /\ AttachedWhole
      <3>1. /\ DOMAIN <<>> = 1..0 /\ Len(<<>>) = 0 /\ 1..0 = {}
        OBVIOUS
      <3>2. <<>> \in [DOMAIN <<>> -> Nat]
        <4>1. <<>> \in Seq(Nat)
          OBVIOUS
        <4> QED BY <4>1
      <3>3. /\ DOMAIN failure = Failures /\ DOMAIN penalties = Failures /\ attached = {}
            /\ \A f \in Failures : /\ TargetsOf(f) = <<>> /\ failure[f].severe = FALSE
                                   /\ penalties[f] = <<>>
        BY <2>1 DEF FailureInit, TargetsOf
      <3>4. ASSUME NEW f \in Failures
            PROVE  /\ failure[f].severe \in BOOLEAN
                   /\ Len(TargetsOf(f)) \in Nat /\ DOMAIN TargetsOf(f) = 1..Len(TargetsOf(f))
                   /\ penalties[f] \in [DOMAIN TargetsOf(f) -> Nat]
                   /\ DOMAIN TargetsOf(f) = {}
        <4>1. TargetsOf(f) = <<>> /\ failure[f].severe = FALSE /\ penalties[f] = <<>>
          BY <3>3
        <4> QED BY <3>1, <3>2, <4>1
      <3> QED BY <3>3, <3>4 DEF FailuresTyped, AttachedWhole
    <2>4. JobTyped /\ Progress
      BY <2>1 DEF FailureInit, JobTyped, Progress, Idle, Steps
    <2> QED BY <2>2, <2>3, <2>4 DEF FailInv
  <1> QED BY <1>1, FailStep, PTL DEF FailureSpec

\* An anchor gets one gap node and one branch node of a failure, however
\* often it is recomputed, cut short or rebuilt over (apply_failure).
THEOREM FailureMarksOnce == FailureSpec => []MarkersOnce
  BY FailureInvariant, PTL DEF FailInv

\* A failure that is attached has hit all its targets and marked all their
\* ends, whatever raised or died before (apply_failure).
THEOREM FailureAttachesWhole == FailureSpec => []AttachedComplete
  <1>1. FailInv => AttachedComplete
    BY DEF FailInv, AttachedWhole, AttachedComplete, TargetHit, Marked, TargetsOf
  <1> QED BY <1>1, FailureInvariant, PTL

\* A recompute of an attached failure leaves nodes, edges and their strength
\* alone (apply_failure's return for a failure whose event is found).
THEOREM FailureAppliedNoMore == FailureSpec => AttachedOnce
  <1>1. ASSUME FailInv, [FailureNext]_allVars
        PROVE  [job # Idle /\ job.failure \in attached => UNCHANGED <<graph, penalties>>]_allVars
    <2>1. SUFFICES ASSUME job # Idle, job.failure \in attached, FailureNext
                   PROVE  UNCHANGED <<graph, penalties>>
      BY <1>1
    <2>2. job.step \notin {"targets", "markers"}
      BY <1>1, <2>1 DEF FailInv, Progress
    <2>3. \/ \E f \in Failures, severe \in BOOLEAN, t, u \in Targets :
                Report(f, <<t>>, severe) \/ Report(f, <<t, u>>, severe)
          \/ \E f \in Failures : Start(f)
          \/ TargetRaises \/ Attach \/ ScoreRoutes \/ WriteVersion \/ WriteWorkspace \/ Die
      BY <2>1, <2>2 DEF FailureNext, ApplyTarget, MarkNode, MarkEdge, MarkersLeft
    <2> QED BY <2>1, <2>3 DEF Report, Start, TargetRaises, Attach, ScoreRoutes, WriteVersion,
                              WriteWorkspace, Die, vars, graph
  <1> QED BY <1>1, FailureInvariant, PTL DEF FailureSpec, AttachedOnce

-----------------------------------------------------------------------------
(* What the graph promises, the failures keep.  The graph's theorems are of  *)
(* GraphSpec, in which nothing but the graph writes its rows.                *)

\* No row or edge goes away, changes its object or leaves "archived".
NothingRevived ==
    /\ \A i \in DOMAIN nodes :
           /\ i \in DOMAIN nodes' /\ nodes'[i].ref = nodes[i].ref
           /\ nodes[i].status = "archived" => nodes'[i].status = "archived"
    /\ \A e \in DOMAIN edges :
           e \in DOMAIN edges' /\ (edges[e] = "archived" => edges'[e] = "archived")

\* A target that is archived raises before it is written.
LEMMA ApplyRevivesNone == ASSUME FailInv, ApplyTarget PROVE NothingRevived
  <1>0. PICK f, at, t : f = job.failure /\ at = job.at /\ t = TargetsOf(f)[at]
    OBVIOUS
  <1>1. ~Terminal(TargetStatus(t)) /\ Hit(f, t) /\ There(t)
    BY <1>0 DEF ApplyTarget, TargetsOf, FailInv, JobTyped, Progress, FailuresTyped
  <1>2. CASE IsNode(t)
    <2>1. /\ t.node \in DOMAIN nodes /\ nodes[t.node].status # "archived" /\ edges' = edges
          /\ nodes' = [nodes EXCEPT ![t.node].status = NodeAfter(@, failure[f].severe)]
      BY <1>1, <1>2 DEF There, Terminal, TargetStatus, Hit
    <2>2. NodeAfter(nodes[t.node].status, failure[f].severe) \in NodeStatus
      BY DEF NodeAfter, NodeImpact, NodeStatus, Active
    <2>3. nodes \in Seq(Row)
      BY DEF FailInv, GraphInv, RowsTyped
    <2>4. /\ DOMAIN nodes' = DOMAIN nodes /\ nodes'[t.node].ref = nodes[t.node].ref
          /\ \A j \in DOMAIN nodes \ {t.node} : nodes'[j] = nodes[j]
      BY <2>1, <2>2, <2>3, StatusSet
    <2> QED BY <2>1, <2>4 DEF NothingRevived
  <1>3. CASE ~IsNode(t)
    <2>1. /\ t.edge \in DOMAIN edges /\ edges[t.edge] # "archived" /\ nodes' = nodes
          /\ edges' = [edges EXCEPT ![t.edge] = EdgeImpact(failure[f].severe)]
      BY <1>1, <1>3 DEF There, Terminal, TargetStatus, Hit
    <2> QED BY <2>1 DEF NothingRevived
  <1> QED BY <1>2, <1>3

\* A marker's edge is made only where there is none, archived or not.
LEMMA MarkRevivesNone ==
    ASSUME FailInv, NEW kind \in {"gap", "branch"}, MarkNode(kind) \/ MarkEdge(kind)
    PROVE  NothingRevived
  <1>0. PICK f, a : f = job.failure /\ a = Least(Unmarked(f))
    OBVIOUS
  <1>1. nodes \in Seq(Row) /\ MarkersLeft
    BY DEF FailInv, GraphInv, RowsTyped, MarkNode, MarkEdge
  <1>2. CASE MarkNode(kind)
    <2>1. nodes' = Append(nodes, NewNode(MarkerRef(f, a, kind))) /\ edges' = edges
      BY <1>0, <1>2 DEF MarkNode
    <2>2. \A i \in DOMAIN nodes : i \in DOMAIN nodes' /\ nodes'[i] = nodes[i]
      BY <1>1, <2>1
    <2> QED BY <2>1, <2>2 DEF NothingRevived
  <1>3. CASE MarkEdge(kind)
    <2>1. PICK i : i = Least(Markers(f, a, kind))
      OBVIOUS
    <2>2. /\ Markers(f, a, kind) # {} /\ ~Linked(f, a, kind) /\ nodes' = nodes
          /\ edges' = WithEdges(edges, {Edge(a, i, kind)})
      BY <1>0, <1>3, <2>1 DEF MarkEdge
    <2>3. i \in Markers(f, a, kind)
      <3>1. Markers(f, a, kind) \subseteq Nat
        BY <1>1 DEF Markers
      <3> QED BY <2>1, <2>2, <3>1, LeastOfNats
    <2>4. Edge(a, i, kind) \notin DOMAIN edges
      BY <2>2, <2>3 DEF Linked
    <2> QED BY <2>2, <2>4 DEF NothingRevived, WithEdges
  <1> QED BY <1>2, <1>3

LEMMA NothingRevivedStep == ASSUME FailInv, [FailureNext]_allVars PROVE [NothingRevived]_vars
  <1>1. GraphNext => NothingRevived
    BY NodesStep, EdgesStep DEF FailInv, GraphInv, NothingRevived, KeptEdges
  <1>2. UNCHANGED graph => NothingRevived
    BY DEF NothingRevived, graph
  <1>3. ASSUME \/ \E f \in Failures, severe \in BOOLEAN, t, u \in Targets :
                     Report(f, <<t>>, severe) \/ Report(f, <<t, u>>, severe)
               \/ \E f \in Failures : Start(f)
               \/ TargetRaises \/ Attach \/ ScoreRoutes \/ WriteVersion \/ WriteWorkspace \/ Die
        PROVE  UNCHANGED graph
    BY <1>3 DEF Report, Start, TargetRaises, Attach, ScoreRoutes, WriteVersion, WriteWorkspace,
                Die, vars, graph
  <1>4. UNCHANGED allVars => UNCHANGED vars
    BY DEF allVars
  <1> QED BY <1>1, <1>2, <1>3, <1>4, ApplyRevivesNone, MarkRevivesNone DEF FailureNext

\* No failure, applied, cut short or applied again, lifts an archived row or
\* edge, gives a row another object or takes one away (apply_failure).
THEOREM FailureRevivesNone == FailureSpec => ArchivedForGood
  <1>1. FailInv /\ [FailureNext]_allVars =>
          [/\ \A i \in DOMAIN nodes :
                  /\ i \in DOMAIN nodes' /\ nodes'[i].ref = nodes[i].ref
                  /\ nodes[i].status = "archived" => nodes'[i].status = "archived"
           /\ \A e \in DOMAIN edges :
                  e \in DOMAIN edges' /\ (edges[e] = "archived" => edges'[e] = "archived")]_vars
    BY NothingRevivedStep DEF NothingRevived
  <1> QED BY <1>1, FailureInvariant, PTL DEF FailureSpec, ArchivedForGood

\* A build after any failures, whole or cut short, leaves one active row for
\* each confirmed object and none of a marker, joins active nodes and draws
\* every relation, as if there had been no failure (build_workspace_graph).
THEOREM FailureRowsRebuilt ==
    FailureSpec => [](OneActiveRow /\ EdgesJoinActiveNodes /\ RelationsDrawn)
  <1>1. FailInv => OneActiveRow /\ EdgesJoinActiveNodes /\ RelationsDrawn
    BY OneRowEach DEF FailInv, GraphInv
  <1> QED BY <1>1, FailureInvariant, PTL

\* The workspace row is left by a failure with counts of rows of every
\* status, or, when it is cut short, behind the graph; the next build puts it
\* right (_create_version, build_workspace_graph).
THEOREM FailureWorkspaceCounts == FailureSpec => []WorkspaceCounts
  <1>1. FailureInit => WorkspaceCounts
    BY CountsInit DEF FailureInit
  <1>2. ASSUME FailInv, WorkspaceCounts, [FailureNext]_allVars PROVE WorkspaceCounts'
    <2>1. CASE GraphNext
      BY <1>2, <2>1, CountsStep DEF FailInv, GraphInv
    <2>2. CASE UNCHANGED vars
      BY <1>2, <2>2 DEF vars, WorkspaceCounts, ActiveRows, WorkspaceRow, ActiveNodes, ActiveEdges
    <2>3. CASE \E f \in Failures : Start(f)
      BY <2>3 DEF Start, WorkspaceCounts
    <2>4. CASE \/ ApplyTarget \/ \E kind \in {"gap", "branch"} : MarkNode(kind) \/ MarkEdge(kind)
               \/ WriteVersion \/ WriteWorkspace
      <3>1. job.step # "idle" /\ touched' = touched
        BY <2>4 DEF ApplyTarget, MarkNode, MarkEdge, MarkersLeft, WriteVersion, WriteWorkspace
      <3>2. touched'
        BY <1>2, <3>1 DEF FailInv, JobTyped
      <3> QED BY <3>2 DEF WorkspaceCounts
    <2>5. ASSUME \/ \E f \in Failures, severe \in BOOLEAN, t, u \in Targets :
                       Report(f, <<t>>, severe) \/ Report(f, <<t, u>>, severe)
                 \/ TargetRaises \/ Attach \/ ScoreRoutes \/ Die
          PROVE  UNCHANGED vars
      BY <2>5 DEF Report, TargetRaises, Attach, ScoreRoutes, Die
    <2>6. UNCHANGED allVars => UNCHANGED vars
      BY DEF allVars
    <2> QED BY <1>2, <2>1, <2>2, <2>3, <2>4, <2>5, <2>6 DEF FailureNext
  <1> QED BY <1>1, <1>2, FailureInvariant, PTL DEF FailureSpec
-----------------------------------------------------------------------------
(* A recompute comes to an end: at each of its steps it has something to do, *)
(* and what it does brings it further.                                       *)

StepNumber(step) ==
    CASE step = "targets" -> 1 [] step = "markers" -> 2 [] step = "score" -> 3
      [] step = "version" -> 4 [] step = "workspace" -> 5

\* The rows and edges of markers that a failure still lacks.
Marks == {"gap", "branch"} \X {"node", "edge"}
Lacking(f) ==
    {x \in Anchors(f) \X Marks :
        IF x[2][2] = "node" THEN Markers(f, x[1], x[2][1]) = {} ELSE ~Linked(f, x[1], x[2][1])}

FurtherOn ==
    \/ job'.step # "idle" /\ StepNumber(job.step) < StepNumber(job'.step)
    \/ job.step = "targets" /\ job' = [job EXCEPT !.at = @ + 1] /\ ~IsLast(job.at, job.failure)
    \/ /\ job.step = "markers" /\ job' = job
       /\ Lacking(job.failure)' \subseteq Lacking(job.failure)
       /\ Lacking(job.failure)' # Lacking(job.failure)

\* What MarkNode and MarkEdge ask for, but for the bound on rows.
NodeDue(f, a, kind) ==
    Markers(f, a, kind) = {} /\ (kind = "branch" => Markers(f, a, "gap") # {})
EdgeDue(f, a, kind) ==
    /\ \A k \in {"gap", "branch"} : Markers(f, a, k) # {}
    /\ ~Linked(f, a, kind) /\ (kind = "branch" => Linked(f, a, "gap"))

\* A marker that is made is one that was lacking, and none that was there goes.
LEMMA MarkLacksLess ==
    ASSUME FailInv, NEW kind \in {"gap", "branch"}, MarkNode(kind) \/ MarkEdge(kind),
           NEW f, f = job.failure
    PROVE  Lacking(f)' \subseteq Lacking(f) /\ Lacking(f)' # Lacking(f)
  <1>0. PICK a : a = Least(Unmarked(f))
    OBVIOUS
  <1>1. f \in Failures /\ a \in Anchors(f) /\ failure' = failure
    <2>1. job.step = "markers" /\ Unmarked(f) # {} /\ failure' = failure
      BY DEF MarkNode, MarkEdge, MarkersLeft, failureVars, failureRows
    <2>2. f \in Failures
      BY <2>1 DEF FailInv, JobTyped
    <2> QED BY <1>0, <2>1, <2>2, AnchorsThere
  <1>2. nodes \in Seq(Row)
    BY DEF FailInv, GraphInv, RowsTyped
  <1>3. Anchors(f)' = Anchors(f)
    BY <1>1 DEF Anchors, Range, Ends, IsNode
  <1>4. ASSUME RowsGrow,
               \E part \in {"node", "edge"} :
                  <<a, <<kind, part>>>> \in Lacking(f) /\ <<a, <<kind, part>>>> \notin Lacking(f)'
        PROVE  Lacking(f)' \subseteq Lacking(f) /\ Lacking(f)' # Lacking(f)
    <2>1. \A b, k : /\ Markers(f, b, k) \subseteq Markers(f, b, k)'
                    /\ Linked(f, b, k) => Linked(f, b, k)'
      BY <1>4 DEF RowsGrow, Markers, Linked, MarkerRef
    <2> QED BY <1>3, <1>4, <2>1 DEF Lacking
  <1>5. CASE MarkNode(kind)
    <2> DEFINE ref == MarkerRef(f, a, kind)
    <2>1. /\ nodes' = Append(nodes, NewNode(ref)) /\ edges' = edges
          /\ Markers(f, a, kind) = {}
      BY <1>0, <1>5 DEF MarkNode
    <2>2. /\ \A i \in DOMAIN nodes : i \in DOMAIN nodes' /\ nodes'[i] = nodes[i]
          /\ Len(nodes) + 1 \in DOMAIN nodes' /\ nodes'[Len(nodes) + 1] = NewNode(ref)
      BY <1>2, <2>1
    <2>3. Markers(f, a, kind)' # {}
      BY <2>2 DEF Markers, NewNode
    <2>4. RowsGrow
      BY <2>1, <2>2 DEF RowsGrow
    <2>5. /\ <<a, <<kind, "node">>>> \in Lacking(f)
          /\ <<a, <<kind, "node">>>> \notin Lacking(f)'
      BY <1>1, <1>3, <2>1, <2>3 DEF Lacking, Marks
    <2> QED BY <1>4, <2>4, <2>5
  <1>6. CASE MarkEdge(kind)
    <2>1. PICK i : i = Least(Markers(f, a, kind))
      OBVIOUS
    <2>2. /\ Markers(f, a, kind) # {} /\ ~Linked(f, a, kind) /\ nodes' = nodes
          /\ edges' = WithEdges(edges, {Edge(a, i, kind)})
      BY <1>0, <1>6, <2>1 DEF MarkEdge
    <2>3. i \in Markers(f, a, kind)
      <3>1. Markers(f, a, kind) \subseteq Nat
        BY <1>2 DEF Markers
      <3> QED BY <2>1, <2>2, <3>1, LeastOfNats
    <2>4. DOMAIN edges' = DOMAIN edges \cup {Edge(a, i, kind)}
      BY <2>2 DEF WithEdges
    <2>5. Linked(f, a, kind)'
      BY <2>2, <2>3, <2>4 DEF Linked, Markers, MarkerRef
    <2>6. RowsGrow
      BY <2>2, <2>4 DEF RowsGrow
    <2>7. /\ <<a, <<kind, "edge">>>> \in Lacking(f)
          /\ <<a, <<kind, "edge">>>> \notin Lacking(f)'
      BY <1>1, <1>3, <2>2, <2>5 DEF Lacking, Marks
    <2> QED BY <1>4, <2>6, <2>7
  <1> QED BY <1>5, <1>6

\* A recompute ends, goes to a later step, takes the next target or makes a
\* marker that was lacking; of its targets and markers there are finitely
\* many, so it does not go on for ever (recompute_from_failure).
THEOREM RecomputeAdvances == FailureSpec => [][job # Idle => job' = Idle \/ FurtherOn]_allVars
  <1>1. ASSUME FailInv, [FailureNext]_allVars
        PROVE  [job # Idle => job' = Idle \/ FurtherOn]_allVars
    <2>1. SUFFICES ASSUME job # Idle, FailureNext PROVE job' = Idle \/ FurtherOn
      BY <1>1
    <2>2. /\ job \in [step : Steps, failure : Failures \cup {Idle.failure}, at : Nat]
          /\ job.step # "idle"
      BY <1>1, <2>1 DEF FailInv, JobTyped, Idle
    <2>3. CASE ApplyTarget
      <3>1. CASE IsLast(job.at, job.failure)
        <4>1. job.step = "targets" /\ job'.step = "markers"
          BY <2>2, <2>3, <3>1 DEF ApplyTarget
        <4> QED BY <4>1 DEF FurtherOn, StepNumber
      <3>2. CASE ~IsLast(job.at, job.failure)
        BY <2>3, <3>2 DEF ApplyTarget, FurtherOn
      <3> QED BY <3>1, <3>2
    <2>4. ASSUME NEW kind \in {"gap", "branch"}, MarkNode(kind) \/ MarkEdge(kind)
          PROVE  FurtherOn
      <3>1. job.step = "markers" /\ job' = job
        BY <2>4 DEF MarkNode, MarkEdge, MarkersLeft, failureVars
      <3>2. PICK f : f = job.failure
        OBVIOUS
      <3>3. Lacking(f)' \subseteq Lacking(f) /\ Lacking(f)' # Lacking(f)
        BY <1>1, <2>4, <3>2, MarkLacksLess
      <3>4. Lacking(job.failure)' = Lacking(f)'
        BY <3>1, <3>2
      <3> QED BY <3>1, <3>2, <3>3, <3>4 DEF FurtherOn
    <2>5. CASE Attach
      <3>1. job.step = "markers" /\ job'.step = "score"
        BY <2>2, <2>5 DEF Attach, At
      <3> QED BY <3>1 DEF FurtherOn, StepNumber
    <2>6. CASE ScoreRoutes
      <3>1. job.step = "score" /\ (job'.step = "version" \/ job' = Idle)
        BY <2>2, <2>6 DEF ScoreRoutes, At
      <3> QED BY <3>1 DEF FurtherOn, StepNumber
    <2>7. CASE WriteVersion
      <3>1. job.step = "version" /\ job'.step = "workspace"
        BY <2>2, <2>7 DEF WriteVersion, At
      <3> QED BY <3>1 DEF FurtherOn, StepNumber
    <2> QED BY <2>1, <2>3, <2>4, <2>5, <2>6, <2>7
            DEF FailureNext, Report, Start, TargetRaises, WriteWorkspace, Die
  <1> QED BY <1>1, FailureInvariant, PTL DEF FailureSpec

\* While an anchor is unmarked, one of the two nodes or two edges of its gap
\* and branch is due, whatever an earlier recompute that was cut short, or an
\* archive by hand, left of them (apply_failure).
THEOREM RecomputeNeverStuck ==
    FailureSpec => [](job.step = "markers" /\ Unmarked(job.failure) # {} =>
                        LET a == Least(Unmarked(job.failure))
                        IN  \E kind \in {"gap", "branch"} :
                                NodeDue(job.failure, a, kind) \/ EdgeDue(job.failure, a, kind))
  <1>1. ASSUME FailInv, job.step = "markers", Unmarked(job.failure) # {}
        PROVE  LET a == Least(Unmarked(job.failure))
               IN  \E kind \in {"gap", "branch"} :
                       NodeDue(job.failure, a, kind) \/ EdgeDue(job.failure, a, kind)
    <2>1. PICK f, a : f = job.failure /\ a = Least(Unmarked(f))
      OBVIOUS
    <2>2. a \in Unmarked(f)
      <3>1. f \in Failures
        BY <1>1, <2>1 DEF FailInv, JobTyped
      <3>2. Unmarked(f) \subseteq Nat
        <4>1. Anchors(f) \subseteq DOMAIN nodes
          BY <1>1, <3>1, AnchorsThere
        <4>2. nodes \in Seq(Row)
          BY <1>1 DEF FailInv, GraphInv, RowsTyped
        <4> QED BY <4>1, <4>2 DEF Unmarked
      <3> HIDE DEF Unmarked
      <3> QED BY <1>1, <2>1, <3>2, LeastOfNats
    <2>3. ~Linked(f, a, "gap") \/ ~Linked(f, a, "branch")
      BY <2>2 DEF Unmarked
    <2>4. \E kind \in {"gap", "branch"} : NodeDue(f, a, kind) \/ EdgeDue(f, a, kind)
      <3>1. CASE Markers(f, a, "gap") = {}
        BY <3>1 DEF NodeDue
      <3>2. CASE Markers(f, a, "gap") # {} /\ Markers(f, a, "branch") = {}
        BY <3>2 DEF NodeDue
      <3>3. CASE Markers(f, a, "gap") # {} /\ Markers(f, a, "branch") # {}
        BY <2>3, <3>3 DEF EdgeDue
      <3> QED BY <3>1, <3>2, <3>3
    <2> QED BY <2>1, <2>4
  <1> QED BY <1>1, FailureInvariant, PTL
=============================================================================
