--------------------------- MODULE KnowledgeGraph ---------------------------
(***************************************************************************)
(* The knowledge graph of a workspace: candidates are confirmed into       *)
(* objects, nodes and edges one at a time; a build makes the graph afresh  *)
(* from the confirmed objects; researchers edit and archive rows by hand.  *)
(*                                                                         *)
(* Every handler runs from its parsed body to its answer without an await, *)
(* so it is one action.  A confirmation is one SQL transaction; a build    *)
(* and an archive write row by row, and a process that dies in the middle  *)
(* leaves a prefix of their writes.  Texts, labels, claims, evidence and   *)
(* the mirrors in the memory backend are abstracted.                       *)
(***************************************************************************)
EXTENDS Integers, Sequences, FiniteSets, Functions

CONSTANTS Candidates,  \* candidate statements, and the objects they become
          TextOf,      \* [Candidates -> text]: normalized_text
          BatchOf,     \* [Candidates -> batch]: candidate_batch_id
          SourceOf,    \* [batch -> source]: source_id
          Evidence,    \* candidates of type "evidence"; the rest is of one other type
          Relations,   \* [from, to : Candidates]: resolved relation candidates
          RelatedBatches, \* batches with relation candidates, resolved or not
          ManualRefs,  \* objects of nodes made by hand
          OtherRefs,   \* objects of the nodes the failure loop makes
          MaxNodes, MaxVersions, MaxEdits \* bounds

ASSUME GraphAssumption ==
    /\ IsFiniteSet(Candidates) /\ Evidence \subseteq Candidates
    /\ DOMAIN TextOf = Candidates /\ DOMAIN BatchOf = Candidates
    /\ Range(BatchOf) \cup RelatedBatches \subseteq DOMAIN SourceOf
    /\ Relations \subseteq [from : Candidates, to : Candidates]
    /\ \A r \in Relations : BatchOf[r.from] = BatchOf[r.to] /\ BatchOf[r.to] \in RelatedBatches
    \* The id of an object is made up when its candidate is confirmed.
    /\ Candidates \cap (ManualRefs \cup OtherRefs) = {}
    /\ MaxNodes \in Nat /\ MaxVersions \in Nat /\ MaxEdits \in Nat

VARIABLES candidate, \* status of each candidate
          objects,   \* confirmed objects in the order of their rows
          nodes,     \* graph_nodes: a row is [ref, status], its id its index
          edges,     \* graph_edges: status of each edge [from, to, kind]
          versions,  \* number of graph_versions
          workspace, \* graph_workspaces: latest version and counts
          edits,     \* edits and crashes so far, for the bound
          touched    \* history: edited or cut short since the last build

graph == <<nodes, edges>>
vars == <<candidate, objects, nodes, edges, versions, workspace, edits, touched>>

Active == {"active", "weakened", "conflicted", "failed"}
NodeStatus == Active \cup {"superseded", "archived"}
EdgeStatus == {"active", "weakened", "conflicted", "invalidated", "superseded", "archived"}
Refs == Candidates \cup ManualRefs \cup OtherRefs
Edges == [from : 1..MaxNodes, to : 1..MaxNodes,
          kind : {"relation", "anchor", "manual", "gap", "branch"}]

Edge(from, to, kind) == [from |-> from, to |-> to, kind |-> kind]
SourceOfObject(c) == SourceOf[BatchOf[c]]
Confirmed == Range(objects)

Init ==
    /\ candidate = [c \in Candidates |-> "pending"]
    /\ objects = <<>> /\ nodes = <<>>
    /\ edges = [e \in {} |-> "active"]
    /\ versions = 0
    /\ workspace = [latest |-> 0, nodes |-> 0, edges |-> 0]
    /\ edits = 0 /\ touched = FALSE

-----------------------------------------------------------------------------
(* Rows *)

Least(S) == CHOOSE i \in S : \A j \in S : i <= j
Greatest(S) == CHOOSE i \in S : \A j \in S : j <= i

ActiveNodes(rows) == {i \in DOMAIN rows : rows[i].status \in Active}
ActiveEdges(es) == {e \in DOMAIN es : es[e] \in Active}
ActiveNodesOf(rows, ref) == {i \in ActiveNodes(rows) : rows[i].ref = ref}
ArchivedRefs(rows) == {rows[i].ref : i \in {j \in DOMAIN rows : rows[j].status = "archived"}}

NewNode(ref) == [ref |-> ref, status |-> "active"]
WithEdges(es, new) == [e \in DOMAIN es \cup new |-> IF e \in new THEN "active" ELSE es[e]]

\* The node the other nodes of a source hang from.
AnchorOf(rows, S) ==
    LET evidence == {i \in S : rows[i].ref \in Evidence}
    IN  Least(IF evidence # {} THEN evidence ELSE S)

WorkspaceRow(version, ns, es) ==
    [latest |-> version, nodes |-> Cardinality(ns), edges |-> Cardinality(es)]
AllRows(version, rows, es) == WorkspaceRow(version, DOMAIN rows, DOMAIN es)
ActiveRows(version, rows, es) == WorkspaceRow(version, ActiveNodes(rows), ActiveEdges(es))

-----------------------------------------------------------------------------
(* Candidates *)

ConflictingOfType(c) ==
    \E d \in Confirmed : TextOf[d] = TextOf[c] /\ (d \in Evidence <=> c \in Evidence)
\* Of any type.
Conflicting(c) == \E d \in Confirmed : TextOf[d] = TextOf[c]

\* Relations of c to what is confirmed; one of c with itself is left out.
RelationsOfTarget(rows, objs, c) ==
    {r \in Relations : r.to = c /\ r.from # c /\ r.from \in Range(objs) /\ ActiveNodesOf(rows, r.from) # {}}
DrawnRelations(rows, objs, c) ==
    {r \in Relations : /\ c \in {r.from, r.to} /\ r.from # r.to
                       /\ {r.from, r.to} \subseteq Range(objs)
                       /\ ActiveNodesOf(rows, r.from) # {}
                       /\ ActiveNodesOf(rows, r.to) # {}}

\* Edges of the resolved relations of a newly confirmed c, whose other end
\* has been confirmed and has an active node.
RelationEdges(rows, objs, c) ==
    LET node(d) == Greatest(ActiveNodesOf(rows, d))
    IN  {Edge(node(r.from), node(r.to), "relation") : r \in DrawnRelations(rows, objs, c)}

\* Without relation candidates in its batch a new node hangs from an active
\* node of its source.
AnchorEdges(rows, objs, c, n) ==
    LET sameSource == {i \in ActiveNodes(rows) \ {n} :
                          /\ rows[i].ref \in Range(objs)
                          /\ SourceOfObject(rows[i].ref) = SourceOfObject(c)}
    IN  IF BatchOf[c] \in RelatedBatches \/ sameSource = {} THEN {}
        ELSE {Edge(AnchorOf(rows, sameSource), n, "anchor")}

\* The object is new, so its node and the edges at it are.
Confirm(c) ==
    /\ candidate[c] = "pending"
    /\ ~Conflicting(c)
    /\ Len(nodes) < MaxNodes /\ versions < MaxVersions
    /\ candidate' = [candidate EXCEPT ![c] = "confirmed"]
    /\ objects' = Append(objects, c)
    /\ nodes' = Append(nodes, NewNode(c))
    /\ edges' = WithEdges(edges, RelationEdges(nodes', objects', c)
                                 \cup AnchorEdges(nodes', objects', c, Len(nodes')))
    /\ versions' = versions + 1
    /\ workspace' = ActiveRows(versions', nodes', edges')
    /\ UNCHANGED <<edits, touched>>

Reject(c) ==
    /\ candidate[c] = "pending"
    /\ candidate' = [candidate EXCEPT ![c] = "rejected"]
    /\ UNCHANGED <<objects, nodes, edges, versions, workspace, edits, touched>>

-----------------------------------------------------------------------------
(* build_workspace_graph *)

Superseded(status) == IF status = "archived" THEN status ELSE "superseded"
ClearedNodes == [i \in DOMAIN nodes |-> [nodes[i] EXCEPT !.status = Superseded(@)]]
EdgesLeft == edges
ArchivedEdgesToo == [e \in DOMAIN edges |-> "superseded"]
ClearedEdges == [e \in DOMAIN edges |-> Superseded(edges[e])]

\* An object of which any row is archived is skipped.
EveryObject == Confirmed
Rebuildable == Confirmed \ ArchivedRefs(nodes)

\* list_confirmed_objects: the table of evidence first, each in row order.
ListedBefore(c, d) ==
    \/ c \in Evidence /\ d \notin Evidence
    \/ /\ c \in Evidence <=> d \in Evidence
       /\ \E i, j \in DOMAIN objects : objects[i] = c /\ objects[j] = d /\ i < j
Listings == {s \in [1..Cardinality(Rebuildable) -> Rebuildable] :
                \A i, j \in DOMAIN s : i < j => ListedBefore(s[i], s[j])}

\* Edges between the rows from first on.  Unlike Confirm, a relation of a
\* candidate with itself is drawn, and one batch with relation candidates
\* keeps its whole source from being anchored.
RebuiltEdges(rows, first) ==
    LET built == first..Len(rows)
        node(c) == CHOOSE i \in built : rows[i].ref = c
        refs == {rows[i].ref : i \in built}
        sources == {SourceOfObject(c) : c \in refs} \ {SourceOf[b] : b \in RelatedBatches}
        of(s) == {i \in built : SourceOfObject(rows[i].ref) = s}
    IN  {Edge(node(r.from), node(r.to), "relation") :
            r \in {q \in Relations : {q.from, q.to} \subseteq refs}}
        \cup UNION {{Edge(AnchorOf(rows, of(s)), i, "anchor") :
                        i \in of(s) \ {AnchorOf(rows, of(s))}} : s \in sources}

Rebuilt(listing) == ClearedNodes \o [i \in DOMAIN listing |-> NewNode(listing[i])]

Build(listing) ==
    /\ Len(nodes) + Len(listing) <= MaxNodes /\ versions < MaxVersions
    /\ nodes' = Rebuilt(listing)
    /\ LET new == RebuiltEdges(nodes', Len(nodes) + 1)
       IN  /\ edges' = WithEdges(ClearedEdges, new)
           /\ versions' = versions + 1
           /\ workspace' = WorkspaceRow(versions', DOMAIN listing, new)
    /\ touched' = FALSE
    /\ UNCHANGED <<candidate, objects, edits>>

\* The process dies after it cleared the edges only, while it makes nodes,
\* while it makes edges, or after the version row.
BuildDies(listing) ==
    /\ edits < MaxEdits /\ edits' = edits + 1 /\ touched' = TRUE
    /\ Len(nodes) + Len(listing) <= MaxNodes /\ versions < MaxVersions
    /\ \/ nodes' = nodes /\ edges' = ClearedEdges /\ versions' = versions
       \/ \E k \in 0..Len(listing) :
             nodes' = Rebuilt(SubSeq(listing, 1, k)) /\ edges' = ClearedEdges /\ versions' = versions
       \/ /\ nodes' = Rebuilt(listing)
          /\ \E new \in SUBSET RebuiltEdges(nodes', Len(nodes) + 1) :
                edges' = WithEdges(ClearedEdges, new) /\ versions' = versions
       \/ /\ nodes' = Rebuilt(listing)
          /\ edges' = WithEdges(ClearedEdges, RebuiltEdges(nodes', Len(nodes) + 1))
          /\ versions' = versions + 1
    /\ UNCHANGED <<candidate, objects, workspace>>

-----------------------------------------------------------------------------
(* Edits by hand *)

Edit == edits < MaxEdits /\ edits' = edits + 1 /\ touched' = TRUE

CreateNode(ref) ==
    /\ Edit
    /\ Len(nodes) < MaxNodes
    /\ nodes' = Append(nodes, NewNode(ref))
    /\ UNCHANGED <<candidate, objects, edges, versions, workspace>>

\* The ends may have any status.
CreateEdge(i, j) ==
    /\ Edit
    /\ Edge(i, j, "manual") \notin DOMAIN edges
    /\ edges' = WithEdges(edges, {Edge(i, j, "manual")})
    /\ UNCHANGED <<candidate, objects, nodes, versions, workspace>>

NodeStatusValues == NodeStatus
MayPatch(status) == status # "archived"
MayArchive(status) == status # "archived"

PatchNode(i, status) ==
    /\ Edit
    /\ MayPatch(nodes[i].status)
    /\ nodes' = [nodes EXCEPT ![i].status = status]
    /\ UNCHANGED <<candidate, objects, edges, versions, workspace>>

PatchEdge(e, status) ==
    /\ Edit
    /\ MayPatch(edges[e])
    /\ edges' = [edges EXCEPT ![e] = status]
    /\ UNCHANGED <<candidate, objects, nodes, versions, workspace>>

\* _create_archive_version counts the rows of every status.  The process may
\* die before the version row or before the workspace row.
ArchiveVersion ==
    \/ UNCHANGED <<versions, workspace>>
    \/ versions' = versions + 1 /\ UNCHANGED workspace
    \/ /\ versions' = versions + 1
       /\ workspace' = AllRows(versions', nodes', edges')

ArchiveNode(i) ==
    /\ Edit
    /\ MayArchive(nodes[i].status) /\ versions < MaxVersions
    /\ nodes' = [nodes EXCEPT ![i].status = "archived"]
    /\ edges' = edges
    /\ ArchiveVersion
    /\ UNCHANGED <<candidate, objects>>

ArchiveEdge(e) ==
    /\ Edit
    /\ MayArchive(edges[e]) /\ versions < MaxVersions
    /\ edges' = [edges EXCEPT ![e] = "archived"]
    /\ nodes' = nodes
    /\ ArchiveVersion
    /\ UNCHANGED <<candidate, objects>>

ByHand ==
    \/ \E ref \in Confirmed \cup ManualRefs : CreateNode(ref)
    \/ \E i, j \in DOMAIN nodes : CreateEdge(i, j)
    \/ \E i \in DOMAIN nodes : (\E s \in NodeStatusValues : PatchNode(i, s)) \/ ArchiveNode(i)
    \/ \E e \in DOMAIN edges : (\E s \in EdgeStatus : PatchEdge(e, s)) \/ ArchiveEdge(e)

GraphNext ==
    \/ \E c \in Candidates : Confirm(c) \/ Reject(c)
    \/ \E listing \in Listings : Build(listing) \/ BuildDies(listing)
    \/ ByHand

GraphSpec == Init /\ [][GraphNext]_vars

-----------------------------------------------------------------------------
(* Properties *)

\* Types of the rows and counters.
TypeOK ==
    /\ candidate \in [Candidates -> {"pending", "confirmed", "rejected"}]
    /\ objects \in Seq(Candidates)
    /\ nodes \in Seq([ref : Refs, status : NodeStatus]) /\ Len(nodes) <= MaxNodes
    /\ DOMAIN edges \subseteq Edges /\ \A e \in DOMAIN edges : edges[e] \in EdgeStatus
    /\ versions \in 0..MaxVersions
    /\ workspace \in [latest : 0..versions, nodes : Nat, edges : Nat]
    /\ edits \in 0..MaxEdits /\ touched \in BOOLEAN

\* A candidate is confirmed once, and no two objects of a workspace have the
\* same text, whatever order confirmations and rejections come in.
ConfirmedOnce ==
    /\ \A c \in Candidates : candidate[c] = "confirmed" <=> c \in Confirmed
    /\ \A i, j \in DOMAIN objects : i # j => TextOf[objects[i]] # TextOf[objects[j]]

\* No operation, a build that dies included, takes a row or an edge away,
\* gives a row another object, or brings an archived one back.
ArchivedForGood ==
    [][/\ \A i \in DOMAIN nodes :
              /\ i \in DOMAIN nodes' /\ nodes'[i].ref = nodes[i].ref
              /\ nodes[i].status = "archived" => nodes'[i].status = "archived"
       /\ \A e \in DOMAIN edges :
              e \in DOMAIN edges' /\ (edges[e] = "archived" => edges'[e] = "archived")]_vars

\* From a build on, whatever was edited or lost before it, and until the
\* next edit: exactly the confirmed objects without an archived row have an
\* active row, and each has one.
OneActiveRow ==
    ~touched =>
        \A ref \in Refs : Cardinality(ActiveNodesOf(nodes, ref))
                          = IF ref \in Confirmed \ ArchivedRefs(nodes) THEN 1 ELSE 0

\* As long, active edges join active nodes.
EdgesJoinActiveNodes ==
    ~touched => \A e \in ActiveEdges(edges) : {e.from, e.to} \subseteq ActiveNodes(nodes)

\* As long, a resolved relation has an active edge as soon as both its ends
\* have an active node, whichever was confirmed last.
RelationsDrawn ==
    ~touched =>
        \A r \in Relations : \A i \in ActiveNodesOf(nodes, r.from), j \in ActiveNodesOf(nodes, r.to) :
            r.from # r.to => Edge(i, j, "relation") \in ActiveEdges(edges)

\* As long, the workspace row shows the latest version and counts what is
\* active, though confirmations count all of it anew and a build only its own.
WorkspaceCounts == ~touched => workspace = ActiveRows(versions, nodes, edges)

=============================================================================
