------------------------ MODULE KnowledgeGraphProofs ------------------------
(***************************************************************************)
(* Theorems about KnowledgeGraph for any candidates, relations and bounds. *)
(***************************************************************************)
EXTENDS KnowledgeGraph, FiniteSetTheorems, SequenceTheorems, WellFoundedInduction, TLAPS

Row == [ref : Refs, status : NodeStatus]

\* The part of TypeOK the arguments below need.
RowsTyped ==
    /\ candidate \in [Candidates -> {"pending", "confirmed", "rejected"}]
    /\ objects \in Seq(Candidates)
    /\ nodes \in Seq(Row)

-----------------------------------------------------------------------------
(* Rows *)

\* A set of row numbers that is not empty has a least one.
LEMMA LeastOfNats ==
    ASSUME NEW S, S \subseteq Nat, S # {}
    PROVE  Least(S) \in S /\ \A j \in S : Least(S) <= j
<1>1. PICK x \in S : \A y \in S : ~(<<y, x>> \in OpToRel(<, Nat))
    BY WFMin, NatLessThanWellFounded
<1>2. ASSUME NEW y \in S PROVE x <= y
  <2>1. <<y, x>> \notin {ss \in Nat \X Nat : ss[1] < ss[2]}
      BY <1>1, Zenon DEF OpToRel
  <2> QED BY <2>1
<1> QED BY <1>2 DEF Least

\* One that is bounded has a greatest: the least of its upper bounds.
LEMMA GreatestOfNats ==
    ASSUME NEW S, NEW n \in Nat, S \subseteq 1..n, S # {}
    PROVE  Greatest(S) \in S /\ \A j \in S : j <= Greatest(S)
<1> DEFINE Bounds == {m \in Nat : \A i \in S : i <= m}
           m == Least(Bounds)
<1>1. n \in Bounds
    OBVIOUS
<1>2. m \in Bounds /\ \A k \in Bounds : m <= k
    BY <1>1, LeastOfNats
<1>3. m \in S
  <2>1. SUFFICES ASSUME m \notin S PROVE FALSE
      OBVIOUS
  <2>2. PICK i \in S : TRUE
      OBVIOUS
  <2>3. m - 1 \in Bounds
      BY <1>2, <2>1, <2>2
  <2> QED BY <1>2, <2>3
<1>4. \A j \in S : j <= m
    BY <1>2
<1> HIDE DEF m
<1> QED BY <1>3, <1>4 DEF Greatest

\* A node made by Confirm or by hand comes after the others.
LEMMA Appended ==
    ASSUME nodes \in Seq(Row), NEW ref \in Refs, nodes' = Append(nodes, NewNode(ref))
    PROVE  /\ nodes' \in Seq(Row) /\ Len(nodes') = Len(nodes) + 1
           /\ \A i \in DOMAIN nodes : i \in DOMAIN nodes' /\ nodes'[i] = nodes[i]
           /\ nodes'[Len(nodes')] = NewNode(ref)
<1>1. NewNode(ref) \in Row
    BY DEF NewNode, Row, NodeStatus, Active
<1> QED BY <1>1, AppendProperties

\* A status set by hand or by an archive leaves the rest as it is.
LEMMA StatusSet ==
    ASSUME nodes \in Seq(Row), NEW i \in DOMAIN nodes, NEW s \in NodeStatus,
           nodes' = [nodes EXCEPT ![i].status = s]
    PROVE  /\ nodes' \in Seq(Row) /\ DOMAIN nodes' = DOMAIN nodes
           /\ nodes'[i].ref = nodes[i].ref /\ nodes'[i].status = s
           /\ \A j \in DOMAIN nodes \ {i} : nodes'[j] = nodes[j]
<1>1. i \in 1..Len(nodes) /\ nodes[i] \in Row
    OBVIOUS
<1>2. [nodes[i] EXCEPT !.status = s] \in Row
    BY <1>1 DEF Row
<1>3. nodes' = [nodes EXCEPT ![i] = [nodes[i] EXCEPT !.status = s]]
    OBVIOUS
<1>4. [nodes[i] EXCEPT !.status = s].ref = nodes[i].ref /\ [nodes[i] EXCEPT !.status = s].status = s
    BY <1>1 DEF Row
<1> DEFINE new == [nodes[i] EXCEPT !.status = s]
<1>5. nodes' \in Seq(Row) /\ Len(nodes') = Len(nodes)
      /\ \A j \in 1..Len(nodes) : nodes'[j] = IF j = i THEN new ELSE nodes[j]
  <2> HIDE DEF new
  <2>1. new \in Row /\ nodes' = [nodes EXCEPT ![i] = new]
      BY <1>2, <1>3 DEF new
  <2> QED BY <1>1, <2>1, ExceptSeq
<1>6. DOMAIN nodes = 1..Len(nodes) /\ DOMAIN nodes' = 1..Len(nodes)
    BY <1>5
<1> QED BY <1>1, <1>4, <1>5, <1>6

\* What a build, finished or not, makes of the rows: those there were, of
\* which none is active any more and the archived ones alone are archived,
\* and a new active one of each object listed.
LEMMA RebuiltRows ==
    ASSUME RowsTyped, NEW n \in Nat, NEW listing \in [1..n -> Confirmed], nodes' = Rebuilt(listing)
    PROVE  /\ nodes' \in Seq(Row) /\ Len(nodes') = Len(nodes) + n
           /\ \A i \in DOMAIN nodes : /\ i \in DOMAIN nodes'
                                      /\ nodes'[i].ref = nodes[i].ref
                                      /\ nodes[i].status = "archived" <=> nodes'[i].status = "archived"
                                      /\ nodes'[i].status \notin Active
           /\ \A i \in (Len(nodes) + 1)..Len(nodes') :
                  /\ i - Len(nodes) \in 1..n /\ nodes'[i].ref = listing[i - Len(nodes)]
                  /\ nodes'[i].ref \in Confirmed /\ nodes'[i].status = "active"
<1> DEFINE new == [i \in DOMAIN listing |-> NewNode(listing[i])]
<1>1. Confirmed \subseteq Refs
    BY DEF RowsTyped, Confirmed, Range, Refs
<1>2. \A c \in Confirmed : NewNode(c) \in Row
    BY <1>1 DEF NewNode, Row, NodeStatus, Active
<1>3. new \in [1..n -> Row]
    BY <1>2
<1>4. new \in Seq(Row) /\ Len(new) = n
    BY <1>3
<1>5. \A i \in DOMAIN nodes : nodes[i] \in Row
    BY DEF RowsTyped
<1>6. \A i \in DOMAIN nodes : /\ ClearedNodes[i] \in Row
                              /\ ClearedNodes[i].ref = nodes[i].ref
                              /\ nodes[i].status = "archived" <=> ClearedNodes[i].status = "archived"
                              /\ ClearedNodes[i].status \notin Active
    BY <1>5 DEF ClearedNodes, Row, Superseded, NodeStatus, Active
<1>7. DOMAIN ClearedNodes = 1..Len(nodes) /\ Len(nodes) \in Nat /\ DOMAIN nodes = 1..Len(nodes)
    BY DEF ClearedNodes, RowsTyped
<1>8. ClearedNodes \in [1..Len(nodes) -> Row]
    BY <1>6, <1>7 DEF ClearedNodes
<1>9. ClearedNodes \in Seq(Row) /\ Len(ClearedNodes) = Len(nodes)
    BY <1>7, <1>8
<1>10. nodes' = ClearedNodes \o new
    BY DEF Rebuilt
<1>11. /\ nodes' \in Seq(Row) /\ Len(nodes') = Len(nodes) + n
       /\ \A i \in 1..(Len(nodes) + n) :
              nodes'[i] = IF i <= Len(nodes) THEN ClearedNodes[i] ELSE new[i - Len(nodes)]
    BY <1>4, <1>9, <1>10, ConcatProperties
<1>12. \A i \in DOMAIN nodes : i \in DOMAIN nodes' /\ nodes'[i] = ClearedNodes[i]
  <2> HIDE DEF new
  <2>1. DOMAIN nodes' = 1..(Len(nodes) + n)
      BY <1>7, <1>11
  <2> QED BY <1>7, <1>11, <2>1
<1>13. ASSUME NEW i \in (Len(nodes) + 1)..Len(nodes')
       PROVE  /\ i - Len(nodes) \in 1..n /\ nodes'[i].ref = listing[i - Len(nodes)]
              /\ nodes'[i].ref \in Confirmed /\ nodes'[i].status = "active"
  <2>1. i - Len(nodes) \in 1..n /\ nodes'[i] = new[i - Len(nodes)]
      BY <1>7, <1>11
  <2>2. nodes'[i] = NewNode(listing[i - Len(nodes)]) /\ listing[i - Len(nodes)] \in Confirmed
      BY <2>1
  <2> QED BY <2>1, <2>2 DEF NewNode
<1> QED BY <1>6, <1>11, <1>12, <1>13

\* A listing names confirmed objects, and so does each of its prefixes.
LEMMA ListingTyped ==
    ASSUME RowsTyped, NEW listing \in Listings
    PROVE  /\ Len(listing) \in Nat
           /\ listing \in [1..Len(listing) -> Confirmed]
           /\ \A k \in 0..Len(listing) : SubSeq(listing, 1, k) \in [1..k -> Confirmed]
<1>1. IsFiniteSet(Rebuildable)
  <2>1. Rebuildable \subseteq Candidates
      BY DEF Rebuildable, Confirmed, RowsTyped, Range
  <2> QED BY <2>1, FS_Subset, GraphAssumption DEF GraphAssumption
<1>2. Cardinality(Rebuildable) \in Nat
    BY <1>1, FS_CardinalityType
<1>3. listing \in [1..Cardinality(Rebuildable) -> Confirmed]
    BY DEF Listings, Rebuildable
<1>4. listing \in Seq(Confirmed) /\ Len(listing) = Cardinality(Rebuildable)
    BY <1>2, <1>3
<1>5. ASSUME NEW k \in 0..Len(listing)
      PROVE  SubSeq(listing, 1, k) \in [1..k -> Confirmed]
  <2>1. k \in Nat /\ k <= Len(listing) /\ Len(listing) \in Nat
      BY <1>2, <1>4
  <2>2. SubSeq(listing, 1, k) = [j \in 1..k |-> listing[j]]
      BY <1>4, <2>1
  <2>3. \A j \in 1..k : listing[j] \in Confirmed
      BY <1>3, <1>4, <2>1
  <2> QED BY <2>2, <2>3
<1> QED BY <1>2, <1>3, <1>4, <1>5

\* A listing names each object that is to be built, once: two of one text
\* were not confirmed, and the order of the rows is strict.
LEMMA ListingOnto ==
    ASSUME RowsTyped, ConfirmedOnce, NEW listing \in Listings
    PROVE  /\ \A i \in 1..Len(listing) : listing[i] \in Rebuildable
           /\ \A i, j \in 1..Len(listing) : listing[i] = listing[j] => i = j
           /\ \A c \in Rebuildable : \E i \in 1..Len(listing) : listing[i] = c
<1> DEFINE n == Cardinality(Rebuildable)
<1>1. IsFiniteSet(Rebuildable) /\ n \in Nat
  <2>1. Rebuildable \subseteq Candidates
      BY DEF Rebuildable, Confirmed, RowsTyped, Range
  <2> QED BY <2>1, FS_Subset, FS_CardinalityType, GraphAssumption DEF GraphAssumption
<1>2. /\ listing \in [1..n -> Rebuildable]
      /\ \A i, j \in 1..n : i < j => ListedBefore(listing[i], listing[j])
    BY DEF Listings
<1>3. Len(listing) = n
    BY <1>1, <1>2
<1>4. \A c \in Candidates : ~ListedBefore(c, c)
    BY DEF ListedBefore, ConfirmedOnce, RowsTyped
<1>5. \A i, j \in 1..n : listing[i] = listing[j] => i = j
  <2>1. \A c \in Rebuildable : c \in Candidates
      BY DEF Rebuildable, Confirmed, RowsTyped, Range
  <2>2. \A i, j \in 1..n : listing[i] = listing[j] => ~(i < j) /\ ~(j < i)
      BY <1>2, <1>4, <2>1
  <2> HIDE DEF n
  <2> QED BY <1>1, <2>2
<1>6. listing \in Injection(1..n, Rebuildable)
    BY <1>2, <1>5 DEF Injection, IsInjective
<1>7. IsFiniteSet(1..n) /\ Cardinality(1..n) = n
    BY <1>1, FS_Interval
<1>8. listing \in Surjection(1..n, Rebuildable)
    BY <1>1, <1>6, <1>7, FS_Injection
<1> QED BY <1>2, <1>3, <1>5, <1>8 DEF Surjection
-----------------------------------------------------------------------------
(* Types and what is archived *)

LEMMA InitTyped == Init => RowsTyped
BY DEF Init, RowsTyped

\* What a step does to the rows: a finished or unfinished build is the only
\* one that makes several.
LEMMA BuildSteps ==
    ASSUME RowsTyped, NEW listing \in Listings, Build(listing) \/ BuildDies(listing)
    PROVE  /\ UNCHANGED <<candidate, objects>>
           /\ \/ nodes' = nodes
              \/ \E n \in Nat : /\ Len(nodes) + n <= MaxNodes
                                /\ \E l \in [1..n -> Confirmed] : nodes' = Rebuilt(l)
<1>1. /\ Len(listing) \in Nat /\ listing \in [1..Len(listing) -> Confirmed]
      /\ \A k \in 0..Len(listing) : SubSeq(listing, 1, k) \in [1..k -> Confirmed]
    BY ListingTyped
<1>2. Len(nodes) \in Nat /\ MaxNodes \in Nat /\ Len(nodes) + Len(listing) <= MaxNodes
    BY GraphAssumption DEF Build, BuildDies, RowsTyped
<1>3. CASE Build(listing)
    BY <1>1, <1>2, <1>3 DEF Build
<1>4. CASE BuildDies(listing)
  <2>1. UNCHANGED <<candidate, objects>>
      BY <1>4 DEF BuildDies
  <2>2. \/ nodes' = nodes \/ nodes' = Rebuilt(listing)
        \/ \E k \in 0..Len(listing) : nodes' = Rebuilt(SubSeq(listing, 1, k))
      BY <1>4 DEF BuildDies
  <2>3. ASSUME NEW k \in 0..Len(listing), nodes' = Rebuilt(SubSeq(listing, 1, k))
        PROVE  \E n \in Nat : /\ Len(nodes) + n <= MaxNodes
                              /\ \E l \in [1..n -> Confirmed] : nodes' = Rebuilt(l)
    <3>1. k \in Nat /\ SubSeq(listing, 1, k) \in [1..k -> Confirmed] /\ Len(nodes) + k <= MaxNodes
        BY <1>1, <1>2
    <3> QED BY <2>3, <3>1
  <2> QED BY <1>1, <1>2, <2>1, <2>2, <2>3
<1> QED BY <1>3, <1>4

\* Every step keeps the types, and every row its place, object and archived
\* status.
LEMMA NodesStep ==
    ASSUME RowsTyped, [GraphNext]_vars
    PROVE  /\ RowsTyped'
           /\ \A i \in DOMAIN nodes : /\ i \in DOMAIN nodes' /\ nodes'[i].ref = nodes[i].ref
                                      /\ nodes[i].status = "archived" => nodes'[i].status = "archived"
<1> DEFINE Kept == \A i \in DOMAIN nodes : /\ i \in DOMAIN nodes' /\ nodes'[i].ref = nodes[i].ref
                                           /\ nodes[i].status = "archived" => nodes'[i].status = "archived"
<1>1. ASSUME NEW c \in Candidates, Confirm(c) PROVE RowsTyped' /\ Kept
  <2>1. candidate' \in [Candidates -> {"pending", "confirmed", "rejected"}] /\ objects' \in Seq(Candidates)
      BY <1>1 DEF Confirm, RowsTyped
  <2>2. c \in Refs /\ nodes' = Append(nodes, NewNode(c))
      BY <1>1 DEF Confirm, Refs
  <2> QED BY <2>1, <2>2, Appended DEF RowsTyped
<1>2. ASSUME NEW c \in Candidates, Reject(c) PROVE RowsTyped' /\ Kept
    BY <1>2 DEF Reject, RowsTyped
<1>3. ASSUME NEW listing \in Listings, Build(listing) \/ BuildDies(listing) PROVE RowsTyped' /\ Kept
  <2>1. CASE nodes' = nodes
      BY <1>3, <2>1, BuildSteps DEF RowsTyped
  <2>2. ASSUME NEW n \in Nat, NEW l \in [1..n -> Confirmed], nodes' = Rebuilt(l)
        PROVE  RowsTyped' /\ Kept
      BY <1>3, <2>2, BuildSteps, RebuiltRows DEF RowsTyped
  <2> QED BY <1>3, <2>1, <2>2, BuildSteps
<1>4. ASSUME NEW ref \in Confirmed \cup ManualRefs, CreateNode(ref) PROVE RowsTyped' /\ Kept
  <2>1. ref \in Refs
      BY DEF Refs, Confirmed, Range, RowsTyped
  <2> QED BY <1>4, <2>1, Appended DEF CreateNode, RowsTyped
<1>5. ASSUME NEW i \in DOMAIN nodes, NEW s \in NodeStatus, PatchNode(i, s) PROVE RowsTyped' /\ Kept
    BY <1>5, StatusSet DEF PatchNode, MayPatch, RowsTyped
<1>6. ASSUME NEW i \in DOMAIN nodes, ArchiveNode(i) PROVE RowsTyped' /\ Kept
  <2>1. "archived" \in NodeStatus
      BY DEF NodeStatus
  <2> QED BY <1>6, <2>1, StatusSet DEF ArchiveNode, RowsTyped
<1>7. ASSUME UNCHANGED <<candidate, objects, nodes>> PROVE RowsTyped' /\ Kept
    BY <1>7 DEF RowsTyped
<1>8. ASSUME ByHand PROVE RowsTyped' /\ Kept
  <2>1. ASSUME NEW i, NEW j, CreateEdge(i, j) PROVE RowsTyped' /\ Kept
      BY <1>7, <2>1 DEF CreateEdge
  <2>2. ASSUME NEW e, (\E s \in EdgeStatus : PatchEdge(e, s)) \/ ArchiveEdge(e) PROVE RowsTyped' /\ Kept
      BY <1>7, <2>2 DEF PatchEdge, ArchiveEdge
  <2> HIDE DEF Kept
  <2> QED BY <1>4, <1>5, <1>6, <1>8, <2>1, <2>2 DEF ByHand, NodeStatusValues
<1> HIDE DEF Kept
<1>9. ASSUME GraphNext PROVE RowsTyped' /\ Kept
    BY <1>1, <1>2, <1>3, <1>8, <1>9 DEF GraphNext
<1>10. ASSUME UNCHANGED vars PROVE RowsTyped' /\ Kept
    BY <1>7, <1>10 DEF vars
<1> QED BY <1>9, <1>10 DEF Kept

\* A new row is one of a candidate or of an object made by hand, and there
\* are never more rows than the bound.
LEMMA NewRows ==
    ASSUME RowsTyped, Len(nodes) <= MaxNodes, [GraphNext]_vars
    PROVE  /\ Len(nodes') <= MaxNodes
           /\ \A i \in DOMAIN nodes' \ DOMAIN nodes : nodes'[i].ref \in Candidates \cup ManualRefs
<1> DEFINE Made == /\ Len(nodes') <= MaxNodes
                   /\ \A i \in DOMAIN nodes' \ DOMAIN nodes :
                          nodes'[i].ref \in Candidates \cup ManualRefs
<1>1. nodes \in Seq(Row) /\ Len(nodes) \in Nat /\ MaxNodes \in Nat /\ Confirmed \subseteq Candidates
    BY GraphAssumption DEF RowsTyped, Confirmed, Range
<1>2. ASSUME NEW ref \in Candidates \cup ManualRefs, Len(nodes) < MaxNodes,
             nodes' = Append(nodes, NewNode(ref))
      PROVE  Made
  <2>1. /\ nodes' \in Seq(Row) /\ Len(nodes') = Len(nodes) + 1
        /\ nodes'[Len(nodes')] = NewNode(ref)
      BY <1>1, <1>2, Appended DEF Refs
  <2>2. \A i \in DOMAIN nodes' \ DOMAIN nodes : i = Len(nodes')
      BY <1>1, <2>1
  <2> QED BY <1>1, <1>2, <2>1, <2>2 DEF NewNode
<1>3. ASSUME NEW listing \in Listings, Build(listing) \/ BuildDies(listing) PROVE Made
  <2>1. ASSUME NEW n \in Nat, NEW l \in [1..n -> Confirmed], nodes' = Rebuilt(l),
               Len(nodes) + n <= MaxNodes
        PROVE  Made
    <3>1. /\ nodes' \in Seq(Row) /\ Len(nodes') = Len(nodes) + n
          /\ \A i \in (Len(nodes) + 1)..Len(nodes') : nodes'[i].ref \in Confirmed
        BY <2>1, RebuiltRows
    <3>2. \A i \in DOMAIN nodes' \ DOMAIN nodes : i \in (Len(nodes) + 1)..Len(nodes')
        BY <1>1, <3>1
    <3> QED BY <1>1, <2>1, <3>1, <3>2
  <2> QED BY <1>1, <1>3, <2>1, BuildSteps
<1>4. ASSUME nodes' = nodes PROVE Made
    BY <1>4
<1>5. ASSUME NEW i \in DOMAIN nodes, NEW s \in NodeStatus, nodes' = [nodes EXCEPT ![i].status = s]
      PROVE  Made
  <2>1. nodes' \in Seq(Row) /\ DOMAIN nodes' = DOMAIN nodes
      BY <1>1, <1>5, StatusSet
  <2> QED BY <1>1, <2>1
<1> HIDE DEF Made
<1>6. ASSUME ByHand PROVE Made
  <2>1. "archived" \in NodeStatus
      BY DEF NodeStatus
  <2>2. \/ nodes' = nodes
        \/ \E ref \in Confirmed \cup ManualRefs :
              Len(nodes) < MaxNodes /\ nodes' = Append(nodes, NewNode(ref))
        \/ \E i \in DOMAIN nodes, s \in NodeStatus : nodes' = [nodes EXCEPT ![i].status = s]
      BY <1>6, <2>1 DEF ByHand, CreateNode, CreateEdge, PatchNode, PatchEdge, ArchiveNode,
                        ArchiveEdge, NodeStatusValues
  <2> QED BY <1>1, <1>2, <1>4, <1>5, <2>2
<1>7. ASSUME NEW c \in Candidates, Confirm(c) \/ Reject(c) PROVE Made
    BY <1>2, <1>4, <1>7 DEF Confirm, Reject
<1>8. UNCHANGED vars => Made
    BY <1>4 DEF vars
<1> QED BY <1>3, <1>6, <1>7, <1>8 DEF GraphNext, Made

-----------------------------------------------------------------------------
(* Edges *)

\* The ends of every edge are rows.
EndsExist == \A e \in DOMAIN edges : {e.from, e.to} \subseteq DOMAIN nodes

\* The edges a confirmation makes join active nodes, one of which is new.
LEMMA ConfirmedEdges ==
    ASSUME RowsTyped, NEW c \in Candidates, nodes' = Append(nodes, NewNode(c)),
           NEW e \in RelationEdges(nodes', objects', c)
                     \cup AnchorEdges(nodes', objects', c, Len(nodes'))
    PROVE  {e.from, e.to} \subseteq ActiveNodes(nodes') /\ Len(nodes') \in {e.from, e.to}
<1> DEFINE N == Len(nodes')
<1>1. /\ nodes' \in Seq(Row) /\ N \in Nat /\ DOMAIN nodes' = 1..N /\ N \in 1..N
      /\ nodes'[N] = NewNode(c)
  <2>1. c \in Refs
      BY DEF Refs
  <2> QED BY <2>1, Appended DEF RowsTyped
<1>2. N \in ActiveNodesOf(nodes', c) /\ N \in ActiveNodes(nodes')
    BY <1>1 DEF ActiveNodesOf, ActiveNodes, NewNode, Active
<1>3. ASSUME NEW d, ActiveNodesOf(nodes', d) # {}
      PROVE  /\ Greatest(ActiveNodesOf(nodes', d)) \in ActiveNodes(nodes')
             /\ d = c => Greatest(ActiveNodesOf(nodes', d)) = N
  <2> DEFINE S == ActiveNodesOf(nodes', d)
  <2>1. S \subseteq 1..N /\ S \subseteq ActiveNodes(nodes')
      BY <1>1 DEF ActiveNodesOf, ActiveNodes
  <2>2. Greatest(S) \in S /\ \A j \in S : j <= Greatest(S)
      BY <1>1, <1>3, <2>1, GreatestOfNats
  <2>3. d = c => N <= Greatest(S)
      BY <1>2, <2>2
  <2> QED BY <1>1, <2>1, <2>2, <2>3
<1>4. CASE e \in RelationEdges(nodes', objects', c)
  <2>1. PICK r \in DrawnRelations(nodes', objects', c) :
            e = Edge(Greatest(ActiveNodesOf(nodes', r.from)), Greatest(ActiveNodesOf(nodes', r.to)), "relation")
      BY <1>4 DEF RelationEdges
  <2>2. /\ c \in {r.from, r.to} /\ ActiveNodesOf(nodes', r.from) # {} /\ ActiveNodesOf(nodes', r.to) # {}
      BY <2>1 DEF DrawnRelations
  <2> QED BY <1>3, <2>1, <2>2 DEF Edge
<1>5. CASE e \in AnchorEdges(nodes', objects', c, N)
  <2> DEFINE S == {i \in ActiveNodes(nodes') \ {N} :
                      /\ nodes'[i].ref \in Range(objects')
                      /\ SourceOfObject(nodes'[i].ref) = SourceOfObject(c)}
             T == {i \in S : nodes'[i].ref \in Evidence}
  <2>1. S # {} /\ e = Edge(AnchorOf(nodes', S), N, "anchor")
      BY <1>5 DEF AnchorEdges
  <2>2. S \subseteq Nat /\ T \subseteq Nat /\ S \subseteq ActiveNodes(nodes')
      BY <1>1 DEF ActiveNodes
  <2>3. AnchorOf(nodes', S) = Least(IF T # {} THEN T ELSE S)
      BY DEF AnchorOf
  <2>4. AnchorOf(nodes', S) \in S
    <3> HIDE DEF S
    <3> QED BY <2>1, <2>2, <2>3, LeastOfNats
  <2> HIDE DEF S
  <2> QED BY <1>2, <2>1, <2>2, <2>4 DEF Edge
<1> QED BY <1>4, <1>5

\* The edges a build makes join rows of that build.
LEMMA BuiltEdges ==
    ASSUME NEW rows, NEW first \in Nat, Len(rows) \in Nat, NEW e \in RebuiltEdges(rows, first)
    PROVE  {e.from, e.to} \subseteq first..Len(rows)
<1> DEFINE built == first..Len(rows)
           node(c) == CHOOSE i \in built : rows[i].ref = c
           refs == {rows[i].ref : i \in built}
           sources == {SourceOfObject(c) : c \in refs} \ {SourceOf[b] : b \in RelatedBatches}
           of(s) == {i \in built : SourceOfObject(rows[i].ref) = s}
<1>1. \A c \in refs : node(c) \in built
    OBVIOUS
<1>2. ASSUME NEW s \in sources PROVE AnchorOf(rows, of(s)) \in built
  <2> DEFINE T == {i \in of(s) : rows[i].ref \in Evidence}
  <2>1. of(s) # {} /\ of(s) \subseteq built /\ T \subseteq built /\ built \subseteq Nat
      OBVIOUS
  <2>2. AnchorOf(rows, of(s)) = Least(IF T # {} THEN T ELSE of(s))
      BY DEF AnchorOf
  <2> HIDE DEF T, of, built
  <2> QED BY <2>1, <2>2, LeastOfNats
<1>3. \/ \E r \in Relations : {r.from, r.to} \subseteq refs /\ e = Edge(node(r.from), node(r.to), "relation")
      \/ \E s \in sources : \E i \in of(s) : e = Edge(AnchorOf(rows, of(s)), i, "anchor")
    BY DEF RebuiltEdges
<1>4. CASE \E r \in Relations : {r.from, r.to} \subseteq refs /\ e = Edge(node(r.from), node(r.to), "relation")
  <2> HIDE DEF refs, node, built
  <2> QED BY <1>1, <1>4 DEF Edge, built
<1>5. CASE \E s \in sources : \E i \in of(s) : e = Edge(AnchorOf(rows, of(s)), i, "anchor")
  <2>1. PICK s \in sources : \E i \in of(s) : e = Edge(AnchorOf(rows, of(s)), i, "anchor")
      BY <1>5
  <2>2. PICK i \in of(s) : e = Edge(AnchorOf(rows, of(s)), i, "anchor")
      BY <2>1
  <2>3. i \in built
      OBVIOUS
  <2> HIDE DEF built, of, sources
  <2> QED BY <1>2, <2>2, <2>3 DEF Edge, built
<1> QED BY <1>3, <1>4, <1>5

\* A build, finished or not, makes edges of its own rows only.
LEMMA BuildEdgesStep ==
    ASSUME RowsTyped, NEW listing \in Listings, Build(listing) \/ BuildDies(listing)
    PROVE  \E new : /\ \A e \in new : {e.from, e.to} \subseteq (Len(nodes) + 1)..Len(nodes')
                    /\ DOMAIN edges' = DOMAIN edges \cup new
                    /\ \A e \in DOMAIN edges' :
                           edges'[e] = IF e \in new THEN "active" ELSE Superseded(edges[e])
<1> DEFINE P(new) == /\ \A e \in new : {e.from, e.to} \subseteq (Len(nodes) + 1)..Len(nodes')
                     /\ DOMAIN edges' = DOMAIN edges \cup new
                     /\ \A e \in DOMAIN edges' :
                            edges'[e] = IF e \in new THEN "active" ELSE Superseded(edges[e])
           all == RebuiltEdges(nodes', Len(nodes) + 1)
<1>1. ASSUME edges' = ClearedEdges PROVE P({})
    BY <1>1 DEF ClearedEdges
<1>2. ASSUME nodes' = Rebuilt(listing), NEW new \in SUBSET all, edges' = WithEdges(ClearedEdges, new)
      PROVE  P(new)
  <2>1. Len(listing) \in Nat /\ listing \in [1..Len(listing) -> Confirmed] /\ Len(nodes) \in Nat
      BY ListingTyped DEF RowsTyped
  <2>2. Len(nodes') \in Nat
      BY <1>2, <2>1, RebuiltRows
  <2>3. \A e \in new : {e.from, e.to} \subseteq (Len(nodes) + 1)..Len(nodes')
      BY <2>1, <2>2, BuiltEdges
  <2>4. DOMAIN edges' = DOMAIN edges \cup new
      BY <1>2 DEF WithEdges, ClearedEdges
  <2>5. \A e \in DOMAIN edges' : edges'[e] = IF e \in new THEN "active" ELSE Superseded(edges[e])
      BY <1>2, <2>4 DEF WithEdges, ClearedEdges
  <2> QED BY <2>3, <2>4, <2>5
<1>3. CASE Build(listing)
  <2>1. nodes' = Rebuilt(listing) /\ edges' = WithEdges(ClearedEdges, all)
      BY <1>3 DEF Build
  <2> HIDE DEF P, all
  <2>2. P(all)
      BY <1>2, <2>1
  <2> QED BY <2>2 DEF P
<1>4. CASE BuildDies(listing)
  <2>1. \/ edges' = ClearedEdges
        \/ nodes' = Rebuilt(listing) /\ \E new \in SUBSET all : edges' = WithEdges(ClearedEdges, new)
      BY <1>4 DEF BuildDies
  <2> HIDE DEF P, all
  <2>2. \E new : P(new)
      BY <1>1, <1>2, <2>1
  <2> QED BY <2>2 DEF P
<1> QED BY <1>3, <1>4

KeptEdges == \A e \in DOMAIN edges :
                 e \in DOMAIN edges' /\ (edges[e] = "archived" => edges'[e] = "archived")
AllJoined == \A e \in ActiveEdges(edges) : {e.from, e.to} \subseteq ActiveNodes(nodes)

\* A confirmation keeps every edge, since the edges it makes end at its new
\* node, and joins active nodes.
LEMMA ConfirmKeepsEdges ==
    ASSUME RowsTyped, EndsExist, NEW c \in Candidates, Confirm(c)
    PROVE  EndsExist' /\ KeptEdges /\ (AllJoined => AllJoined')
<1> DEFINE new == RelationEdges(nodes', objects', c) \cup AnchorEdges(nodes', objects', c, Len(nodes'))
<1>1. edges' = WithEdges(edges, new) /\ nodes' = Append(nodes, NewNode(c))
    BY DEF Confirm
<1>2. /\ Len(nodes) \in Nat /\ DOMAIN nodes = 1..Len(nodes) /\ Len(nodes') = Len(nodes) + 1
      /\ \A i \in DOMAIN nodes : i \in DOMAIN nodes' /\ nodes'[i] = nodes[i]
  <2>1. c \in Refs
      BY DEF Refs
  <2> QED BY <1>1, <2>1, Appended DEF RowsTyped
<1>3. \A e \in new : {e.from, e.to} \subseteq ActiveNodes(nodes') /\ Len(nodes') \in {e.from, e.to}
    BY <1>1, ConfirmedEdges
<1>4. /\ DOMAIN edges' = DOMAIN edges \cup new
      /\ \A e \in DOMAIN edges' : edges'[e] = IF e \in new THEN "active" ELSE edges[e]
    BY <1>1 DEF WithEdges
<1> HIDE DEF new
<1>5. DOMAIN edges \cap new = {}
    BY <1>2, <1>3 DEF EndsExist
<1>6. ActiveNodes(nodes) \subseteq ActiveNodes(nodes') /\ ActiveNodes(nodes') \subseteq DOMAIN nodes'
    BY <1>2 DEF ActiveNodes
<1>7. EndsExist'
    BY <1>2, <1>3, <1>4, <1>6 DEF EndsExist
<1>8. KeptEdges
    BY <1>4, <1>5 DEF KeptEdges
<1>9. ASSUME AllJoined, NEW e \in ActiveEdges(edges')
      PROVE  {e.from, e.to} \subseteq ActiveNodes(nodes')
  <2>1. CASE e \in new
      BY <1>3, <2>1
  <2>2. CASE e \notin new
    <3>1. e \in ActiveEdges(edges)
        BY <1>4, <1>9, <2>2 DEF ActiveEdges
    <3> QED BY <1>6, <1>9, <3>1 DEF AllJoined
  <2> QED BY <2>1, <2>2
<1> QED BY <1>7, <1>8, <1>9 DEF AllJoined

\* A build keeps every edge too, and when it ends joins active nodes
\* whatever was before.
LEMMA BuildKeepsEdges ==
    ASSUME RowsTyped, EndsExist, NEW listing \in Listings, Build(listing) \/ BuildDies(listing)
    PROVE  EndsExist' /\ KeptEdges /\ (Build(listing) => AllJoined')
<1>1. PICK new : /\ \A e \in new : {e.from, e.to} \subseteq (Len(nodes) + 1)..Len(nodes')
                 /\ DOMAIN edges' = DOMAIN edges \cup new
                 /\ \A e \in DOMAIN edges' :
                        edges'[e] = IF e \in new THEN "active" ELSE Superseded(edges[e])
    BY BuildEdgesStep
<1>2. /\ nodes' \in Seq(Row) /\ Len(nodes) \in Nat /\ DOMAIN nodes = 1..Len(nodes)
      /\ \A i \in DOMAIN nodes : i \in DOMAIN nodes'
  <2>1. nodes \in Seq(Row)
      BY DEF RowsTyped
  <2>2. ASSUME NEW n \in Nat, NEW l \in [1..n -> Confirmed], nodes' = Rebuilt(l)
        PROVE  nodes' \in Seq(Row) /\ \A i \in DOMAIN nodes : i \in DOMAIN nodes'
      BY <2>2, RebuiltRows
  <2> QED BY <2>1, <2>2, BuildSteps
<1>3. DOMAIN nodes' = 1..Len(nodes') /\ Len(nodes') \in Nat
    BY <1>2
<1>4. DOMAIN edges \cap new = {}
    BY <1>1, <1>2 DEF EndsExist
<1>5. EndsExist'
    BY <1>1, <1>2, <1>3 DEF EndsExist
<1>6. KeptEdges
    BY <1>1, <1>4 DEF KeptEdges, Superseded
<1>7. ASSUME Build(listing), NEW e \in ActiveEdges(edges')
      PROVE  {e.from, e.to} \subseteq ActiveNodes(nodes')
  <2>1. e \in new
      BY <1>1 DEF ActiveEdges, Superseded, Active
  <2>2. \A i \in (Len(nodes) + 1)..Len(nodes') : nodes'[i].status = "active"
    <3>1. Len(listing) \in Nat /\ listing \in [1..Len(listing) -> Confirmed] /\ nodes' = Rebuilt(listing)
        BY <1>7, ListingTyped DEF Build
    <3> QED BY <3>1, RebuiltRows
  <2> QED BY <1>1, <1>2, <1>3, <2>1, <2>2 DEF ActiveNodes, Active
<1> QED BY <1>5, <1>6, <1>7 DEF AllJoined

\* By hand an edge is made only where there is none and an archived one is
\* left alone.
LEMMA HandKeepsEdges ==
    ASSUME RowsTyped, EndsExist, ByHand
    PROVE  EndsExist' /\ KeptEdges /\ touched'
<1>1. \A i \in DOMAIN nodes : i \in DOMAIN nodes'
  <2>1. GraphNext
      BY DEF GraphNext
  <2> QED BY <2>1, NodesStep
<1>2. touched'
    BY DEF ByHand, CreateNode, CreateEdge, PatchNode, PatchEdge, ArchiveNode, ArchiveEdge, Edit
<1>3. ASSUME edges' = edges PROVE EndsExist' /\ KeptEdges
    BY <1>1, <1>3 DEF EndsExist, KeptEdges
<1>4. ASSUME NEW i \in DOMAIN nodes, NEW j \in DOMAIN nodes, CreateEdge(i, j)
      PROVE  EndsExist' /\ KeptEdges
  <2> DEFINE e == Edge(i, j, "manual")
  <2>1. /\ e \notin DOMAIN edges /\ edges' = WithEdges(edges, {e}) /\ nodes' = nodes
        /\ e.from = i /\ e.to = j
      BY <1>4 DEF CreateEdge, Edge
  <2> HIDE DEF e
  <2> QED BY <2>1 DEF EndsExist, KeptEdges, WithEdges
<1>5. ASSUME NEW e \in DOMAIN edges, NEW s, edges' = [edges EXCEPT ![e] = s],
             edges[e] # "archived" \/ s = "archived"
      PROVE  EndsExist' /\ KeptEdges
    BY <1>1, <1>5 DEF EndsExist, KeptEdges
<1>6. ASSUME NEW e \in DOMAIN edges, NEW s \in EdgeStatus, PatchEdge(e, s) PROVE EndsExist' /\ KeptEdges
    BY <1>5, <1>6 DEF PatchEdge, MayPatch
<1>7. ASSUME NEW e \in DOMAIN edges, ArchiveEdge(e) PROVE EndsExist' /\ KeptEdges
    BY <1>5, <1>7 DEF ArchiveEdge
<1>8. \/ edges' = edges
      \/ \E i, j \in DOMAIN nodes : CreateEdge(i, j)
      \/ \E e \in DOMAIN edges : (\E s \in EdgeStatus : PatchEdge(e, s)) \/ ArchiveEdge(e)
    BY DEF ByHand, CreateNode, PatchNode, ArchiveNode
<1> QED BY <1>2, <1>3, <1>4, <1>6, <1>7, <1>8

\* Init and every step keep the edges between rows, each edge that is there
\* and archived, and, without an edit since the last build, the join.
LEMMA EdgesStep ==
    ASSUME RowsTyped, EndsExist, EdgesJoinActiveNodes, [GraphNext]_vars
    PROVE  EndsExist' /\ KeptEdges /\ EdgesJoinActiveNodes'
<1>1. ASSUME NEW c \in Candidates, Confirm(c) PROVE EndsExist' /\ KeptEdges /\ EdgesJoinActiveNodes'
  <2>1. touched' = touched
      BY <1>1 DEF Confirm
  <2> QED BY <1>1, <2>1, ConfirmKeepsEdges DEF EdgesJoinActiveNodes, AllJoined
<1>2. ASSUME NEW listing \in Listings, Build(listing) \/ BuildDies(listing)
      PROVE  EndsExist' /\ KeptEdges /\ EdgesJoinActiveNodes'
  <2>1. BuildDies(listing) => touched'
      BY DEF BuildDies
  <2> QED BY <1>2, <2>1, BuildKeepsEdges DEF EdgesJoinActiveNodes, AllJoined
<1>3. ASSUME ByHand PROVE EndsExist' /\ KeptEdges /\ EdgesJoinActiveNodes'
    BY <1>3, HandKeepsEdges DEF EdgesJoinActiveNodes
<1>4. ASSUME UNCHANGED <<nodes, edges, touched>> PROVE EndsExist' /\ KeptEdges /\ EdgesJoinActiveNodes'
    BY <1>4 DEF EndsExist, KeptEdges, EdgesJoinActiveNodes, ActiveEdges, ActiveNodes
<1>5. ASSUME NEW c \in Candidates, Reject(c) PROVE UNCHANGED <<nodes, edges, touched>>
    BY <1>5 DEF Reject
<1>6. UNCHANGED vars => UNCHANGED <<nodes, edges, touched>>
    BY DEF vars
<1> QED BY <1>1, <1>2, <1>3, <1>4, <1>5, <1>6 DEF GraphNext

\* Only a confirmation touches what ConfirmedOnce is about.
LEMMA ConfirmedOnceStep ==
    ASSUME RowsTyped, ConfirmedOnce, [GraphNext]_vars
    PROVE  ConfirmedOnce'
<1>1. ASSUME NEW c \in Candidates, Confirm(c) PROVE ConfirmedOnce'
  <2>1. /\ candidate[c] = "pending" /\ ~Conflicting(c)
        /\ candidate' = [candidate EXCEPT ![c] = "confirmed"] /\ objects' = Append(objects, c)
      BY <1>1 DEF Confirm
  <2>2. /\ Len(objects) \in Nat /\ DOMAIN objects = 1..Len(objects)
        /\ DOMAIN objects' = 1..(Len(objects) + 1)
        /\ \A i \in 1..Len(objects) : objects'[i] = objects[i]
        /\ objects'[Len(objects) + 1] = c
      BY <2>1 DEF RowsTyped
  <2>3. \A d \in Candidates : d \in Confirmed' <=> d \in Confirmed \/ d = c
      BY <2>2 DEF Confirmed, Range
  <2>4. \A d \in Candidates : candidate'[d] = "confirmed" <=> d \in Confirmed'
      BY <2>1, <2>3 DEF ConfirmedOnce, RowsTyped
  <2>5. \A i \in 1..Len(objects) : TextOf[objects[i]] # TextOf[c]
      BY <2>1, <2>2 DEF Conflicting, Confirmed, Range
  <2>6. \A i, j \in DOMAIN objects' : i # j => TextOf[objects'[i]] # TextOf[objects'[j]]
      BY <2>2, <2>5 DEF ConfirmedOnce
  <2> QED BY <2>4, <2>6 DEF ConfirmedOnce
<1>2. ASSUME NEW c \in Candidates, Reject(c) PROVE ConfirmedOnce'
    BY <1>2 DEF Reject, ConfirmedOnce, RowsTyped, Confirmed
<1>3. ASSUME UNCHANGED <<candidate, objects>> PROVE ConfirmedOnce'
    BY <1>3 DEF ConfirmedOnce, Confirmed
<1>4. ASSUME NEW listing \in Listings, Build(listing) \/ BuildDies(listing)
      PROVE  UNCHANGED <<candidate, objects>>
    BY <1>4, BuildSteps
<1>5. ByHand => UNCHANGED <<candidate, objects>>
    BY DEF ByHand, CreateNode, CreateEdge, PatchNode, PatchEdge, ArchiveNode, ArchiveEdge
<1>6. UNCHANGED vars => UNCHANGED <<candidate, objects>>
    BY DEF vars
<1> QED BY <1>1, <1>2, <1>3, <1>4, <1>5, <1>6 DEF GraphNext

-----------------------------------------------------------------------------
(* One active row for each object.  A row of a candidate is of a confirmed   *)
(* one, so a confirmation is never late to a row that is there already.      *)

RefsConfirmed == \A i \in DOMAIN nodes : nodes[i].ref \in Candidates => nodes[i].ref \in Confirmed

\* The active rows are those of the objects a build would list, one each.
RowPerObject ==
    /\ \A i \in ActiveNodes(nodes) : nodes[i].ref \in Rebuildable
    /\ \A i, j \in ActiveNodes(nodes) : nodes[i].ref = nodes[j].ref => i = j
    /\ \A c \in Rebuildable : \E i \in ActiveNodes(nodes) : nodes[i].ref = c

RowsMatch == ~touched => RowPerObject

\* A confirmation adds an active row of an object that had none.
LEMMA ConfirmedRow ==
    ASSUME RowsTyped, ConfirmedOnce, RefsConfirmed, NEW c \in Candidates, Confirm(c)
    PROVE  /\ Len(nodes') \in Nat /\ Len(nodes') \notin DOMAIN nodes
           /\ DOMAIN nodes' = DOMAIN nodes \cup {Len(nodes')}
           /\ nodes'[Len(nodes')] = NewNode(c)
           /\ \A i \in DOMAIN nodes : nodes'[i] = nodes[i] /\ nodes[i].ref # c
           /\ ActiveNodes(nodes') = ActiveNodes(nodes) \cup {Len(nodes')}
           /\ Confirmed' = Confirmed \cup {c}
           /\ Rebuildable' = Rebuildable \cup {c}
<1> DEFINE n == Len(nodes')
<1>1. /\ candidate[c] = "pending" /\ objects' = Append(objects, c)
      /\ nodes' = Append(nodes, NewNode(c))
    BY DEF Confirm
<1>2. /\ n = Len(nodes) + 1 /\ Len(nodes) \in Nat /\ DOMAIN nodes = 1..Len(nodes)
      /\ DOMAIN nodes' = 1..n /\ nodes'[n] = NewNode(c)
      /\ \A i \in DOMAIN nodes : nodes'[i] = nodes[i]
  <2>1. c \in Refs
      BY DEF Refs
  <2> QED BY <1>1, <2>1, Appended DEF RowsTyped
<1>3. n \in Nat /\ n \notin DOMAIN nodes /\ DOMAIN nodes' = DOMAIN nodes \cup {n}
  <2> HIDE DEF n
  <2> QED BY <1>2
<1>4. Confirmed' = Confirmed \cup {c}
  <2>1. /\ Len(objects) \in Nat /\ DOMAIN objects = 1..Len(objects)
        /\ DOMAIN objects' = 1..(Len(objects) + 1)
        /\ \A i \in 1..Len(objects) : objects'[i] = objects[i]
        /\ objects'[Len(objects) + 1] = c
      BY <1>1 DEF RowsTyped
  <2>2. \A d : d \in Confirmed' <=> d \in Confirmed \/ d = c
      BY <2>1 DEF Confirmed, Range
  <2> QED BY <2>2
<1>5. \A i \in DOMAIN nodes : nodes[i].ref # c
    BY <1>1 DEF ConfirmedOnce, RefsConfirmed
<1> HIDE DEF n
<1>6. ActiveNodes(nodes') = ActiveNodes(nodes) \cup {n}
    BY <1>2, <1>3 DEF ActiveNodes, NewNode, Active
<1>7. ArchivedRefs(nodes') = ArchivedRefs(nodes) /\ c \notin ArchivedRefs(nodes)
  <2>1. {i \in DOMAIN nodes' : nodes'[i].status = "archived"} = {i \in DOMAIN nodes : nodes[i].status = "archived"}
      BY <1>2, <1>3 DEF NewNode
  <2> QED BY <1>2, <1>5, <2>1 DEF ArchivedRefs
<1>8. Rebuildable' = Rebuildable \cup {c}
    BY <1>4, <1>7 DEF Rebuildable
<1> QED BY <1>2, <1>3, <1>4, <1>5, <1>6, <1>8 DEF n

\* After a build its own rows are the active ones, and there is one for each
\* object without an archived row, whatever was done to the rows before.
LEMMA BuiltRows ==
    ASSUME RowsTyped, ConfirmedOnce, NEW listing \in Listings, Build(listing)
    PROVE  /\ ActiveNodes(nodes') = (Len(nodes) + 1)..Len(nodes')
           /\ RowPerObject'
<1> DEFINE n == Len(listing)
<1>1. n \in Nat /\ listing \in [1..n -> Confirmed] /\ nodes' = Rebuilt(listing)
    BY ListingTyped DEF Build
<1>2. /\ nodes' \in Seq(Row) /\ Len(nodes) \in Nat /\ DOMAIN nodes = 1..Len(nodes)
      /\ Len(nodes') = Len(nodes) + n /\ DOMAIN nodes' = 1..Len(nodes')
      /\ \A i \in DOMAIN nodes : /\ nodes'[i].ref = nodes[i].ref
                                 /\ nodes[i].status = "archived" <=> nodes'[i].status = "archived"
                                 /\ nodes'[i].status \notin Active
      /\ \A i \in (Len(nodes) + 1)..Len(nodes') :
             /\ i - Len(nodes) \in 1..n /\ nodes'[i].ref = listing[i - Len(nodes)]
             /\ nodes'[i].status = "active"
    BY <1>1, RebuiltRows DEF RowsTyped
<1>3. /\ \A i \in 1..n : listing[i] \in Rebuildable
      /\ \A i, j \in 1..n : listing[i] = listing[j] => i = j
      /\ \A c \in Rebuildable : \E i \in 1..n : listing[i] = c
    BY ListingOnto
<1> HIDE DEF n
<1>4. ActiveNodes(nodes') = (Len(nodes) + 1)..Len(nodes')
    BY <1>1, <1>2 DEF ActiveNodes, Active
<1>5. Rebuildable' = Rebuildable
  <2>1. {i \in DOMAIN nodes' : nodes'[i].status = "archived"} = {i \in DOMAIN nodes : nodes[i].status = "archived"}
      BY <1>1, <1>2
  <2>2. ArchivedRefs(nodes') = ArchivedRefs(nodes)
      BY <1>2, <2>1 DEF ArchivedRefs
  <2> QED BY <2>2 DEF Rebuildable, Confirmed, Build
<1>6. ASSUME NEW i \in ActiveNodes(nodes') PROVE nodes'[i].ref \in Rebuildable
    BY <1>2, <1>3, <1>4, <1>6
<1>7. ASSUME NEW i \in ActiveNodes(nodes'), NEW j \in ActiveNodes(nodes'), nodes'[i].ref = nodes'[j].ref
      PROVE  i = j
  <2>1. i - Len(nodes) = j - Len(nodes)
      BY <1>2, <1>3, <1>4, <1>7
  <2> QED BY <1>2, <1>4, <2>1
<1>8. ASSUME NEW c \in Rebuildable PROVE \E i \in ActiveNodes(nodes') : nodes'[i].ref = c
  <2>1. PICK k \in 1..n : listing[k] = c
      BY <1>3
  <2>2. k + Len(nodes) \in (Len(nodes) + 1)..Len(nodes') /\ (k + Len(nodes)) - Len(nodes) = k
      BY <1>1, <1>2
  <2> QED BY <1>2, <1>4, <2>1, <2>2
<1> QED BY <1>4, <1>5, <1>6, <1>7, <1>8 DEF RowPerObject

\* Rows stay of confirmed candidates, and one to an object until an edit.
LEMMA RowsMatchStep ==
    ASSUME RowsTyped, ConfirmedOnce, RefsConfirmed, RowsMatch, [GraphNext]_vars
    PROVE  RefsConfirmed' /\ RowsMatch'
<1>1. ASSUME NEW c \in Candidates, Confirm(c) PROVE RefsConfirmed' /\ RowsMatch'
  <2>1. nodes'[Len(nodes')].ref = c
    <3>1. nodes'[Len(nodes')] = NewNode(c)
        BY <1>1, ConfirmedRow
    <3> QED BY <3>1 DEF NewNode
  <2>2. RefsConfirmed'
      BY <1>1, <2>1, ConfirmedRow DEF RefsConfirmed
  <2>3. ActiveNodes(nodes) \subseteq DOMAIN nodes
      BY DEF ActiveNodes
  <2>4. RowPerObject => RowPerObject'
      BY <1>1, <2>1, <2>3, ConfirmedRow DEF RowPerObject
  <2> QED BY <1>1, <2>2, <2>4 DEF RowsMatch, Confirm
<1>2. ASSUME NEW listing \in Listings, Build(listing) \/ BuildDies(listing)
      PROVE  RefsConfirmed' /\ RowsMatch'
  <2>1. UNCHANGED <<candidate, objects>> /\ Confirmed' = Confirmed
      BY <1>2, BuildSteps DEF Confirmed
  <2>2. ASSUME NEW n \in Nat, NEW l \in [1..n -> Confirmed], nodes' = Rebuilt(l) PROVE RefsConfirmed'
    <3>1. /\ nodes' \in Seq(Row) /\ Len(nodes) \in Nat /\ DOMAIN nodes = 1..Len(nodes)
          /\ DOMAIN nodes' = 1..Len(nodes') /\ Len(nodes') = Len(nodes) + n
          /\ \A i \in DOMAIN nodes : nodes'[i].ref = nodes[i].ref
          /\ \A i \in (Len(nodes) + 1)..Len(nodes') : nodes'[i].ref \in Confirmed
        BY <2>2, RebuiltRows DEF RowsTyped
    <3>2. \A i \in DOMAIN nodes' : i \in DOMAIN nodes \/ i \in (Len(nodes) + 1)..Len(nodes')
        BY <3>1
    <3> QED BY <2>1, <3>1, <3>2 DEF RefsConfirmed
  <2>3. RefsConfirmed'
      BY <1>2, <2>1, <2>2, BuildSteps DEF RefsConfirmed
  <2>4. BuildDies(listing) => touched'
      BY DEF BuildDies
  <2> QED BY <1>2, <2>3, <2>4, BuiltRows DEF RowsMatch
<1>3. ASSUME ByHand PROVE RefsConfirmed' /\ RowsMatch'
  <2>1. touched' /\ Confirmed' = Confirmed
      BY <1>3 DEF ByHand, CreateNode, CreateEdge, PatchNode, PatchEdge, ArchiveNode, ArchiveEdge,
                  Edit, Confirmed
  <2>2. nodes \in Seq(Row) /\ "archived" \in NodeStatus
      BY DEF RowsTyped, NodeStatus
  <2>3. ASSUME NEW ref \in Confirmed \cup ManualRefs, nodes' = Append(nodes, NewNode(ref))
        PROVE  RefsConfirmed'
    <3>1. ref \in Refs
        BY DEF Refs, Confirmed, Range, RowsTyped
    <3>2. /\ nodes' \in Seq(Row) /\ Len(nodes') = Len(nodes) + 1
          /\ \A i \in DOMAIN nodes : nodes'[i] = nodes[i]
          /\ nodes'[Len(nodes')].ref = ref
        BY <2>2, <2>3, <3>1, Appended DEF NewNode
    <3>3. \A i \in DOMAIN nodes' : i \in DOMAIN nodes \/ i = Len(nodes')
        BY <2>2, <3>2
    <3>4. ref \in Candidates => ref \in Confirmed
        BY GraphAssumption DEF GraphAssumption
    <3> QED BY <2>1, <3>2, <3>3, <3>4 DEF RefsConfirmed
  <2>4. ASSUME NEW i \in DOMAIN nodes, NEW s \in NodeStatus, nodes' = [nodes EXCEPT ![i].status = s]
        PROVE  RefsConfirmed'
    <3>1. DOMAIN nodes' = DOMAIN nodes /\ \A j \in DOMAIN nodes : nodes'[j].ref = nodes[j].ref
        BY <2>2, <2>4, StatusSet
    <3> QED BY <2>1, <3>1 DEF RefsConfirmed
  <2>5. nodes' = nodes => RefsConfirmed'
      BY <2>1 DEF RefsConfirmed
  <2>6. \/ nodes' = nodes
        \/ \E ref \in Confirmed \cup ManualRefs : nodes' = Append(nodes, NewNode(ref))
        \/ \E i \in DOMAIN nodes, s \in NodeStatus : nodes' = [nodes EXCEPT ![i].status = s]
      BY <1>3, <2>2 DEF ByHand, CreateNode, CreateEdge, PatchNode, PatchEdge, ArchiveNode,
                        ArchiveEdge, NodeStatusValues
  <2> QED BY <2>1, <2>3, <2>4, <2>5, <2>6 DEF RowsMatch
<1>4. ASSUME UNCHANGED <<objects, nodes, touched>> PROVE RefsConfirmed' /\ RowsMatch'
    BY <1>4 DEF RefsConfirmed, RowsMatch, RowPerObject, ActiveNodes, Rebuildable, ArchivedRefs, Confirmed
<1>5. ASSUME NEW c \in Candidates, Reject(c) PROVE UNCHANGED <<objects, nodes, touched>>
    BY <1>5 DEF Reject
<1>6. UNCHANGED vars => UNCHANGED <<objects, nodes, touched>>
    BY DEF vars
<1> QED BY <1>1, <1>2, <1>3, <1>4, <1>5, <1>6 DEF GraphNext

\* Said with cardinalities.
LEMMA OneRowEach == ASSUME RowsTyped, RowsMatch PROVE OneActiveRow
<1> SUFFICES ASSUME ~touched, NEW ref \in Refs
             PROVE  Cardinality(ActiveNodesOf(nodes, ref)) = IF ref \in Rebuildable THEN 1 ELSE 0
    BY DEF OneActiveRow, Rebuildable
<1>1. RowPerObject
    BY DEF RowsMatch
<1>2. CASE ref \in Rebuildable
  <2>1. PICK i \in ActiveNodes(nodes) : nodes[i].ref = ref
      BY <1>1, <1>2 DEF RowPerObject
  <2>2. ActiveNodesOf(nodes, ref) = {i}
      BY <1>1, <2>1 DEF RowPerObject, ActiveNodesOf
  <2> QED BY <1>2, <2>2, FS_Singleton
<1>3. CASE ref \notin Rebuildable
  <2>1. ActiveNodesOf(nodes, ref) = {}
      BY <1>1, <1>3 DEF RowPerObject, ActiveNodesOf
  <2> QED BY <1>3, <2>1, FS_EmptySet
<1> QED BY <1>2, <1>3

-----------------------------------------------------------------------------
(* Relations are drawn whichever end comes last. *)

\* Every resolved relation between two active rows is an active edge.
AllDrawn ==
    \A r \in Relations : \A i \in ActiveNodesOf(nodes, r.from), j \in ActiveNodesOf(nodes, r.to) :
        r.from # r.to => Edge(i, j, "relation") \in ActiveEdges(edges)

\* A confirmation draws the relations of its object; those between older
\* rows were drawn before, and stay.
LEMMA ConfirmDraws ==
    ASSUME RowsTyped, ConfirmedOnce, RefsConfirmed, RowPerObject, AllDrawn,
           NEW c \in Candidates, Confirm(c)
    PROVE  AllDrawn'
<1> DEFINE n == Len(nodes')
           drawn == RelationEdges(nodes', objects', c)
           new == drawn \cup AnchorEdges(nodes', objects', c, n)
<1>0. RowPerObject'
  <2>1. RefsConfirmed' /\ RowsMatch'
    <3>1. [GraphNext]_vars
        BY DEF GraphNext
    <3>2. RowsMatch
        BY DEF RowsMatch
    <3> QED BY <3>1, <3>2, RowsMatchStep
  <2>2. ActiveNodes(nodes) \subseteq DOMAIN nodes
      BY DEF ActiveNodes
  <2>3. nodes'[n].ref = c
    <3>1. nodes'[n] = NewNode(c)
        BY ConfirmedRow
    <3> QED BY <3>1 DEF NewNode
  <2> HIDE DEF n
  <2> QED BY <2>2, <2>3, ConfirmedRow DEF RowPerObject, n
<1>1. /\ \A e \in DOMAIN edges : e \in ActiveEdges(edges) => e \in ActiveEdges(edges')
      /\ \A e \in new : e \in ActiveEdges(edges')
  <2>1. edges' = WithEdges(edges, new)
      BY DEF Confirm
  <2> HIDE DEF new
  <2> QED BY <2>1 DEF WithEdges, ActiveEdges, Active
<1>2. ASSUME NEW r \in Relations, NEW i \in ActiveNodesOf(nodes', r.from),
             NEW j \in ActiveNodesOf(nodes', r.to), r.from # r.to
      PROVE  Edge(i, j, "relation") \in ActiveEdges(edges')
  <2>1. CASE c \in {r.from, r.to}
    <3>1. ActiveNodesOf(nodes', r.from) = {i} /\ ActiveNodesOf(nodes', r.to) = {j}
        BY <1>0, <1>2 DEF RowPerObject, ActiveNodesOf
    <3>2. {r.from, r.to} \subseteq Range(objects')
      <4>1. r.from \in Rebuildable' /\ r.to \in Rebuildable'
          BY <1>0, <1>2 DEF RowPerObject, ActiveNodesOf
      <4> QED BY <4>1 DEF Rebuildable, Confirmed
    <3>3. r \in DrawnRelations(nodes', objects', c)
        BY <1>2, <2>1, <3>1, <3>2 DEF DrawnRelations
    <3>4. Greatest({i}) = i /\ Greatest({j}) = j
      <4>1. i \in Nat /\ j \in Nat
        <5>1. nodes' \in Seq(Row)
          <6>1. [GraphNext]_vars
              BY DEF GraphNext
          <6> QED BY <6>1, NodesStep DEF RowsTyped
        <5> QED BY <5>1 DEF ActiveNodesOf, ActiveNodes
      <4> QED BY <4>1 DEF Greatest
    <3>5. Edge(i, j, "relation") \in drawn
        BY <3>1, <3>3, <3>4 DEF RelationEdges
    <3> QED BY <1>1, <3>5
  <2>2. CASE c \notin {r.from, r.to}
    <3>1. nodes'[n].ref = c
      <4>1. nodes'[n] = NewNode(c)
          BY ConfirmedRow
      <4> QED BY <4>1 DEF NewNode
    <3>2. /\ \A k \in DOMAIN nodes : nodes'[k] = nodes[k]
          /\ ActiveNodes(nodes') = ActiveNodes(nodes) \cup {n}
        BY ConfirmedRow
    <3> HIDE DEF n
    <3>3. i \in ActiveNodesOf(nodes, r.from) /\ j \in ActiveNodesOf(nodes, r.to)
        BY <1>2, <2>2, <3>1, <3>2 DEF ActiveNodesOf, ActiveNodes
    <3>4. Edge(i, j, "relation") \in ActiveEdges(edges)
        BY <1>2, <3>3 DEF AllDrawn
    <3> QED BY <1>1, <3>4 DEF ActiveEdges
  <2> QED BY <2>1, <2>2
<1> HIDE DEF n, drawn, new
<1> QED BY <1>2 DEF AllDrawn

\* A build draws the relations of its rows, the only active ones.
LEMMA BuildDraws ==
    ASSUME RowsTyped, ConfirmedOnce, NEW listing \in Listings, Build(listing)
    PROVE  AllDrawn'
<1> DEFINE first == Len(nodes) + 1
           built == first..Len(nodes')
           node(c) == CHOOSE i \in built : nodes'[i].ref = c
           refs == {nodes'[i].ref : i \in built}
           new == RebuiltEdges(nodes', first)
<1>1. ActiveNodes(nodes') = built /\ RowPerObject'
    BY BuiltRows
<1>2. \A e \in new : e \in ActiveEdges(edges')
  <2>1. edges' = WithEdges(ClearedEdges, new)
      BY DEF Build
  <2> HIDE DEF new
  <2> QED BY <2>1 DEF WithEdges, ActiveEdges, Active
<1>3. ASSUME NEW r \in Relations, NEW i \in ActiveNodesOf(nodes', r.from),
             NEW j \in ActiveNodesOf(nodes', r.to), r.from # r.to
      PROVE  Edge(i, j, "relation") \in ActiveEdges(edges')
  <2>1. i \in built /\ j \in built /\ nodes'[i].ref = r.from /\ nodes'[j].ref = r.to
      BY <1>1 DEF ActiveNodesOf
  <2>2. \A k, l \in built : nodes'[k].ref = nodes'[l].ref => k = l
      BY <1>1 DEF RowPerObject
  <2>3. node(r.from) = i /\ node(r.to) = j
    <3> HIDE DEF built
    <3> QED BY <2>1, <2>2
  <2>4. {r.from, r.to} \subseteq refs
      BY <2>1
  <2>5. Edge(node(r.from), node(r.to), "relation") \in new
      BY <2>4 DEF RebuiltEdges
  <2> HIDE DEF new, node
  <2> QED BY <1>2, <2>3, <2>5
<1> QED BY <1>3 DEF AllDrawn

\* So they are drawn until an edit.
LEMMA DrawnStep ==
    ASSUME RowsTyped, ConfirmedOnce, RefsConfirmed, RowsMatch, RelationsDrawn, [GraphNext]_vars
    PROVE  RelationsDrawn'
<1>0. (RelationsDrawn <=> (~touched => AllDrawn)) /\ (RelationsDrawn' <=> (~touched' => AllDrawn'))
    BY DEF RelationsDrawn, AllDrawn
<1>1. ASSUME NEW c \in Candidates, Confirm(c) PROVE RelationsDrawn'
  <2>1. touched' = touched
      BY <1>1 DEF Confirm
  <2> QED BY <1>0, <1>1, <2>1, ConfirmDraws DEF RowsMatch
<1>2. ASSUME NEW listing \in Listings, Build(listing) \/ BuildDies(listing) PROVE RelationsDrawn'
  <2>1. BuildDies(listing) => touched'
      BY DEF BuildDies
  <2> QED BY <1>0, <1>2, <2>1, BuildDraws
<1>3. ASSUME ByHand PROVE RelationsDrawn'
  <2>1. touched'
      BY <1>3 DEF ByHand, CreateNode, CreateEdge, PatchNode, PatchEdge, ArchiveNode, ArchiveEdge, Edit
  <2> QED BY <2>1 DEF RelationsDrawn
<1>4. ASSUME UNCHANGED <<nodes, edges, touched>> PROVE RelationsDrawn'
    BY <1>4 DEF RelationsDrawn, ActiveNodesOf, ActiveNodes, ActiveEdges
<1>5. ASSUME NEW c \in Candidates, Reject(c) PROVE UNCHANGED <<nodes, edges, touched>>
    BY <1>5 DEF Reject
<1>6. UNCHANGED vars => UNCHANGED <<nodes, edges, touched>>
    BY DEF vars
<1> QED BY <1>1, <1>2, <1>3, <1>4, <1>5, <1>6 DEF GraphNext

-----------------------------------------------------------------------------
(* Counts.  A build writes the number of the rows it made, a confirmation    *)
(* counts all: between edits the two are the same number.                    *)

\* As many as there are: rows made one after the other.
LEMMA MadeInARow ==
    ASSUME NEW a \in Nat, NEW n \in Nat PROVE Cardinality((a + 1)..(a + n)) = n
<1>1. a + 1 \in Int /\ a + n \in Int
    OBVIOUS
<1>2. Cardinality((a + 1)..(a + n)) = IF a + 1 > a + n THEN 0 ELSE (a + n) - (a + 1) + 1
    BY ONLY <1>1, FS_Interval
<1> QED BY <1>2

\* What a build makes is all that is active after it.
LEMMA BuiltCounts ==
    ASSUME RowsTyped, ConfirmedOnce, NEW listing \in Listings, Build(listing)
    PROVE  workspace' = ActiveRows(versions', nodes', edges')
<1> DEFINE new == RebuiltEdges(nodes', Len(nodes) + 1)
<1>1. /\ Len(listing) \in Nat /\ listing \in [1..Len(listing) -> Confirmed]
      /\ nodes' = Rebuilt(listing) /\ Len(nodes) \in Nat
    BY ListingTyped DEF Build, RowsTyped
<1>2. Len(nodes') = Len(nodes) + Len(listing)
    BY <1>1, RebuiltRows
<1>3. ActiveNodes(nodes') = (Len(nodes) + 1)..(Len(nodes) + Len(listing))
    BY <1>2, BuiltRows
<1>4. Cardinality(ActiveNodes(nodes')) = Len(listing) /\ Cardinality(DOMAIN listing) = Len(listing)
  <2>1. DOMAIN listing = 1..Len(listing)
      BY <1>1
  <2>2. Cardinality((Len(nodes) + 1)..(Len(nodes) + Len(listing))) = Len(listing)
      BY <1>1, MadeInARow
  <2>3. Cardinality(1..Len(listing)) = Len(listing)
    <3>1. Cardinality((0 + 1)..(0 + Len(listing))) = Len(listing)
        BY <1>1, MadeInARow
    <3> QED BY <1>1, <3>1
  <2> QED BY <1>3, <2>1, <2>2, <2>3
<1>5. ActiveEdges(edges') = new
  <2>1. edges' = WithEdges(ClearedEdges, new)
      BY DEF Build
  <2>2. \A e \in DOMAIN ClearedEdges : ClearedEdges[e] \notin Active
      BY DEF ClearedEdges, Superseded, Active
  <2> HIDE DEF new
  <2>3. ASSUME NEW e PROVE e \in ActiveEdges(edges') <=> e \in new
      BY <2>1, <2>2 DEF WithEdges, ActiveEdges, Active
  <2>4. \A e \in ActiveEdges(edges') : e \in new
      BY <2>3
  <2>5. \A e \in new : e \in ActiveEdges(edges')
      BY <2>3
  <2> QED BY <2>4, <2>5
<1>6. workspace' = WorkspaceRow(versions', DOMAIN listing, new)
    BY DEF Build
<1> HIDE DEF new
<1> QED BY <1>4, <1>5, <1>6 DEF ActiveRows, WorkspaceRow

LEMMA CountsStep ==
    ASSUME RowsTyped, ConfirmedOnce, WorkspaceCounts, [GraphNext]_vars
    PROVE  WorkspaceCounts'
<1>1. ASSUME NEW c \in Candidates, Confirm(c) PROVE WorkspaceCounts'
    BY <1>1 DEF Confirm, WorkspaceCounts
<1>2. ASSUME NEW listing \in Listings, Build(listing) PROVE WorkspaceCounts'
    BY <1>2, BuiltCounts DEF WorkspaceCounts
<1>3. ASSUME NEW listing \in Listings, BuildDies(listing) PROVE WorkspaceCounts'
    BY <1>3 DEF BuildDies, WorkspaceCounts
<1>4. ASSUME ByHand PROVE WorkspaceCounts'
  <2>1. touched'
      BY <1>4 DEF ByHand, CreateNode, CreateEdge, PatchNode, PatchEdge, ArchiveNode, ArchiveEdge, Edit
  <2> QED BY <2>1 DEF WorkspaceCounts
<1>5. ASSUME UNCHANGED <<nodes, edges, versions, workspace, touched>> PROVE WorkspaceCounts'
    BY <1>5 DEF WorkspaceCounts, ActiveRows, WorkspaceRow, ActiveNodes, ActiveEdges
<1>6. ASSUME NEW c \in Candidates, Reject(c) PROVE UNCHANGED <<nodes, edges, versions, workspace, touched>>
    BY <1>6 DEF Reject
<1>7. UNCHANGED vars => UNCHANGED <<nodes, edges, versions, workspace, touched>>
    BY DEF vars
<1> QED BY <1>1, <1>2, <1>3, <1>4, <1>5, <1>6, <1>7 DEF GraphNext

LEMMA CountsInit == Init => WorkspaceCounts
<1> SUFFICES ASSUME Init PROVE WorkspaceCounts
    OBVIOUS
<1>1. ActiveNodes(nodes) = {} /\ ActiveEdges(edges) = {}
    BY DEF Init, ActiveNodes, ActiveEdges
<1> QED BY <1>1, FS_EmptySet DEF Init, WorkspaceCounts, ActiveRows, WorkspaceRow

-----------------------------------------------------------------------------
(* Theorems *)

\* The inductive invariant.  That active edges join active nodes is kept
\* only because no edge, active or not, has an end that is yet to be made:
\* else a confirmation could bring an old edge back to life.  That an object
\* has one active row is kept only because no row, whatever its status, is of
\* a candidate yet to be confirmed; and that relations are drawn only because
\* each object has one, so that the two ends are found again.
GraphInv ==
    /\ RowsTyped /\ EndsExist /\ EdgesJoinActiveNodes /\ ConfirmedOnce
    /\ RefsConfirmed /\ RowsMatch /\ RelationsDrawn

LEMMA GraphInit == Init => GraphInv
<1> SUFFICES ASSUME Init PROVE GraphInv
    OBVIOUS
<1>1. RowsTyped
    BY InitTyped
<1>2. EndsExist /\ EdgesJoinActiveNodes
    BY DEF Init, EndsExist, EdgesJoinActiveNodes, ActiveEdges
<1>3. ConfirmedOnce
    BY DEF Init, ConfirmedOnce, Confirmed, Range
<1>4. nodes = <<>> /\ DOMAIN nodes = {} /\ objects = <<>> /\ DOMAIN objects = {}
    BY DEF Init
<1>5. RefsConfirmed
    BY <1>4 DEF RefsConfirmed
<1>6. RowsMatch /\ RelationsDrawn
    BY <1>4 DEF RowsMatch, RowPerObject, RelationsDrawn, ActiveNodesOf, ActiveNodes,
                Rebuildable, Confirmed, Range
<1> QED BY <1>1, <1>2, <1>3, <1>5, <1>6 DEF GraphInv

LEMMA GraphStep == ASSUME GraphInv, [GraphNext]_vars PROVE GraphInv'
BY NodesStep, EdgesStep, ConfirmedOnceStep, RowsMatchStep, DrawnStep DEF GraphInv

\* The inductive invariant holds in every reachable state.
THEOREM GraphInvariant == GraphSpec => []GraphInv
BY GraphInit, GraphStep, PTL DEF GraphSpec

\* A candidate is confirmed once and no two objects have the same text,
\* for any candidates and texts (CandidateConfirmationService.confirm).
THEOREM GraphConfirmsOnce == GraphSpec => []ConfirmedOnce
<1>1. GraphInv => ConfirmedOnce
    BY DEF GraphInv
<1> QED BY <1>1, GraphInvariant, PTL

\* From a build to the next edit active edges join active nodes, whatever
\* the candidates, batches, sources and relations are.
THEOREM GraphEdgesJoin == GraphSpec => []EdgesJoinActiveNodes
<1>1. GraphInv => EdgesJoinActiveNodes
    BY DEF GraphInv
<1> QED BY <1>1, GraphInvariant, PTL

\* From a build to the next edit exactly the confirmed objects without an
\* archived row have an active one, and each has one, whatever was edited or
\* cut short before the build (confirm, build_workspace_graph).
THEOREM GraphOneActiveRow == GraphSpec => []OneActiveRow
<1>1. GraphInv => OneActiveRow
    BY OneRowEach DEF GraphInv
<1> QED BY <1>1, GraphInvariant, PTL

\* As long, each resolved relation between active nodes is an active edge,
\* whichever end was confirmed last and whether a confirmation or a build
\* drew it.
THEOREM GraphRelationsDrawn == GraphSpec => []RelationsDrawn
<1>1. GraphInv => RelationsDrawn
    BY DEF GraphInv
<1> QED BY <1>1, GraphInvariant, PTL

\* No row or edge goes away, changes its object or leaves "archived", by any
\* operation and by any prefix of a build.
THEOREM GraphArchivesForGood == GraphSpec => ArchivedForGood
<1>1. GraphInv /\ [GraphNext]_vars =>
        [/\ \A i \in DOMAIN nodes :
                /\ i \in DOMAIN nodes' /\ nodes'[i].ref = nodes[i].ref
                /\ nodes[i].status = "archived" => nodes'[i].status = "archived"
         /\ \A e \in DOMAIN edges :
                e \in DOMAIN edges' /\ (edges[e] = "archived" => edges'[e] = "archived")]_vars
    BY NodesStep, EdgesStep DEF GraphInv, KeptEdges
<1> QED BY <1>1, GraphInvariant, PTL DEF GraphSpec, ArchivedForGood
\* From a build to the next edit the workspace row shows the latest version
\* and counts the active rows: a build, which counts only what it made, and a
\* confirmation, which counts all, agree (confirm, build_workspace_graph).
THEOREM GraphWorkspaceCounts == GraphSpec => []WorkspaceCounts
<1>1. GraphInv /\ WorkspaceCounts /\ [GraphNext]_vars => WorkspaceCounts'
    BY CountsStep DEF GraphInv
<1> QED BY <1>1, CountsInit, GraphInvariant, PTL DEF GraphSpec
=============================================================================
