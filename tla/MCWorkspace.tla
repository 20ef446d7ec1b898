---------------------------- MODULE MCWorkspace ----------------------------
(* Two instances over one set of candidates.  The graph by itself: two       *)
(* related statements of one batch, and an evidence and two others of one    *)
(* source extracted in two batches.  The graph with failures: a statement    *)
(* and an evidence of one source, without relations.                         *)
EXTENDS FailureLoop, TLC

CONSTANTS a1, a2, a3, e3, twin, b1, b2, b3, s1, s2, t1, t2, t3, t4, manual,
          GraphNodes \* bound on the rows of nodes in the graph by itself

VARIABLE part \* the instance that moves

\* twin says again what a1 says.
Texts == a1 :> t1 @@ a2 :> t2 @@ a3 :> t3 @@ e3 :> t4 @@ twin :> t1
BatchesOf == a1 :> b1 @@ a2 :> b1 @@ a3 :> b2 @@ e3 :> b3 @@ twin :> b3
SourcesOf == b1 :> s1 @@ b2 :> s2 @@ b3 :> s2
\* One of a statement with itself, as an extraction may answer.
SomeRelations == {[from |-> a1, to |-> a2], [from |-> a2, to |-> a2]}
MarkerRefs == [failure : Failures, anchor : 1..MaxNodes, kind : {"gap", "branch"}]

MCInit == part \in {"graph", "failure"} /\ FailureInit

LeftOut == {a1, a2, twin}

MCNext ==
    /\ \/ part = "graph" /\ GraphNext /\ Len(nodes') <= GraphNodes /\ UNCHANGED failureVars
       \/ part = "failure" /\ FailureNext /\ \A c \in LeftOut : candidate'[c] = candidate[c]
    /\ UNCHANGED part

MCSpec == MCInit /\ [][MCNext]_<<part, allVars>>
=============================================================================
