------------------------------ MODULE Packages ------------------------------
(***************************************************************************)
(* Packages: a copy of some routes, nodes and validations of a workspace,  *)
(* built in one block, and published by a job.  A private node is left out *)
(* of the copy and a public gap stands for it.  Routes are written and     *)
(* deleted meanwhile, so a route asked for may be gone; a job that was     *)
(* asked for while the package was a draft may find it published.          *)
(*                                                                         *)
(* Abstracted: the review, which is stored and never asked, and texts.     *)
(***************************************************************************)
EXTENDS Integers, FiniteSets

CONSTANTS RouteIds,     \* routes ever written
          GraphNodes,   \* nodes of the graph
          PrivateNodes, \* those of type private_dependency
          PathOf,       \* route_node_ids of a route
          ConclusionOf, \* its conclusion_node_id
          NextOf,       \* its next_validation_node_id, as a set: empty where there is none
          Referring,    \* nodes whose object_ref_type is a validation's
          Formal,       \* those of them whose validation is in the list of validations
          PublishJobs,  \* jobs that publish the package
          MaxBreaks     \* bound on raises of the store and deaths of the process

ASSUME PackagesAssumption ==
    /\ PrivateNodes \subseteq GraphNodes /\ Formal \subseteq Referring /\ Referring \subseteq GraphNodes
    /\ \A r \in RouteIds : PathOf[r] \cup NextOf[r] \cup {ConclusionOf[r]} \subseteq GraphNodes
    /\ MaxBreaks \in Nat

VARIABLES stored,     \* routes there are
          package,    \* status and snapshot of the package
          results,    \* rows of package_publish_results: the job of each
          publishJob, \* status of the publishing jobs
          breaks      \* so far, for the bound

packagesVars == <<stored, package, results, publishJob, breaks>>

PackagesInit ==
    /\ stored = {}
    /\ package = [status |-> "none", routes |-> {}, nodes |-> {}, validations |-> {}, missing |-> {}]
    /\ results = {}
    /\ publishJob = [k \in PublishJobs |-> "none"]
    /\ breaks = 0

\* A generation writes its routes or deletes the old ones.
RoutesChange(rs) ==
    /\ stored' = rs
    /\ UNCHANGED <<package, results, publishJob, breaks>>

-----------------------------------------------------------------------------
(* build_snapshot *)

Gap(x) == [gap |-> x]
Copied(x) == [node |-> x]
Public(x) == IF x \in PrivateNodes THEN Gap(x) ELSE Copied(x)
NormalizedPath(r) ==
    [path |-> {Public(x) : x \in PathOf[r]}, conclusion |-> Copied(ConclusionOf[r]),
     next |-> {Public(x) : x \in NextOf[r]}]
\* _normalize_route: private nodes are replaced wherever the route names them.
Normalized(r) ==
    [path |-> {Public(x) : x \in PathOf[r]}, conclusion |-> Public(ConclusionOf[r]),
     next |-> {Public(x) : x \in NextOf[r]}]
\* _collect_route_node_ids
NodesOf(r) == PathOf[r] \cup NextOf[r] \cup {ConclusionOf[r]}

\* A next node of another kind refers to no validation.
Derived(rs) == Referring \cap UNION {NextOf[r] : r \in rs}

\* A validation that only a route names may be missing: it is noted.
Build(rs, ns, vs) ==
    /\ package.status = "none"
    /\ rs \cup ns \cup vs # {}
    /\ rs \subseteq stored /\ vs \subseteq Formal
    /\ package' = [status |-> "draft",
                   routes |-> {Normalized(r) : r \in rs},
                   nodes |-> {Public(x) : x \in ns \cup UNION {NodesOf(r) : r \in rs}},
                   validations |-> vs \cup (Derived(rs) \cap Formal),
                   missing |-> Derived(rs) \ Formal]
    /\ UNCHANGED <<stored, results, publishJob, breaks>>

-----------------------------------------------------------------------------
(* publish_package and its job *)

PublishJobIs(k, status) == publishJob' = [publishJob EXCEPT ![k] = status]

AskPublish(k) ==
    /\ publishJob[k] = "none" /\ package.status = "draft"
    /\ PublishJobIs(k, "queued")
    /\ UNCHANGED <<stored, package, results, breaks>>

CheckedWhenAsked == TRUE
\* publish_snapshot looks again.
Publishable == package.status # "published"

Publish(k) ==
    /\ publishJob[k] = "queued" /\ Publishable
    /\ results' = results \cup {k}
    /\ package' = [package EXCEPT !.status = "published"]
    /\ PublishJobIs(k, "succeeded")
    /\ UNCHANGED <<stored, breaks>>

PublishFails(k) ==
    /\ publishJob[k] = "queued" /\ ~Publishable
    /\ PublishJobIs(k, "failed")
    /\ UNCHANGED <<stored, package, results, breaks>>

\* The result is written before the status, and the status before the job's row.
ResultWritten(n) == n >= 1
StatusWritten(n) == n >= 2

\* The store raises after n writes and the job is failed, or the process dies
\* and it stays as it is.
PublishBreaks(k, n, outcome) ==
    /\ publishJob[k] = "queued" /\ Publishable
    /\ breaks < MaxBreaks /\ breaks' = breaks + 1
    /\ results' = IF ResultWritten(n) THEN results \cup {k} ELSE results
    /\ package' = IF StatusWritten(n) THEN [package EXCEPT !.status = "published"] ELSE package
    /\ PublishJobIs(k, outcome)
    /\ UNCHANGED stored

PackagesNext ==
    \/ \E rs \in SUBSET RouteIds : RoutesChange(rs)
    \/ \E rs \in SUBSET RouteIds, ns \in SUBSET GraphNodes, vs \in SUBSET Formal : Build(rs, ns, vs)
    \/ \E k \in PublishJobs : AskPublish(k) \/ Publish(k) \/ PublishFails(k)
    \/ \E k \in PublishJobs, n \in 0..2, outcome \in {"failed", "lost"} : PublishBreaks(k, n, outcome)

PackagesSpec == PackagesInit /\ [][PackagesNext]_packagesVars

-----------------------------------------------------------------------------
(* Properties *)

\* A snapshot is closed: a route in it names no node and no validation that it
\* does not hold, a gap or note it as missing, and no private node is in it.
\* Build resolves, replaces and rewrites in separate passes over three lists.
SnapshotClosed ==
    /\ \A r \in package.routes : r.path \cup r.next \cup {r.conclusion} \subseteq package.nodes
    /\ \A x \in PrivateNodes : Copied(x) \notin package.nodes
    /\ \A r \in package.routes : \A x \in Referring :
          Public(x) \in r.next => x \in package.validations \cup package.missing

\* Of several jobs that publish the package one succeeds, and none after the
\* status was written for another; and wherever jobs broke off, a published
\* package has a result to show.
PublishedOnce ==
    /\ \A j, k \in PublishJobs :
          publishJob[j] = "succeeded" /\ publishJob[k] = "succeeded" => j = k
    /\ package.status = "published" => results # {}

\* A job that was lost is one whose row nobody writes any more.
PublishRows ==
    [k \in PublishJobs |-> IF publishJob[k] = "lost" THEN "running" ELSE publishJob[k]]

\* The rows of publishing jobs move forward and an outcome is final.
PublishTable == INSTANCE ResearchJobs WITH Jobs <- PublishJobs, row <- PublishRows
PublishJobsKept == PublishTable!Spec
=============================================================================
