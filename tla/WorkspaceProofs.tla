--------------------------- MODULE WorkspaceProofs ---------------------------
(* Theorems about the packages, the routes and the extraction of a workspace. *)
EXTENDS Routes, Packages, Extraction, FiniteSetTheorems, WellFoundedInduction, TLAPS

-----------------------------------------------------------------------------
(* Packages: the snapshot *)

\* The fields of the package row, without which a status could not be written.
PackageShaped ==
    package = [status |-> package.status, routes |-> package.routes, nodes |-> package.nodes,
               validations |-> package.validations, missing |-> package.missing]

\* A node, and the gap that stands for a node, tells which node it is.
LEMMA PublicApart ==
    /\ \A z, q : Copied(z) # Gap(q) /\ (Copied(z) = Copied(q) => z = q)
    /\ \A z, q : Public(z) = Public(q) => z = q
  <1>1. ASSUME NEW z, NEW q PROVE Copied(z) # Gap(q)
    <2> SUFFICES ASSUME Copied(z) = Gap(q) PROVE FALSE
      OBVIOUS
    <2>1. DOMAIN Copied(z) = {"node"} /\ DOMAIN Gap(q) = {"gap"}
      BY DEF Copied, Gap
    <2> QED BY <2>1
  <1>2. ASSUME NEW z, NEW q, Copied(z) = Copied(q) PROVE z = q
    BY <1>2 DEF Copied
  <1>3. ASSUME NEW z, NEW q, Gap(z) = Gap(q) PROVE z = q
    BY <1>3 DEF Gap
  <1> QED BY <1>1, <1>2, <1>3 DEF Public

\* Only Build writes a snapshot; publishing writes the status next to it.
LEMMA SnapshotStep ==
    ASSUME PackageShaped /\ SnapshotClosed, [PackagesNext]_packagesVars
    PROVE  (PackageShaped /\ SnapshotClosed)'
  <1> USE DEF PackageShaped
  <1>1. ASSUME NEW rs \in SUBSET RouteIds, NEW ns \in SUBSET GraphNodes, NEW vs \in SUBSET Formal,
               Build(rs, ns, vs)
        PROVE  (PackageShaped /\ SnapshotClosed)'
    <2>1. /\ package'.routes = {Normalized(r) : r \in rs}
          /\ package'.nodes = {Public(z) : z \in ns \cup UNION {NodesOf(r) : r \in rs}}
          /\ package'.validations = vs \cup (Derived(rs) \cap Formal)
          /\ package'.missing = Derived(rs) \ Formal
          /\ PackageShaped'
      BY <1>1 DEF Build
    <2>2. ASSUME NEW r \in rs
          PROVE  /\ Normalized(r).path \cup Normalized(r).next \cup {Normalized(r).conclusion}
                        \subseteq package'.nodes
                 /\ \A z \in Referring : Public(z) \in Normalized(r).next =>
                       z \in package'.validations \cup package'.missing
      <3>1. NodesOf(r) \subseteq ns \cup UNION {NodesOf(q) : q \in rs}
        OBVIOUS
      <3>2. /\ Normalized(r).path = {Public(z) : z \in PathOf[r]}
            /\ Normalized(r).conclusion = Public(ConclusionOf[r])
            /\ Normalized(r).next = {Public(z) : z \in NextOf[r]}
        BY DEF Normalized
      <3>3. \A z \in NextOf[r] \cap Referring : z \in package'.validations \cup package'.missing
        BY <2>1 DEF Derived
      <3>4. ASSUME NEW z \in Referring, Public(z) \in Normalized(r).next PROVE z \in NextOf[r]
        BY <3>2, <3>4, PublicApart
      <3> QED BY <2>1, <3>1, <3>2, <3>3, <3>4 DEF NodesOf
    <2>3. ASSUME NEW z \in PrivateNodes PROVE Copied(z) \notin package'.nodes
      BY <2>1, <2>3, PublicApart DEF Public
    <2> QED BY <2>1, <2>2, <2>3 DEF SnapshotClosed
  <1>2. CASE \/ \E rs \in SUBSET RouteIds : RoutesChange(rs)
             \/ \E k \in PublishJobs : AskPublish(k) \/ Publish(k) \/ PublishFails(k)
             \/ \E k \in PublishJobs, n \in 0..2, outcome \in {"failed", "lost"} :
                    PublishBreaks(k, n, outcome)
             \/ UNCHANGED packagesVars
    <2>1. package' = package \/ package' = [package EXCEPT !.status = "published"]
      BY <1>2 DEF RoutesChange, AskPublish, Publish, PublishFails, PublishBreaks, packagesVars
    <2>2. /\ PackageShaped' /\ package'.routes = package.routes /\ package'.nodes = package.nodes
          /\ package'.validations = package.validations /\ package'.missing = package.missing
      BY <2>1
    <2> QED BY <2>2 DEF SnapshotClosed
  <1> QED BY <1>1, <1>2 DEF PackagesNext

\* A snapshot names nothing it does not hold, and holds no private node.
THEOREM PackagesAreClosed == PackagesSpec => []SnapshotClosed
  <1>1. PackagesInit => PackageShaped /\ SnapshotClosed
    BY DEF PackagesInit, PackageShaped, SnapshotClosed
  <1> QED BY <1>1, SnapshotStep, PTL DEF PackagesSpec

-----------------------------------------------------------------------------
(* Packages: publishing *)

\* What a job that succeeded leaves behind keeps the others from publishing.
PublishInv ==
    /\ PackageShaped /\ PublishedOnce
    /\ publishJob \in [PublishJobs -> {"none", "queued", "succeeded", "failed", "lost"}]
    /\ \A k \in PublishJobs : publishJob[k] = "succeeded" => package.status = "published"

LEMMA PublishStep ==
    ASSUME PublishInv, [PackagesNext]_packagesVars PROVE PublishInv'
  <1> USE DEF PublishInv, PublishedOnce, PackageShaped, PublishJobIs, Publishable
  <1>1. CASE \E rs \in SUBSET RouteIds : RoutesChange(rs)
    BY <1>1 DEF RoutesChange
  <1>2. CASE \E rs \in SUBSET RouteIds, ns \in SUBSET GraphNodes, vs \in SUBSET Formal :
                 Build(rs, ns, vs)
    BY <1>2 DEF Build
  <1>3. ASSUME NEW k \in PublishJobs, AskPublish(k) \/ PublishFails(k) PROVE PublishInv'
    BY <1>3 DEF AskPublish, PublishFails
  <1>4. ASSUME NEW k \in PublishJobs, Publish(k) PROVE PublishInv'
    <2>1. \A j \in PublishJobs : publishJob[j] # "succeeded"
      BY <1>4 DEF Publish
    <2> QED BY <1>4, <2>1 DEF Publish
  <1>5. ASSUME NEW k \in PublishJobs, NEW n \in 0..2, NEW outcome \in {"failed", "lost"},
               PublishBreaks(k, n, outcome)
        PROVE  PublishInv'
    BY <1>5 DEF PublishBreaks, ResultWritten, StatusWritten
  <1>6. CASE UNCHANGED packagesVars
    BY <1>6 DEF packagesVars
  <1> QED BY <1>1, <1>2, <1>3, <1>4, <1>5, <1>6 DEF PackagesNext

\* One publishing job succeeds, and a published package has a result.
THEOREM PackagesPublishOnce == PackagesSpec => []PublishedOnce
  <1>1. PackagesInit => PublishInv
    BY DEF PackagesInit, PublishInv, PublishedOnce, PackageShaped
  <1>2. PublishInv => PublishedOnce
    BY DEF PublishInv
  <1> QED BY <1>1, <1>2, PublishStep, PTL DEF PackagesSpec

-----------------------------------------------------------------------------
(* Packages: the rows of publishing jobs *)

\* One step of the package writes at most one row, forward.
LEMMA PublishRowStep ==
    ASSUME PublishInv, [PackagesNext]_packagesVars
    PROVE  [PublishTable!Next]_PublishRows
  <1>0. publishJob \in [PublishJobs -> {"none", "queued", "succeeded", "failed", "lost"}]
    BY DEF PublishInv
  <1>1. ASSUME UNCHANGED publishJob PROVE PublishRows' = PublishRows
    BY <1>1 DEF PublishRows
  <1>2. ASSUME NEW k \in PublishJobs, NEW status,
               \/ publishJob[k] = "none" /\ status = "queued"
               \/ publishJob[k] = "queued" /\ status \in {"succeeded", "failed", "lost"},
               PublishJobIs(k, status)
        PROVE  PublishTable!Next
    <2> DEFINE new == IF status = "lost" THEN "running" ELSE status
    <2>1. publishJob' = [publishJob EXCEPT ![k] = status]
      BY <1>2 DEF PublishJobIs
    <2>2. publishJob'[k] = status /\ \A i \in PublishJobs : i # k => publishJob'[i] = publishJob[i]
      BY <1>0, <2>1
    <2>3. PublishRows' = [PublishRows EXCEPT ![k] = new]
      BY <2>2 DEF PublishRows
    <2>4. new \in PublishTable!Later(PublishRows[k])
      BY <1>2 DEF PublishRows, PublishTable!Later, PublishTable!Outcomes
    <2>5. PublishTable!Advance(k)
      BY <2>3, <2>4 DEF PublishTable!Advance
    <2> QED BY <2>5 DEF PublishTable!Next
  <1>3. ASSUME NEW k \in PublishJobs, AskPublish(k) PROVE PublishTable!Next
    BY <1>2, <1>3 DEF AskPublish
  <1>4. ASSUME NEW k \in PublishJobs, Publish(k) \/ PublishFails(k) PROVE PublishTable!Next
    BY <1>2, <1>4 DEF Publish, PublishFails
  <1>5. ASSUME NEW k \in PublishJobs, NEW n \in 0..2, NEW outcome \in {"failed", "lost"},
               PublishBreaks(k, n, outcome)
        PROVE  PublishTable!Next
    BY <1>2, <1>5 DEF PublishBreaks
  <1> QED
    BY <1>1, <1>3, <1>4, <1>5 DEF PackagesNext, RoutesChange, Build, packagesVars

\* A publishing job that ended keeps its outcome: the row of a job is written
\* by the job alone, and by no other that finds the package published.
THEOREM PublishJobsFinal == PackagesSpec => PublishJobsKept
  <1>1. PackagesInit => PublishInv /\ PublishTable!Init
    BY DEF PackagesInit, PublishInv, PublishedOnce, PackageShaped, PublishTable!Init, PublishRows
  <1> QED BY <1>1, PublishRowStep, PublishStep, PTL
          DEF PackagesSpec, PublishJobsKept, PublishTable!Spec

-----------------------------------------------------------------------------
(* A bounded set of numbers has a greatest *)

LEMMA GreatestExists ==
    ASSUME NEW T \in SUBSET Nat, NEW N \in Nat, \A t \in T : t <= N, T # {}
    PROVE  \E m \in T : \A t \in T : t <= m
  <1> DEFINE D == {N - t : t \in T}
  <1>1. D \in SUBSET Nat /\ D # {}
    <2>1. \A t \in T : N - t \in Nat
      OBVIOUS
    <2> QED BY <2>1
  <1>2. \E z \in D : \A y \in D : ~(<<y, z>> \in OpToRel(<, Nat))
    <2> HIDE DEF D
    <2> QED BY <1>1, WFMin, NatLessThanWellFounded, Zenon
  <1>3. \A y, z \in Nat : y < z => <<y, z>> \in OpToRel(<, Nat)
    BY DEF OpToRel
  <1>4. PICK z \in D : \A y \in D : ~(y < z)
    BY <1>1, <1>2, <1>3
  <1>5. PICK m \in T : z = N - m
    BY <1>4
  <1>6. \A t \in T : N - t \in D
    OBVIOUS
  <1>7. \A t \in T : t \in Nat /\ ~(N - t < N - m)
    BY <1>4, <1>5, <1>6
  <1> QED BY <1>5, <1>7

-----------------------------------------------------------------------------
(* Routes: who deletes what *)

Begun == {g \in Generations : began[g] # 0}

\* Places: began numbers the generations that have begun.
PlacesKept ==
    /\ began \in [Generations -> Nat] /\ IsFiniteSet(Generations)
    /\ \A g, h \in Generations : began[g] = began[h] => g = h \/ began[g] = 0
    /\ \A g \in Generations : began[g] <= Cardinality(Begun)
    /\ \A g \in Generations :
          /\ generation[g].pc \in {"idle", "asked"} => began[g] = 0
          /\ generation[g].pc \in {"summaries", "completed"} => began[g] # 0

RouteRows == [generation : Generations, number : Nat]
GenerationRows ==
    [pc : {"idle", "asked", "summaries", "completed", "failed", "broken", "lost"},
     found : SUBSET RouteRows]

\* A generation finds what earlier ones wrote, all of it, and when it has
\* completed nothing of that is left; one that has not begun, failed or broke
\* has no routes.
FoundIsOlder ==
    /\ generation \in [Generations -> GenerationRows] /\ routes \subseteq RouteRows
    /\ \A r \in routes : began[r.generation] # 0
    /\ \A g \in Generations : \A r \in Found(g) :
          began[r.generation] # 0 /\ began[r.generation] < began[g]
    /\ \A g, h \in Generations :
          began[g] # 0 /\ began[g] < began[h] => Own(g) \subseteq Found(h)
    /\ \A g \in Generations : generation[g].pc = "completed" => Found(g) \cap routes = {}
    /\ \A g \in Generations : generation[g].pc \in {"idle", "asked", "failed", "broken"} => Own(g) = {}

\* A generation that waits, has completed or was lost has its routes, or a
\* later one that completed, was lost or broke took them away.
Left(g) == generation[g].pc \in {"completed", "lost", "broken"}
OwnOrLater ==
    \A g \in Generations :
        began[g] # 0 /\ generation[g].pc \in {"summaries", "completed", "lost"} =>
            Own(g) # {} \/ \E h \in Generations : began[g] < began[h] /\ Left(h)

RoutesInv == PlacesKept /\ FoundIsOlder /\ OwnOrLater

\* No generation but the one that begins is numbered, and above all others.
LEMMA PlaceStep ==
    ASSUME RoutesInv, NEW g \in Generations, NEW n \in 1..MaxRoutes, BeginGeneration(g, n)
    PROVE  /\ began[g] = 0 /\ began' = [began EXCEPT ![g] = began'[g]]
           /\ began'[g] \in Nat \ {0} /\ began'[g] = Cardinality(Begun')
           /\ \A h \in Generations : began[h] < began'[g]
  <1> USE DEF RoutesInv, PlacesKept
  <1>1. /\ began[g] = 0 /\ began' = [began EXCEPT ![g] = 1 + Cardinality(Begun)]
    BY DEF BeginGeneration, Begun, FoundIsOlder
  <1>2. IsFiniteSet(Begun) /\ Cardinality(Begun) \in Nat
    BY FS_Subset, FS_CardinalityType DEF Begun
  <1>3. Begun' = Begun \cup {g} /\ g \notin Begun
    <2>1. began'[g] # 0 /\ \A h \in Generations \ {g} : began'[h] = began[h]
      BY <1>1, <1>2
    <2> QED BY <1>1, <2>1 DEF Begun
  <1>4. Cardinality(Begun') = Cardinality(Begun) + 1
    BY <1>2, <1>3, FS_AddElement
  <1> QED BY <1>1, <1>2, <1>4

LEMMA BeginStep ==
    ASSUME RoutesInv, NEW g \in Generations, NEW n \in 1..MaxRoutes, BeginGeneration(g, n)
    PROVE  RoutesInv'
  <1> USE DEF RoutesInv
  <1> DEFINE new == {[generation |-> g, number |-> i] : i \in 1..n}
  <1>1. /\ began[g] = 0 /\ began' = [began EXCEPT ![g] = began'[g]]
        /\ began'[g] \in Nat \ {0} /\ began'[g] = Cardinality(Begun')
        /\ \A h \in Generations : began[h] < began'[g]
    BY PlaceStep
  <1>2. /\ routes' = routes \cup new
        /\ generation' = [generation EXCEPT ![g] = [pc |-> "summaries", found |-> routes]]
        /\ generation[g].pc = "asked"
    BY DEF BeginGeneration, Numbers
  <1>3. /\ generation'[g] = [pc |-> "summaries", found |-> routes]
        /\ \A h \in Generations \ {g} : generation'[h] = generation[h] /\ began'[h] = began[h]
    BY <1>1, <1>2 DEF FoundIsOlder, PlacesKept
  <1>4. \A r \in new : r.generation = g /\ r \in RouteRows
    BY DEF RouteRows
  <1>5. new # {} /\ Own(g) = {}
    <2>1. [generation |-> g, number |-> 1] \in new
      OBVIOUS
    <2> QED BY <1>1, <1>2, <2>1 DEF FoundIsOlder
  <1>6. Own(g)' = new /\ \A h \in Generations \ {g} : Own(h)' = Own(h)
    BY <1>2, <1>4, <1>5 DEF Own
  <1>7. PlacesKept'
    <2>1. \A h \in Generations : began'[h] <= began'[g] /\ began'[h] \in Nat
      BY <1>1, <1>3 DEF PlacesKept
    <2>2. \A h, k \in Generations : began'[h] = began'[k] => h = k \/ began'[h] = 0
      BY <1>1, <1>3 DEF PlacesKept
    <2> QED BY <1>1, <1>3, <2>1, <2>2 DEF PlacesKept
  <1>8. FoundIsOlder'
    <2>1. generation' \in [Generations -> GenerationRows] /\ routes' \subseteq RouteRows
      BY <1>2, <1>4 DEF FoundIsOlder, GenerationRows
    <2>2. \A r \in routes : r.generation \in Generations
      BY DEF FoundIsOlder, RouteRows
    <2>3. \A r \in routes' : began'[r.generation] # 0
      BY <1>1, <1>2, <1>3, <1>4, <2>2 DEF FoundIsOlder
    <2>4. ASSUME NEW h \in Generations, NEW r \in Found(h)'
          PROVE  began'[r.generation] # 0 /\ began'[r.generation] < began'[h]
      <3>1. CASE h = g
        <4>1. r \in routes
          BY <1>3, <2>4, <3>1 DEF Found
        <4>2. r.generation # g
          BY <1>1, <4>1 DEF FoundIsOlder
        <4> QED BY <1>1, <1>3, <2>2, <3>1, <4>1, <4>2 DEF FoundIsOlder
      <3>2. CASE h # g
        <4>1. r \in Found(h)
          BY <1>3, <2>4, <3>2 DEF Found
        <4>2. r.generation \in Generations /\ began[r.generation] # 0
          BY <4>1 DEF FoundIsOlder, GenerationRows, RouteRows, Found
        <4> QED BY <1>1, <1>3, <3>2, <4>1, <4>2 DEF FoundIsOlder
      <3> QED BY <3>1, <3>2
    <2>5. ASSUME NEW h \in Generations, NEW k \in Generations, began'[h] # 0, began'[h] < began'[k]
          PROVE  Own(h)' \subseteq Found(k)'
      <3>1. h # g
        BY <1>1, <1>3, <2>5 DEF PlacesKept
      <3>2. CASE k = g
        BY <1>3, <1>6, <3>1, <3>2 DEF Found, Own
      <3>3. CASE k # g
        BY <1>3, <1>6, <2>5, <3>1, <3>3 DEF Found, FoundIsOlder
      <3> QED BY <3>2, <3>3
    <2>6. ASSUME NEW h \in Generations, generation'[h].pc = "completed"
          PROVE  Found(h)' \cap routes' = {}
      <3>1. h # g /\ generation[h].pc = "completed" /\ Found(h)' = Found(h)
        BY <1>3, <2>6 DEF Found
      <3>2. Found(h) \cap new = {}
        BY <1>1, <1>4 DEF FoundIsOlder
      <3> QED BY <1>2, <3>1, <3>2 DEF FoundIsOlder
    <2>7. \A h \in Generations :
              generation'[h].pc \in {"idle", "asked", "failed", "broken"} => Own(h)' = {}
      BY <1>3, <1>6 DEF FoundIsOlder
    <2> QED BY <2>1, <2>3, <2>4, <2>5, <2>6, <2>7 DEF FoundIsOlder
  <1>9. OwnOrLater'
    <2>1. ASSUME NEW h \in Generations, h # g, began'[h] # 0,
                 generation'[h].pc \in {"summaries", "completed", "lost"}
          PROVE  Own(h)' # {} \/ \E k \in Generations : began'[h] < began'[k] /\ Left(k)'
      <3>1. Own(h) # {} \/ \E k \in Generations : began[h] < began[k] /\ Left(k)
        BY <1>3, <2>1 DEF OwnOrLater
      <3>2. \A k \in Generations : Left(k) => k # g
        BY <1>2 DEF Left
      <3> QED BY <1>3, <1>6, <2>1, <3>1, <3>2 DEF Left
    <2> QED BY <1>5, <1>6, <2>1 DEF OwnOrLater
  <1> QED BY <1>7, <1>8, <1>9

\* The other steps delete routes and move generations on.
LEMMA ShrinkStep ==
    ASSUME RoutesInv, routes' \subseteq routes, began' = began,
           generation' \in [Generations -> GenerationRows],
           \A h \in Generations :
              /\ generation'[h].found = generation[h].found
              /\ generation'[h].pc \in {"idle", "asked"} => generation[h].pc \in {"idle", "asked"}
              /\ generation'[h].pc \in {"summaries", "completed"} =>
                    generation[h].pc \in {"summaries", "completed"}
              /\ generation'[h].pc = "lost" =>
                    generation[h].pc \in {"summaries", "lost"} \/ began[h] = 0
              /\ generation'[h].pc = "completed" =>
                    generation[h].pc = "completed" \/ Found(h) \cap routes' = {}
              /\ generation'[h].pc \in {"failed", "broken"} => Own(h)' = {}
              /\ Left(h) => Left(h)'
              /\ \/ Own(h)' = Own(h) \/ generation'[h].pc \in {"failed", "broken"}
                 \/ \E k \in Generations : began[h] < began[k] /\ Left(k)'
    PROVE  RoutesInv'
  <1> USE DEF RoutesInv
  <1>1. \A h \in Generations : Own(h)' \subseteq Own(h) /\ Found(h)' = Found(h)
    BY DEF Own, Found
  <1>2. PlacesKept'
    BY DEF PlacesKept, Begun
  <1>3. FoundIsOlder'
    <2>1. \A h \in Generations : generation'[h].pc = "completed" => Found(h)' \cap routes' = {}
      BY <1>1 DEF FoundIsOlder
    <2>2. \A h \in Generations :
              generation'[h].pc \in {"idle", "asked", "failed", "broken"} => Own(h)' = {}
      BY <1>1 DEF FoundIsOlder
    <2>3. \A g, h \in Generations : began'[g] # 0 /\ began'[g] < began'[h] => Own(g)' \subseteq Found(h)'
      BY <1>1 DEF FoundIsOlder
    <2>4. \A h \in Generations : \A r \in Found(h)' :
              began'[r.generation] # 0 /\ began'[r.generation] < began'[h]
      BY <1>1 DEF FoundIsOlder
    <2> QED BY <2>1, <2>2, <2>3, <2>4 DEF FoundIsOlder
  <1>4. OwnOrLater'
    <2>1. ASSUME NEW h \in Generations, began'[h] # 0,
                 generation'[h].pc \in {"summaries", "completed", "lost"}
          PROVE  Own(h)' # {} \/ \E k \in Generations : began'[h] < began'[k] /\ Left(k)'
      <3>1. Own(h) # {} \/ \E k \in Generations : began[h] < began[k] /\ Left(k)
        BY <2>1 DEF OwnOrLater
      <3> QED BY <2>1, <3>1
    <2> QED BY <2>1 DEF OwnOrLater
  <1> QED BY <1>2, <1>3, <1>4

\* A completion, or the deletes of one: what goes was found, so its generation
\* is earlier.
LEMMA FoundDeleted ==
    ASSUME RoutesInv, NEW g \in Generations, NEW gone \in SUBSET Found(g), routes' = routes \ gone,
           NEW h \in Generations
    PROVE  Own(h)' = Own(h) \/ began[h] < began[g]
  <1> SUFFICES ASSUME Own(h)' # Own(h) PROVE began[h] < began[g]
    OBVIOUS
  <1>1. PICK r \in routes : r.generation = h /\ r \in gone
    BY DEF Own
  <1> QED BY <1>1 DEF RoutesInv, FoundIsOlder

LEMMA RoutesStep == ASSUME RoutesInv, [RoutesNext]_routesVars PROVE RoutesInv'
  <1> USE DEF RoutesInv
  <1>0. generation \in [Generations -> GenerationRows]
    BY DEF FoundIsOlder
  <1>1. ASSUME NEW g \in Generations, NEW n \in 1..MaxRoutes, BeginGeneration(g, n) PROVE RoutesInv'
    BY <1>1, BeginStep
  <1>2. ASSUME NEW g \in Generations, Ask(g) \/ BeginFails(g) PROVE RoutesInv'
    <2>1. /\ routes' = routes /\ began' = began /\ generation[g].pc \in {"idle", "asked"}
          /\ \E pc \in {"asked", "failed"} : generation' = [generation EXCEPT ![g].pc = pc]
      BY <1>2 DEF Ask, BeginFails, GenerationAt
    <2>2. \A h \in Generations : Own(h)' = Own(h)
      BY <2>1 DEF Own
    <2>3. Own(g) = {}
      BY <2>1 DEF FoundIsOlder
    <2> QED BY <1>0, <2>1, <2>2, <2>3, ShrinkStep DEF GenerationRows, FoundIsOlder, Left
  <1>3. ASSUME NEW g \in Generations, CompleteGeneration(g) PROVE RoutesInv'
    <2>1. /\ routes' = routes \ Found(g) /\ began' = began /\ generation[g].pc = "summaries"
          /\ generation' = [generation EXCEPT ![g].pc = "completed"]
      BY <1>3 DEF CompleteGeneration, GenerationAt, Summarising
    <2>2. \A h \in Generations : Own(h)' \subseteq Own(h)
      BY <2>1 DEF Own
    <2>3. \A h \in Generations : Own(h)' = Own(h) \/ began[h] < began[g]
      BY <2>1, FoundDeleted
    <2>4. Left(g)' /\ Found(g) \cap routes' = {}
      BY <1>0, <2>1 DEF Left, GenerationRows
    <2> QED BY <1>0, <2>1, <2>2, <2>3, <2>4, ShrinkStep DEF GenerationRows, FoundIsOlder, Left
  <1>4. ASSUME NEW g \in Generations, GenerationFails(g) \/ GenerationCancelled(g) PROVE RoutesInv'
    <2>1. /\ routes' = routes \ Own(g) /\ began' = began /\ generation[g].pc = "summaries"
          /\ generation' = [generation EXCEPT ![g].pc = "failed"]
      BY <1>4 DEF GenerationFails, GenerationCancelled, GenerationAt, Summarising
    <2>2. Own(g)' = {} /\ \A h \in Generations \ {g} : Own(h)' = Own(h)
      BY <2>1 DEF Own
    <2> QED BY <1>0, <2>1, <2>2, ShrinkStep DEF GenerationRows, FoundIsOlder, Left
  <1>5. ASSUME NEW g \in Generations, DieDeleting(g) PROVE RoutesInv'
    <2>1. PICK gone \in SUBSET Found(g) : routes' = routes \ gone
      BY <1>5 DEF DieDeleting
    <2>2. /\ began' = began /\ generation[g].pc = "summaries"
          /\ generation' = [h \in Generations |->
                IF generation[h].pc \in {"asked", "summaries"}
                THEN [generation[h] EXCEPT !.pc = "lost"] ELSE generation[h]]
      BY <1>5 DEF DieDeleting, AllCutShort, Summarising
    <2>3. \A h \in Generations : Own(h)' \subseteq Own(h)
      BY <2>1 DEF Own
    <2>4. \A h \in Generations : Own(h)' = Own(h) \/ began[h] < began[g]
      BY <2>1, FoundDeleted
    <2>5. Left(g)'
      BY <1>0, <2>2 DEF Left, GenerationRows
    <2>6. \A h \in Generations : generation[h].pc = "asked" => began[h] = 0
      BY DEF PlacesKept
    <2> QED BY <1>0, <2>1, <2>2, <2>3, <2>4, <2>5, <2>6, ShrinkStep
            DEF GenerationRows, FoundIsOlder, Left
  <1>6. ASSUME NEW g \in Generations, DeletingRaises(g) PROVE RoutesInv'
    <2>1. PICK gone \in SUBSET Found(g) : routes' = routes \ (gone \cup Own(g))
      BY <1>6 DEF DeletingRaises
    <2>2. /\ began' = began /\ generation[g].pc = "summaries"
          /\ generation' = [generation EXCEPT ![g].pc = "broken"]
      BY <1>6 DEF DeletingRaises, GenerationAt, Summarising
    <2>3. Own(g)' = {} /\ \A h \in Generations : Own(h)' \subseteq Own(h)
      BY <2>1 DEF Own
    <2>4. ASSUME NEW h \in Generations PROVE Own(h)' = Own(h) \/ h = g \/ began[h] < began[g]
      <3> SUFFICES ASSUME Own(h)' # Own(h), h # g PROVE began[h] < began[g]
        BY <2>4
      <3>1. PICK r \in routes : r.generation = h /\ r \in gone
        BY <2>1 DEF Own
      <3> QED BY <3>1 DEF FoundIsOlder
    <2>5. Left(g)'
      BY <1>0, <2>2 DEF Left, GenerationRows
    <2> QED BY <1>0, <2>1, <2>2, <2>3, <2>4, <2>5, ShrinkStep DEF GenerationRows, FoundIsOlder, Left
  <1>7. CASE DieSummarising
    <2>1. /\ routes' = routes /\ began' = began
          /\ generation' = [h \in Generations |->
                IF generation[h].pc \in {"asked", "summaries"}
                THEN [generation[h] EXCEPT !.pc = "lost"] ELSE generation[h]]
      BY <1>7 DEF DieSummarising, AllCutShort
    <2>2. \A h \in Generations : Own(h)' = Own(h)
      BY <2>1 DEF Own
    <2>3. \A h \in Generations : generation[h].pc = "asked" => began[h] = 0
      BY DEF PlacesKept
    <2> QED BY <1>0, <2>1, <2>2, <2>3, ShrinkStep DEF GenerationRows, FoundIsOlder, Left
  <1>8. CASE UNCHANGED routesVars
    <2>1. routes' = routes /\ generation' = generation /\ began' = began
      BY <1>8 DEF routesVars
    <2> QED BY <2>1 DEF PlacesKept, FoundIsOlder, OwnOrLater, Begun, Own, Found, Left
  <1> QED
    BY <1>1, <1>2, <1>3, <1>4, <1>5, <1>6, <1>7, <1>8 DEF RoutesNext, GenerationMoves

LEMMA RoutesInvAlways == RoutesSpec => []RoutesInv
  <1>1. RoutesInit => RoutesInv
    <2> SUFFICES ASSUME RoutesInit PROVE RoutesInv
      OBVIOUS
    <2> USE DEF RoutesInit
    <2>1. Begun = {}
      BY DEF Begun
    <2>2. PlacesKept
      BY <2>1, FS_EmptySet, RoutesAssumption DEF PlacesKept
    <2>3. FoundIsOlder
      BY DEF FoundIsOlder, Own, Found, GenerationRows
    <2>4. OwnOrLater
      BY DEF OwnOrLater
    <2> QED BY <2>2, <2>3, <2>4 DEF RoutesInv
  <1> QED BY <1>1, RoutesStep, PTL DEF RoutesSpec

\* Generations that overlap leave the routes of one of them.
THEOREM RoutesOfOne == RoutesSpec => []OneSet
  <1>1. ASSUME RoutesInv PROVE OneSet
    <2> SUFFICES ASSUME \A g \in Generations : ~Summarising(g), NEW r \in routes, NEW s \in routes,
                        r.generation # s.generation, generation[r.generation].pc # "lost",
                        generation[s.generation].pc # "lost"
                 PROVE  FALSE
      BY DEF OneSet
    <2> DEFINE g == r.generation
               h == s.generation
    <2>1. /\ g \in Generations /\ h \in Generations /\ r \in Own(g) /\ s \in Own(h)
          /\ began[g] # 0 /\ began[h] # 0
      BY <1>1 DEF RoutesInv, FoundIsOlder, RouteRows, Own
    <2>2. generation[g].pc = "completed" /\ generation[h].pc = "completed"
      BY <1>1, <2>1 DEF RoutesInv, FoundIsOlder, GenerationRows, Summarising
    <2>3. began[g] < began[h] \/ began[h] < began[g]
      BY <1>1, <2>1 DEF RoutesInv, PlacesKept
    <2> QED BY <1>1, <2>1, <2>2, <2>3 DEF RoutesInv, FoundIsOlder
  <1> QED BY <1>1, RoutesInvAlways, PTL

\* Once a generation has completed there are routes, unless the store raised
\* among its deletes: the latest that was not failed has its own.
THEOREM RoutesStay == RoutesSpec => []RoutesRemain
  <1>1. ASSUME RoutesInv PROVE RoutesRemain
    <2> SUFFICES ASSUME NEW g \in Generations, generation[g].pc = "completed",
                        \A h \in Generations : generation[h].pc # "broken"
                 PROVE  routes # {}
      BY DEF RoutesRemain
    <2> DEFINE G == {h \in Generations : began[h] # 0 /\ Left(h)}
               T == {began[h] : h \in G}
    <2>1. g \in G
      BY <1>1 DEF Left, RoutesInv, PlacesKept
    <2>2. T \in SUBSET Nat /\ T # {}
      BY <1>1, <2>1 DEF RoutesInv, PlacesKept
    <2>3. Cardinality(Begun) \in Nat /\ \A t \in T : t <= Cardinality(Begun)
      BY <1>1, FS_Subset, FS_CardinalityType DEF RoutesInv, PlacesKept, Begun
    <2>4. PICK h \in G : \A k \in G : began[k] <= began[h]
      <3> HIDE DEF T
      <3>1. \E m \in T : \A t \in T : t <= m
        BY <2>2, <2>3, GreatestExists
      <3> QED BY <3>1 DEF T
    <2>5. Own(h) # {} \/ \E k \in Generations : began[h] < began[k] /\ Left(k)
      BY <1>1 DEF RoutesInv, OwnOrLater, Left
    <2>6. ASSUME NEW k \in Generations, began[h] < began[k], Left(k) PROVE FALSE
      BY <1>1, <2>4, <2>6 DEF RoutesInv, PlacesKept
    <2> QED BY <2>5, <2>6 DEF Own
  <1> QED BY <1>1, RoutesInvAlways, PTL

\* While a generation is under way, the row of its job says so.
JobsLive ==
    \A g \in AsJob : /\ generation[g].pc = "idle" => routeJob[g] = "none"
                     /\ generation[g].pc = "asked" => routeJob[g] = "queued"
                     /\ generation[g].pc = "summaries" => routeJob[g] = "running"

RowsKept == JobsLive /\ routeJob \in [AsJob -> {"none", "queued", "running", "succeeded", "failed"}]

LEMMA RouteTableStep ==
    ASSUME RoutesInv, RowsKept, [RoutesNext]_routesVars
    PROVE  RowsKept' /\ [RouteTable!Next]_routeJob
  <1>0. generation \in [Generations -> GenerationRows] /\ AsJob \subseteq Generations
    BY RoutesAssumption DEF RoutesInv, FoundIsOlder
  <1>1. ASSUME NEW g \in Generations, NEW pc, NEW status,
               generation'[g].pc = pc, \A h \in Generations \ {g} : generation'[h] = generation[h],
               JobOf(g, status),
               \/ generation[g].pc = "idle" /\ pc = "asked" /\ status = "queued"
               \/ generation[g].pc = "asked" /\ pc = "summaries" /\ status = "running"
               \/ /\ generation[g].pc \in {"asked", "summaries"}
                  /\ pc \in {"completed", "failed", "broken"} /\ status \in {"succeeded", "failed"}
        PROVE  RowsKept' /\ [RouteTable!Next]_routeJob
    <2>1. CASE g \in AsJob
      <3>1. routeJob' = [routeJob EXCEPT ![g] = status]
        BY <1>1, <2>1 DEF JobOf
      <3>2. /\ status \in RouteTable!Later(routeJob[g])
            /\ status \in {"queued", "running", "succeeded", "failed"}
        BY <1>1, <2>1 DEF RowsKept, JobsLive, RouteTable!Later, RouteTable!Outcomes
      <3>3. routeJob'[g] = status /\ \A h \in AsJob \ {g} : routeJob'[h] = routeJob[h]
        BY <2>1, <3>1 DEF RowsKept
      <3>4. RowsKept'
        BY <1>0, <1>1, <3>1, <3>2, <3>3 DEF RowsKept, JobsLive
      <3> QED BY <2>1, <3>1, <3>2, <3>4 DEF RouteTable!Next, RouteTable!Advance
    <2>2. CASE g \notin AsJob
      BY <1>0, <1>1, <2>2 DEF JobOf, RowsKept, JobsLive
    <2> QED BY <2>1, <2>2
  <1>2. ASSUME UNCHANGED routeJob,
               \A g \in Generations : \/ generation'[g] = generation[g]
                                      \/ generation'[g].pc \in {"failed", "lost"}
        PROVE  RowsKept' /\ [RouteTable!Next]_routeJob
    BY <1>0, <1>2 DEF RowsKept, JobsLive
  <1>3. ASSUME NEW g \in Generations, NEW pc, GenerationAt(g, pc)
        PROVE  generation'[g].pc = pc /\ \A h \in Generations \ {g} : generation'[h] = generation[h]
    BY <1>0, <1>3 DEF GenerationAt, GenerationRows
  <1>4. ASSUME NEW g \in Generations, Ask(g) PROVE RowsKept' /\ [RouteTable!Next]_routeJob
    BY <1>1, <1>3, <1>4 DEF Ask
  <1>5. ASSUME NEW g \in Generations, NEW n \in 1..MaxRoutes, BeginGeneration(g, n)
        PROVE  RowsKept' /\ [RouteTable!Next]_routeJob
    <2>1. /\ generation'[g].pc = "summaries"
          /\ \A h \in Generations \ {g} : generation'[h] = generation[h]
      BY <1>0, <1>5 DEF BeginGeneration
    <2> QED BY <1>1, <1>5, <2>1 DEF BeginGeneration
  <1>6. ASSUME NEW g \in Generations, BeginFails(g) PROVE RowsKept' /\ [RouteTable!Next]_routeJob
    BY <1>1, <1>3, <1>6 DEF BeginFails
  <1>7. ASSUME NEW g \in Generations, CompleteGeneration(g)
        PROVE  RowsKept' /\ [RouteTable!Next]_routeJob
    <2>1. Outcome(g) \in {"succeeded", "failed"}
      BY DEF Outcome
    <2>2. generation[g].pc = "summaries" /\ GenerationAt(g, "completed") /\ JobOf(g, Outcome(g))
      BY <1>7 DEF CompleteGeneration, Summarising
    <2> HIDE DEF Outcome
    <2> QED BY <1>1, <1>3, <2>1, <2>2
  <1>8. ASSUME NEW g \in Generations, GenerationFails(g) \/ DeletingRaises(g)
        PROVE  RowsKept' /\ [RouteTable!Next]_routeJob
    <2>1. \E pc \in {"failed", "broken"} :
             generation[g].pc = "summaries" /\ GenerationAt(g, pc) /\ JobOf(g, "failed")
      BY <1>8 DEF GenerationFails, DeletingRaises, Summarising
    <2> QED BY <1>1, <1>3, <2>1
  <1>9. ASSUME NEW g \in Generations, GenerationCancelled(g)
        PROVE  RowsKept' /\ [RouteTable!Next]_routeJob
    BY <1>2, <1>3, <1>9 DEF GenerationCancelled
  <1>10. ASSUME AllCutShort PROVE RowsKept' /\ [RouteTable!Next]_routeJob
    <2>1. \A g \in Generations : generation'[g] = generation[g] \/ generation'[g].pc = "lost"
      BY <1>0, <1>10 DEF AllCutShort, GenerationRows
    <2> QED BY <1>2, <1>10, <2>1 DEF AllCutShort
  <1>11. CASE UNCHANGED routesVars
    BY <1>2, <1>11 DEF routesVars
  <1> QED BY <1>4, <1>5, <1>6, <1>7, <1>8, <1>9, <1>10, <1>11
          DEF RoutesNext, GenerationMoves, DieSummarising, DieDeleting

\* A recompute job that ended keeps its outcome, however generations overlap,
\* are cancelled or break off (recompute_routes and its job).
THEOREM RouteJobsFinal == RoutesSpec => RouteJobsKept
  <1>1. RoutesInit => RowsKept /\ RouteTable!Init
    BY RoutesAssumption DEF RoutesInit, RowsKept, JobsLive, RouteTable!Init, RoutesAssumption
  <1> QED BY <1>1, RoutesInvAlways, RouteTableStep, PTL
          DEF RoutesSpec, RouteJobsKept, RouteTable!Spec

-----------------------------------------------------------------------------
(* Extraction: two jobs that share the cache *)

WorkerPlaces == {"idle", "queued", "memo", "chunks", "ended", "lost"}
ChunkPlaces == {"none", "waiting", "units", "relations", "done", "failed", "raised", "lost"}
UnitLists == {<<>>} \cup UNION {Answers[c] : c \in Chunks}
Entries == [units : UnitLists, memo : Memos, hit : BOOLEAN]
ChunkTasks == [at : ChunkPlaces, units : UnitLists, memo : Memos, linked : BOOLEAN]

ExtractRows ==
    /\ run \in [Jobs -> [pc : WorkerPlaces, memo : Memos]]
    /\ task \in [Jobs -> [Chunks -> ChunkTasks]]
    /\ cache \in [Chunks -> [Memos -> Entries]]
    /\ DOMAIN rows = Jobs

\* A chunk's units are those of the job's own memo, since a cache entry keeps
\* the memo that it is found under.
CacheKeyed == \A c \in Chunks, m \in Memos : cache[c][m].hit => cache[c][m].memo = m
OwnUnits == \A j \in Jobs, c \in Chunks : task[j][c].units # <<>> => task[j][c].memo = run[j].memo

\* Until the memo is read a job has no units and no candidates.
Unstarted == {"idle", "queued", "memo"}
NothingYet ==
    \A j \in Jobs : run[j].pc \in Unstarted => rows[j] = {} /\ \A c \in Chunks : task[j][c] = Unread

MemoInv == ExtractRows /\ CacheKeyed /\ OwnUnits /\ NothingYet /\ OwnMemo

\* The worker of a job moves and writes no candidate.
LEMMA WorkerKept ==
    ASSUME MemoInv, NEW j \in Jobs, NEW pc \in {"queued", "memo", "ended"}, At(j, pc),
           pc \in Unstarted => run[j].pc \in Unstarted, UNCHANGED <<rows, cache, task>>
    PROVE  MemoInv'
  <1>1. /\ run' \in [Jobs -> [pc : WorkerPlaces, memo : Memos]]
        /\ \A i \in Jobs : run'[i].memo = run[i].memo
        /\ \A i \in Jobs : run'[i].pc \in Unstarted => run[i].pc \in Unstarted
    BY DEF MemoInv, ExtractRows, At, WorkerPlaces
  <1> QED BY <1>1 DEF MemoInv, ExtractRows, CacheKeyed, OwnUnits, NothingYet, OwnMemo

\* A chunk moves on, with the units it has or with units of the job's memo.
LEMMA ChunkKept ==
    ASSUME MemoInv, NEW j \in Jobs, NEW c \in Chunks, NEW t \in ChunkTasks,
           task' = [task EXCEPT ![j][c] = t], task[j][c].at # "none",
           t.units # <<>> => t.memo = run[j].memo,
           cache' \in [Chunks -> [Memos -> Entries]], CacheKeyed', UNCHANGED <<rows, run>>
    PROVE  MemoInv'
  <1>1. /\ task' \in [Jobs -> [Chunks -> ChunkTasks]] /\ task'[j][c] = t
        /\ \A i \in Jobs, d \in Chunks : i # j \/ d # c => task'[i][d] = task[i][d]
    <2> DEFINE ts == [task[j] EXCEPT ![c] = t]
    <2>1. task' = [task EXCEPT ![j] = ts] /\ task \in [Jobs -> [Chunks -> ChunkTasks]]
      BY DEF MemoInv, ExtractRows
    <2>2. /\ ts \in [Chunks -> ChunkTasks] /\ ts[c] = t
          /\ \A d \in Chunks : d # c => ts[d] = task[j][d]
      BY <2>1
    <2> HIDE DEF ts
    <2> QED BY <2>1, <2>2
  <1>2. run[j].pc \notin Unstarted
    BY DEF MemoInv, NothingYet, Unread
  <1>3. NothingYet'
    BY <1>1, <1>2 DEF MemoInv, NothingYet
  <1>4. OwnUnits' /\ OwnMemo'
    BY <1>1 DEF MemoInv, OwnUnits, OwnMemo
  <1> QED BY <1>1, <1>3, <1>4 DEF MemoInv, ExtractRows

LEMMA KeptRows == ASSUME MemoInv, NEW j \in Jobs, NEW kept \in Deduped(Raw(j))
                  PROVE  \A r \in kept : r.memo = run[j].memo
  <1>1. \A r \in Raw(j) : \E c \in Chunks : \E u \in DOMAIN task[j][c].units : r = Row(j, c, u)
    BY DEF Raw
  <1>2. ASSUME NEW c \in Chunks, NEW u \in DOMAIN task[j][c].units
        PROVE  Row(j, c, u).memo = run[j].memo
    <2>1. task[j][c].units # <<>>
      OBVIOUS
    <2> QED BY <2>1 DEF MemoInv, OwnUnits, Row
  <1>3. kept \subseteq Raw(j)
    BY DEF Deduped
  <1> QED BY <1>1, <1>2, <1>3

LEMMA TakenUnits ==
    ASSUME NEW t \in ChunkTasks, NEW entry \in Entries
    PROVE  WithUnits(t, entry) \in ChunkTasks /\ WithUnits(t, entry).memo = entry.memo
  BY DEF WithUnits, Finished, ChunkTasks, ChunkPlaces, Entries

\* What dies keeps its memo and its units.
LEMMA LostRuns ==
    ASSUME run \in [Jobs -> [pc : WorkerPlaces, memo : Memos]], AllLost
    PROVE  /\ run' \in [Jobs -> [pc : WorkerPlaces, memo : Memos]]
           /\ \A i \in Jobs : /\ run'[i].memo = run[i].memo
                              /\ run'[i].pc = IF run[i].pc \in {"queued", "memo", "chunks"} THEN "lost"
                                               ELSE run[i].pc
  <1>1. ASSUME NEW i \in Jobs
        PROVE  /\ run'[i] \in [pc : WorkerPlaces, memo : Memos] /\ run'[i].memo = run[i].memo
               /\ run'[i].pc = IF run[i].pc \in {"queued", "memo", "chunks"} THEN "lost" ELSE run[i].pc
    <2>1. /\ run[i] \in [pc : WorkerPlaces, memo : Memos]
          /\ run'[i] = IF run[i].pc \in {"queued", "memo", "chunks"} THEN [run[i] EXCEPT !.pc = "lost"]
                       ELSE run[i]
      BY DEF AllLost
    <2> QED BY <2>1 DEF WorkerPlaces
  <1>2. run' = [i \in Jobs |-> run'[i]]
    BY DEF AllLost
  <1> QED BY <1>1, <1>2

LEMMA LostChunks ==
    ASSUME task \in [Jobs -> [Chunks -> ChunkTasks]], AllLost
    PROVE  /\ task' \in [Jobs -> [Chunks -> ChunkTasks]]
           /\ \A i \in Jobs, c \in Chunks : /\ task'[i][c].units = task[i][c].units
                                            /\ task'[i][c].memo = task[i][c].memo
                                            /\ task[i][c].at \in {"none", "done", "failed"} =>
                                                  task'[i][c] = task[i][c]
  <1>1. ASSUME NEW i \in Jobs, NEW c \in Chunks
        PROVE  /\ task'[i][c] \in ChunkTasks
               /\ task'[i][c].units = task[i][c].units /\ task'[i][c].memo = task[i][c].memo
               /\ task[i][c].at \in {"none", "done", "failed"} => task'[i][c] = task[i][c]
    <2>1. /\ task[i][c] \in ChunkTasks
          /\ task'[i][c] = IF task[i][c].at \in {"waiting", "units", "relations"}
                           THEN [task[i][c] EXCEPT !.at = "lost"] ELSE task[i][c]
      BY DEF AllLost
    <2> QED BY <2>1 DEF ChunkTasks, ChunkPlaces
  <1>2. task' = [i \in Jobs |-> [c \in Chunks |-> task'[i][c]]]
    BY DEF AllLost
  <1> QED BY <1>1, <1>2

\* The batch is written, wholly or in part, of units of the job.
LEMMA WrittenKept ==
    ASSUME MemoInv, NEW j \in Jobs, run[j].pc \in {"memo", "chunks"}, NEW kept \in Deduped(Raw(j)),
           rows' = rows \/ rows' = [rows EXCEPT ![j] = kept], UNCHANGED cache,
           \/ At(j, "ended") /\ UNCHANGED task
           \/ AllLost
    PROVE  MemoInv'
  <1>1. /\ run' \in [Jobs -> [pc : WorkerPlaces, memo : Memos]]
        /\ \A i \in Jobs : run'[i].memo = run[i].memo
        /\ \A i \in Jobs : run'[i].pc \in Unstarted => run[i].pc \in Unstarted /\ i # j
    <2>1. CASE At(j, "ended")
      BY <2>1 DEF MemoInv, ExtractRows, At, WorkerPlaces, Unstarted
    <2>2. CASE AllLost
      BY <2>2, LostRuns DEF MemoInv, ExtractRows, Unstarted
    <2> QED BY <2>1, <2>2
  <1>2. /\ task' \in [Jobs -> [Chunks -> ChunkTasks]]
        /\ \A i \in Jobs, c \in Chunks : /\ task'[i][c].units = task[i][c].units
                                         /\ task'[i][c].memo = task[i][c].memo
                                         /\ task[i][c] = Unread => task'[i][c] = Unread
    <2>1. CASE UNCHANGED task
      BY <2>1 DEF MemoInv, ExtractRows
    <2>2. CASE AllLost
      <3>1. task \in [Jobs -> [Chunks -> ChunkTasks]] /\ Unread.at = "none"
        BY DEF MemoInv, ExtractRows, Unread
      <3> QED BY <2>2, <3>1, LostChunks
    <2> QED BY <2>1, <2>2
  <1>3. /\ DOMAIN rows' = Jobs
        /\ \A i \in Jobs : i # j => rows'[i] = rows[i]
        /\ \A r \in rows'[j] : r.memo = run[j].memo
    BY KeptRows DEF MemoInv, ExtractRows, OwnMemo
  <1>4. NothingYet'
    BY <1>1, <1>2, <1>3 DEF MemoInv, NothingYet
  <1>5. OwnUnits' /\ OwnMemo'
    BY <1>1, <1>2, <1>3 DEF MemoInv, OwnUnits, OwnMemo
  <1> QED BY <1>1, <1>2, <1>3, <1>4, <1>5 DEF MemoInv, ExtractRows, CacheKeyed

-----------------------------------------------------------------------------
(* Extraction: the story of a job *)

BatchRows == [status : {"none", "running", "succeeded", "failed"}, partial : Nat, madeUp : BOOLEAN]
Live == {"queued", "memo", "chunks"}
StatusOf == [parsed |-> "running", extracted |-> "succeeded", extract_failed |-> "failed"]

StoryTyped ==
    /\ run \in [Jobs -> [pc : WorkerPlaces, memo : Memos]]
    /\ job \in [Jobs -> {"none", "queued", "running", "succeeded", "failed"}]
    /\ batch \in [Jobs -> BatchRows] /\ faults \in Nat

\* Only a job that was asked for has a status, and only such a job is the
\* last of the source.
StoryInv ==
    /\ StoryTyped
    /\ \A j \in Jobs : job[j] = "none" <=> run[j].pc = "idle"
    /\ \A j \in Jobs : run[j].pc = "ended" =>
          /\ job[j] \in {"succeeded", "failed"}
          /\ batch[j].status = job[j] \/ (job[j] = "failed" /\ faults > 0)
    /\ \/ source = [status |-> "imported", last |-> {}]
       \/ \E status \in DOMAIN StatusOf, j \in Jobs :
             /\ source = [status |-> status, last |-> {j}]
             /\ run[j].pc = "lost" \/ job[j] = StatusOf[status]

LEMMA StoryTold == ASSUME StoryInv PROVE OneStory
  <1>1. CASE source = [status |-> "imported", last |-> {}]
    BY <1>1 DEF StoryInv, OneStory
  <1>2. ASSUME NEW status \in DOMAIN StatusOf, NEW j \in Jobs,
               source = [status |-> status, last |-> {j}],
               run[j].pc = "lost" \/ job[j] = StatusOf[status]
        PROVE  OneStory
    BY <1>2 DEF StoryInv, OneStory, StatusOf
  <1> QED BY <1>1, <1>2 DEF StoryInv

\* A live job ends, and the source says so.
LEMMA StoryEnds ==
    ASSUME StoryInv, NEW j \in Jobs, run[j].pc \in Live, At(j, "ended"),
           NEW status \in {"extracted", "extract_failed"}, SourceIs(status, j),
           JobIs(j, StatusOf[status]), batch' \in [Jobs -> BatchRows],
           \A i \in Jobs \ {j} : batch'[i] = batch[i], faults' \in {faults, faults + 1},
           batch'[j].status = StatusOf[status] \/ (status = "extract_failed" /\ faults' > faults)
    PROVE  StoryInv'
  <1>1. /\ run' \in [Jobs -> [pc : WorkerPlaces, memo : Memos]] /\ run'[j].pc = "ended"
        /\ \A i \in Jobs \ {j} : run'[i] = run[i]
    BY DEF StoryInv, StoryTyped, At, WorkerPlaces
  <1>2. /\ StatusOf[status] \in {"succeeded", "failed"} /\ status \in DOMAIN StatusOf
        /\ status = "extract_failed" => StatusOf[status] = "failed"
    BY DEF StatusOf
  <1>3. /\ job' \in [Jobs -> {"none", "queued", "running", "succeeded", "failed"}]
        /\ job'[j] = StatusOf[status] /\ \A i \in Jobs \ {j} : job'[i] = job[i]
    BY <1>2 DEF StoryInv, StoryTyped, JobIs
  <1>4. source' = [status |-> status, last |-> {j}]
    BY DEF SourceIs
  <1>5. faults' \in Nat /\ faults' >= faults /\ faults \in Nat
    BY DEF StoryInv, StoryTyped
  <1>6. StoryTyped'
    BY <1>1, <1>3, <1>5 DEF StoryTyped
  <1>7. \A i \in Jobs : job'[i] = "none" <=> run'[i].pc = "idle"
    BY <1>1, <1>2, <1>3 DEF StoryInv
  <1>8. \A i \in Jobs : run'[i].pc = "ended" =>
            job'[i] \in {"succeeded", "failed"} /\ (batch'[i].status = job'[i] \/ (job'[i] = "failed" /\ faults' > 0))
    BY <1>1, <1>2, <1>3, <1>5 DEF StoryInv
  <1> QED BY <1>2, <1>3, <1>4, <1>6, <1>7, <1>8 DEF StoryInv

\* The process dies: job rows stay, and the source may have been written.
LEMMA StoryLost ==
    ASSUME StoryInv, AllLost, UNCHANGED job, batch' \in [Jobs -> BatchRows], faults' = faults + 1,
           \A i \in Jobs : run[i].pc = "ended" => batch'[i] = batch[i],
           UNCHANGED source \/ \E j \in Jobs : run[j].pc \in Live /\ SourceIs("extracted", j)
    PROVE  StoryInv'
  <1>1. /\ run' \in [Jobs -> [pc : WorkerPlaces, memo : Memos]]
        /\ \A i \in Jobs : run'[i].pc = IF run[i].pc \in Live THEN "lost" ELSE run[i].pc
    BY DEF StoryInv, StoryTyped, AllLost, WorkerPlaces, Live
  <1>2. StoryTyped'
    BY <1>1 DEF StoryInv, StoryTyped
  <1>3. \A i \in Jobs : job'[i] = "none" <=> run'[i].pc = "idle"
    BY <1>1 DEF StoryInv, Live
  <1>4. \A i \in Jobs : run'[i].pc = "ended" =>
            job'[i] \in {"succeeded", "failed"} /\ (batch'[i].status = job'[i] \/ (job'[i] = "failed" /\ faults' > 0))
    BY <1>1 DEF StoryInv, StoryTyped, Live
  <1>5. \/ source' = [status |-> "imported", last |-> {}]
        \/ \E status \in DOMAIN StatusOf, j \in Jobs :
              /\ source' = [status |-> status, last |-> {j}]
              /\ run'[j].pc = "lost" \/ job'[j] = StatusOf[status]
    <2>1. CASE UNCHANGED source
      BY <1>1, <2>1 DEF StoryInv, Live
    <2>2. ASSUME NEW j \in Jobs, run[j].pc \in Live, SourceIs("extracted", j)
          PROVE  \E status \in DOMAIN StatusOf, i \in Jobs :
                    /\ source' = [status |-> status, last |-> {i}]
                    /\ run'[i].pc = "lost" \/ job'[i] = StatusOf[status]
      BY <1>1, <2>2 DEF SourceIs, StatusOf
    <2> QED BY <2>1, <2>2
  <1> QED BY <1>2, <1>3, <1>4, <1>5 DEF StoryInv

\* Chunks are counted one by one.
LEMMA PartialCounts ==
    ASSUME NEW j \in Jobs, NEW madeUp \in BOOLEAN
    PROVE  /\ Partial(j, madeUp) \in Nat
           /\ Partial(j, madeUp) = 0 => ~madeUp /\ FailedChunks(j) = {}
  <1>1. IsFiniteSet(Chunks)
    <2>1. 1 \in Int /\ Planned + 1 \in Int
      BY ExtractAssumption
    <2> QED BY <2>1, FS_Interval DEF Chunks
  <1>2. IsFiniteSet(FailedChunks(j)) /\ Cardinality(FailedChunks(j)) \in Nat
    BY <1>1, FS_Subset, FS_CardinalityType DEF FailedChunks
  <1>3. Cardinality(FailedChunks(j)) = 0 => FailedChunks(j) = {}
    BY <1>2, FS_EmptySet
  <1> QED BY <1>2, <1>3 DEF Partial, Counted

LEMMA BatchWritten ==
    ASSUME batch \in [Jobs -> BatchRows], NEW j \in Jobs, NEW kept, NEW madeUp \in BOOLEAN,
           NEW n \in 0..6, NEW status \in {"none", "running", "succeeded", "failed"},
           Wrote(j, kept, madeUp, n, status)
    PROVE  /\ batch' \in [Jobs -> BatchRows] /\ batch'[j].status = status
           /\ \A i \in Jobs \ {j} : batch'[i] = batch[i]
           /\ n = 6 => /\ batch'[j].partial = Partial(j, madeUp)
                       /\ rows' = [rows EXCEPT ![j] = kept]
           /\ rows' = rows \/ rows' = [rows EXCEPT ![j] = kept]
  <1> DEFINE row == [status |-> status, madeUp |-> n >= 1 /\ madeUp,
                     partial |-> IF n >= 4 THEN Partial(j, madeUp) ELSE 0]
  <1>1. /\ batch' = [batch EXCEPT ![j] = row]
        /\ rows' = IF n >= 1 THEN [rows EXCEPT ![j] = kept] ELSE rows
    BY DEF Wrote
  <1>2. row \in BatchRows /\ row.status = status /\ (n = 6 => row.partial = Partial(j, madeUp))
    BY PartialCounts DEF BatchRows
  <1> HIDE DEF row
  <1> QED BY <1>1, <1>2

LEMMA MadeUpFlags == ASSUME NEW j \in Jobs PROVE MadeUp(j) \subseteq BOOLEAN
  BY DEF MadeUp

\* What a worker that comes to the last writes has written of them, and says.
LEMMA Concluded ==
    ASSUME NEW j \in Jobs, Conclude(j) \/ ConcludeRaises(j) \/ RecallRaises(j)
    PROVE  \E kept \in Deduped(Raw(j)), madeUp \in BOOLEAN, n \in 0..6,
              wrote \in {"succeeded", "failed"}, status \in {"extracted", "extract_failed"} :
             /\ Wrote(j, kept, madeUp, n, wrote)
             /\ SourceIs(status, j) /\ JobIs(j, StatusOf[status])
             /\ \/ wrote = StatusOf[status] /\ faults' \in {faults, faults + 1}
                \/ status = "extract_failed" /\ faults' = faults + 1
  <1>s. StatusOf["extract_failed"] = "failed" /\ StatusOf["extracted"] = "succeeded"
    BY DEF StatusOf
  <1>1. CASE Conclude(j)
    <2>1. PICK kept \in Deduped(Raw(j)), madeUp \in MadeUp(j) : Wrote(j, kept, madeUp, 6, "succeeded")
      BY <1>1 DEF Conclude
    <2>2. SourceIs("extracted", j) /\ JobIs(j, StatusOf["extracted"]) /\ faults' = faults
      BY <1>1, <1>s DEF Conclude
    <2>3. madeUp \in BOOLEAN /\ 6 \in 0..6
      BY MadeUpFlags
    <2> QED BY <1>s, <2>1, <2>2, <2>3
  <1>2. CASE ConcludeRaises(j)
    <2>1. PICK kept \in Deduped(Raw(j)), madeUp \in MadeUp(j), n \in 0..6 :
             Wrote(j, kept, madeUp, n, "failed")
      BY <1>2 DEF ConcludeRaises
    <2>2. /\ SourceIs("extract_failed", j) /\ JobIs(j, StatusOf["extract_failed"])
          /\ faults' = faults + 1
      BY <1>2, <1>s DEF ConcludeRaises, Fault
    <2>3. madeUp \in BOOLEAN
      BY MadeUpFlags
    <2> QED BY <1>s, <2>1, <2>2, <2>3
  <1>3. CASE RecallRaises(j)
    <2>1. PICK kept \in Deduped(Raw(j)), madeUp \in MadeUp(j) : Wrote(j, kept, madeUp, 6, "succeeded")
      BY <1>3 DEF RecallRaises
    <2>2. /\ SourceIs("extract_failed", j) /\ JobIs(j, StatusOf["extract_failed"])
          /\ faults' = faults + 1
      BY <1>3, <1>s DEF RecallRaises, Fault
    <2>3. madeUp \in BOOLEAN /\ 6 \in 0..6
      BY MadeUpFlags
    <2> QED BY <1>s, <2>1, <2>2, <2>3
  <1> QED BY <1>1, <1>2, <1>3

LEMMA DiedConcluding ==
    ASSUME NEW j \in Jobs, DieConcluding(j)
    PROVE  \E kept \in Deduped(Raw(j)), madeUp \in BOOLEAN, n \in 0..6,
              wrote \in {"succeeded", "running"} :
             /\ Wrote(j, kept, madeUp, n, wrote)
             /\ IF n >= 5 THEN SourceIs("extracted", j) ELSE UNCHANGED source
  <1>1. PICK kept \in Deduped(Raw(j)), madeUp \in MadeUp(j), n \in 0..5 :
          /\ Wrote(j, kept, madeUp, n, IF n >= 2 THEN "succeeded" ELSE "running")
          /\ IF n >= 5 THEN SourceIs("extracted", j) ELSE UNCHANGED source
    BY DEF DieConcluding
  <1>2. madeUp \in BOOLEAN /\ n \in 0..6
    BY MadeUpFlags
  <1>3. PICK wrote \in {"succeeded", "running"} : wrote = IF n >= 2 THEN "succeeded" ELSE "running"
    OBVIOUS
  <1>4. Wrote(j, kept, madeUp, n, wrote)
    BY <1>1, <1>3
  <1> QED BY <1>1, <1>2, <1>4

\* A worker that comes to its end leaves job, batch and source in agreement.
LEMMA StoryFails == ASSUME StoryInv, NEW j \in Jobs, run[j].pc \in Live, Failed(j), UNCHANGED faults
                    PROVE  StoryInv'
  <1>1. /\ At(j, "ended") /\ JobIs(j, "failed") /\ SourceIs("extract_failed", j)
        /\ batch' = [batch EXCEPT ![j].status = "failed"]
    BY DEF Failed, BatchIs
  <1>2. batch \in [Jobs -> BatchRows] /\ faults \in Nat
    BY DEF StoryInv, StoryTyped
  <1>3. /\ batch' \in [Jobs -> BatchRows] /\ batch'[j].status = "failed"
        /\ \A i \in Jobs \ {j} : batch'[i] = batch[i]
    BY <1>1, <1>2 DEF BatchRows
  <1>4. StatusOf["extract_failed"] = "failed"
    BY DEF StatusOf
  <1> QED BY <1>1, <1>2, <1>3, <1>4, StoryEnds

LEMMA StoryStep == ASSUME StoryInv, [ExtractNext]_extractVars PROVE StoryInv'
  <1>0. /\ run \in [Jobs -> [pc : WorkerPlaces, memo : Memos]]
        /\ batch \in [Jobs -> BatchRows] /\ faults \in Nat
        /\ job \in [Jobs -> {"none", "queued", "running", "succeeded", "failed"}]
    BY DEF StoryInv, StoryTyped
  <1>s. StatusOf["extract_failed"] = "failed" /\ StatusOf["extracted"] = "succeeded"
    BY DEF StatusOf
  <1>1. ASSUME NEW j \in Jobs, Request(j) PROVE StoryInv'
    <2>1. /\ job[j] = "none" /\ job' = [job EXCEPT ![j] = "queued"]
          /\ run' = [run EXCEPT ![j].pc = "queued"] /\ UNCHANGED <<batch, source, faults>>
      BY <1>1 DEF Request, JobIs, At, batchRows
    <2>2. /\ run' \in [Jobs -> [pc : WorkerPlaces, memo : Memos]] /\ run'[j].pc = "queued"
          /\ \A i \in Jobs \ {j} : run'[i] = run[i]
      BY <1>0, <2>1 DEF WorkerPlaces
    <2>3. StoryTyped'
      BY <1>0, <2>1, <2>2 DEF StoryTyped
    <2>4. run[j].pc = "idle"
      BY <2>1 DEF StoryInv
    <2>5. \/ source = [status |-> "imported", last |-> {}]
          \/ \E status \in DOMAIN StatusOf, i \in Jobs \ {j} :
                /\ source = [status |-> status, last |-> {i}]
                /\ run[i].pc = "lost" \/ job[i] = StatusOf[status]
      BY <2>1, <2>4 DEF StoryInv, StatusOf
    <2> QED BY <1>0, <2>1, <2>2, <2>3, <2>5 DEF StoryInv
  <1>2. ASSUME NEW j \in Jobs, Begin(j) PROVE StoryInv'
    <2>1. /\ run[j].pc = "queued" /\ job' = [job EXCEPT ![j] = "running"]
          /\ run' = [run EXCEPT ![j].pc = "memo"] /\ UNCHANGED faults
          /\ batch' = [batch EXCEPT ![j].status = "running"]
          /\ source' = [status |-> "parsed", last |-> {j}]
      BY <1>2 DEF Begin, JobIs, At, BatchIs, SourceIs
    <2>2. /\ run' \in [Jobs -> [pc : WorkerPlaces, memo : Memos]] /\ run'[j].pc = "memo"
          /\ \A i \in Jobs \ {j} : run'[i] = run[i]
      BY <1>0, <2>1 DEF WorkerPlaces
    <2>3. /\ batch' \in [Jobs -> BatchRows] /\ \A i \in Jobs \ {j} : batch'[i] = batch[i]
          /\ job' \in [Jobs -> {"none", "queued", "running", "succeeded", "failed"}]
          /\ job'[j] = "running" /\ \A i \in Jobs \ {j} : job'[i] = job[i]
      BY <1>0, <2>1 DEF BatchRows
    <2>4. StoryTyped'
      BY <1>0, <2>1, <2>2, <2>3 DEF StoryTyped
    <2>5. "parsed" \in DOMAIN StatusOf /\ StatusOf["parsed"] = "running"
      BY DEF StatusOf
    <2> QED BY <2>1, <2>2, <2>3, <2>4, <2>5 DEF StoryInv
  <1>3. ASSUME NEW j \in Jobs, ParseFails(j) \/ MemoFails(j) \/ GatherRaises(j) \/ AllChunksFailed(j)
        PROVE  StoryInv'
    <2>1. run[j].pc \in Live /\ Failed(j) /\ UNCHANGED faults
      BY <1>3 DEF ParseFails, MemoFails, GatherRaises, AllChunksFailed, AllRead, Live
    <2> QED BY <2>1, StoryFails
  <1>4. ASSUME NEW j \in Jobs, BeginRaises(j) \/ FailureRaises(j) PROVE StoryInv'
    <2>1. /\ run[j].pc \in Live /\ At(j, "ended") /\ SourceIs("extract_failed", j)
          /\ JobIs(j, StatusOf["extract_failed"]) /\ faults' = faults + 1
          /\ \E status \in {"running", "failed"} :
                batch' \in {batch, [batch EXCEPT ![j].status = status]}
      BY <1>4, <1>s DEF BeginRaises, FailureRaises, MayFail, AllRead, Fault, Live
    <2>2. batch' \in [Jobs -> BatchRows] /\ \A i \in Jobs \ {j} : batch'[i] = batch[i]
      BY <1>0, <2>1 DEF BatchRows
    <2> QED BY <1>0, <2>1, <2>2, StoryEnds
  <1>5. ASSUME NEW j \in Jobs, NEW m \in Memos, ReadMemo(j, m) PROVE StoryInv'
    <2>1. /\ run[j].pc = "memo" /\ run' = [run EXCEPT ![j] = [pc |-> "chunks", memo |-> m]]
          /\ UNCHANGED <<job, batch, source, faults>>
      BY <1>5 DEF ReadMemo, batchRows
    <2>2. /\ run' \in [Jobs -> [pc : WorkerPlaces, memo : Memos]] /\ run'[j].pc = "chunks"
          /\ \A i \in Jobs \ {j} : run'[i] = run[i]
      BY <1>0, <2>1 DEF WorkerPlaces
    <2> QED BY <1>0, <2>1, <2>2 DEF StoryInv, StoryTyped
  <1>6. ASSUME NEW j \in Jobs, NEW c \in Chunks, ChunkMoves(j, c) \/ ChunkRaises(j, c) PROVE StoryInv'
    <2>1. UNCHANGED <<job, batch, source, run>> /\ faults' \in {faults, faults + 1}
      BY <1>6 DEF ChunkMoves, ChunkStarts, ChunkUnits, ChunkRelations, ChunkFails, ChunkRaises,
                  Fault, batchRows
    <2> QED BY <1>0, <2>1 DEF StoryInv, StoryTyped
  <1>7. ASSUME NEW j \in Jobs, Conclude(j) \/ ConcludeRaises(j) \/ RecallRaises(j) PROVE StoryInv'
    <2>1. PICK kept \in Deduped(Raw(j)), madeUp \in BOOLEAN, n \in 0..6,
               wrote \in {"succeeded", "failed"}, status \in {"extracted", "extract_failed"} :
            /\ Wrote(j, kept, madeUp, n, wrote)
            /\ SourceIs(status, j) /\ JobIs(j, StatusOf[status])
            /\ \/ wrote = StatusOf[status] /\ faults' \in {faults, faults + 1}
               \/ status = "extract_failed" /\ faults' = faults + 1
      BY <1>7, Concluded
    <2>2. run[j].pc \in Live /\ At(j, "ended")
      BY <1>7 DEF Conclude, ConcludeRaises, RecallRaises, ReadyToConclude, AllRead, Live
    <2>3. batch' \in [Jobs -> BatchRows] /\ batch'[j].status = wrote
          /\ \A i \in Jobs \ {j} : batch'[i] = batch[i]
      BY <1>0, <2>1, BatchWritten
    <2> QED BY <1>0, <2>1, <2>2, <2>3, StoryEnds
  <1>8. ASSUME Die PROVE StoryInv'
    BY <1>0, <1>8, StoryLost DEF Die, Fault, batchRows
  <1>9. ASSUME NEW j \in Jobs, DieConcluding(j) PROVE StoryInv'
    <2>1. PICK kept \in Deduped(Raw(j)), madeUp \in BOOLEAN, n \in 0..6,
               wrote \in {"succeeded", "running"} :
            /\ Wrote(j, kept, madeUp, n, wrote)
            /\ IF n >= 5 THEN SourceIs("extracted", j) ELSE UNCHANGED source
      BY <1>9, DiedConcluding
    <2>2. run[j].pc \in Live /\ run[j].pc # "ended" /\ AllLost /\ UNCHANGED job /\ faults' = faults + 1
      BY <1>9 DEF DieConcluding, ReadyToConclude, AllRead, Live, Fault
    <2>3. batch' \in [Jobs -> BatchRows] /\ \A i \in Jobs \ {j} : batch'[i] = batch[i]
      BY <1>0, <2>1, BatchWritten
    <2> QED BY <2>1, <2>2, <2>3, StoryLost
  <1>10. ASSUME UNCHANGED extractVars PROVE StoryInv'
    BY <1>10 DEF extractVars, batchRows, StoryInv, StoryTyped
  <1> QED BY <1>1, <1>2, <1>3, <1>4, <1>5, <1>6, <1>7, <1>8, <1>9, <1>10
          DEF ExtractNext, JobMoves, WorkerMoves

LEMMA StoryStays == ExtractSpec => []StoryInv
  <1>1. ExtractInit => StoryInv
    <2> SUFFICES ASSUME ExtractInit PROVE StoryInv
      OBVIOUS
    <2>1. NoMemo \in Memos
      BY ExtractAssumption
    <2>2. run \in [Jobs -> [pc : WorkerPlaces, memo : Memos]]
      BY <2>1 DEF ExtractInit, WorkerPlaces
    <2>3. batch \in [Jobs -> BatchRows] /\ faults \in Nat
      BY DEF ExtractInit, BatchRows
    <2>4. job \in [Jobs -> {"none", "queued", "running", "succeeded", "failed"}]
      BY DEF ExtractInit
    <2>5. /\ \A j \in Jobs : job[j] = "none" /\ run[j].pc = "idle"
          /\ source = [status |-> "imported", last |-> {}]
      BY DEF ExtractInit
    <2> QED BY <2>2, <2>3, <2>4, <2>5 DEF StoryInv, StoryTyped
  <1> QED BY <1>1, StoryStep, PTL DEF ExtractSpec

\* Job, batch and source tell one story of every job that was not cut short by
\* a death, for any number of jobs on the source (extraction_worker.run).
THEOREM ExtractionTellsOneStory == ExtractSpec => []OneStory
  BY StoryStays, StoryTold, PTL

-----------------------------------------------------------------------------
(* Extraction: the rows of jobs *)

RowAt == [queued |-> "queued", memo |-> "running", chunks |-> "running"]

\* While a worker is under way, the row of its job says so.
RowsLive == \A j \in Jobs : run[j].pc \in Live => job[j] = RowAt[run[j].pc]

LEMMA ExtractTableStep ==
    ASSUME StoryInv, RowsLive, [ExtractNext]_extractVars
    PROVE  RowsLive' /\ [ExtractTable!Next]_job
  <1>0. /\ run \in [Jobs -> [pc : WorkerPlaces, memo : Memos]]
        /\ job \in [Jobs -> {"none", "queued", "running", "succeeded", "failed"}]
    BY DEF StoryInv, StoryTyped
  <1>a. ASSUME NEW j \in Jobs, NEW status, NEW pc, JobIs(j, status), At(j, pc),
               status \in ExtractTable!Later(job[j]), pc \in Live => status = RowAt[pc]
        PROVE  RowsLive' /\ ExtractTable!Next
    <2>1. /\ job' = [job EXCEPT ![j] = status] /\ job'[j] = status /\ run'[j].pc = pc
          /\ \A i \in Jobs \ {j} : job'[i] = job[i] /\ run'[i] = run[i]
      BY <1>0, <1>a DEF JobIs, At
    <2>2. RowsLive'
      BY <1>a, <2>1 DEF RowsLive
    <2> QED BY <1>a, <2>1, <2>2 DEF ExtractTable!Next, ExtractTable!Advance
  <1>b. ASSUME NEW j \in Jobs, run[j].pc \in Live, NEW status \in {"succeeded", "failed"}
        PROVE  status \in ExtractTable!Later(job[j])
    BY <1>b DEF RowsLive, Live, RowAt, ExtractTable!Later, ExtractTable!Outcomes
  <1>1. ASSUME NEW j \in Jobs, Request(j) PROVE RowsLive' /\ ExtractTable!Next
    <2>1. "queued" \in ExtractTable!Later("none") /\ RowAt["queued"] = "queued"
      BY DEF ExtractTable!Later, RowAt
    <2> QED BY <1>a, <1>1, <2>1 DEF Request
  <1>2. ASSUME NEW j \in Jobs, Begin(j) PROVE RowsLive' /\ ExtractTable!Next
    <2>1. job[j] = "queued"
      BY <1>2 DEF Begin, RowsLive, Live, RowAt
    <2>2. "running" \in ExtractTable!Later("queued") /\ RowAt["memo"] = "running"
      BY DEF ExtractTable!Later, RowAt
    <2> QED BY <1>a, <1>2, <2>1, <2>2 DEF Begin
  <1>3. ASSUME NEW j \in Jobs, NEW status \in {"succeeded", "failed"}, JobIs(j, status),
               At(j, "ended"), run[j].pc \in Live
        PROVE  RowsLive' /\ ExtractTable!Next
    <2>1. "ended" \notin Live
      BY DEF Live
    <2> QED BY <1>a, <1>b, <1>3, <2>1
  <1>4. ASSUME NEW j \in Jobs, \/ ParseFails(j) \/ MemoFails(j) \/ GatherRaises(j) \/ AllChunksFailed(j)
                               \/ BeginRaises(j) \/ FailureRaises(j)
                               \/ ConcludeRaises(j) \/ RecallRaises(j)
        PROVE  RowsLive' /\ ExtractTable!Next
    <2>1. run[j].pc \in Live /\ JobIs(j, "failed") /\ At(j, "ended")
      BY <1>4 DEF ParseFails, MemoFails, GatherRaises, AllChunksFailed, BeginRaises, FailureRaises,
                  MayFail, ConcludeRaises, RecallRaises, ReadyToConclude, AllRead, Failed, Live
    <2> QED BY <1>3, <2>1
  <1>5. ASSUME NEW j \in Jobs, Conclude(j) PROVE RowsLive' /\ ExtractTable!Next
    <2>1. run[j].pc \in Live /\ JobIs(j, "succeeded") /\ At(j, "ended")
      BY <1>5 DEF Conclude, ReadyToConclude, AllRead, Live
    <2> QED BY <1>3, <2>1
  <1>6. ASSUME NEW j \in Jobs, NEW m \in Memos, ReadMemo(j, m) PROVE RowsLive' /\ UNCHANGED job
    <2>1. /\ run[j].pc = "memo" /\ run'[j].pc = "chunks" /\ UNCHANGED job
          /\ \A i \in Jobs \ {j} : run'[i] = run[i]
      BY <1>0, <1>6 DEF ReadMemo
    <2> QED BY <2>1 DEF RowsLive, Live, RowAt
  <1>7. ASSUME UNCHANGED <<job, run>> PROVE RowsLive' /\ UNCHANGED job
    BY <1>7 DEF RowsLive
  <1>8. ASSUME UNCHANGED job, AllLost PROVE RowsLive' /\ UNCHANGED job
    <2>1. \A i \in Jobs : run'[i].pc \notin Live
      BY <1>0, <1>8 DEF AllLost, Live, WorkerPlaces
    <2> QED BY <1>8, <2>1 DEF RowsLive
  <1>9. ASSUME NEW j \in Jobs, NEW c \in Chunks, ChunkMoves(j, c) \/ ChunkRaises(j, c)
        PROVE  UNCHANGED <<job, run>>
    BY <1>9 DEF ChunkMoves, ChunkStarts, ChunkUnits, ChunkRelations, ChunkFails, ChunkRaises
  <1>10. ASSUME Die \/ \E j \in Jobs : DieConcluding(j) PROVE UNCHANGED job /\ AllLost
    BY <1>10 DEF Die, DieConcluding
  <1>11. CASE UNCHANGED extractVars
    BY <1>7, <1>11 DEF extractVars
  <1> QED BY <1>1, <1>2, <1>4, <1>5, <1>6, <1>7, <1>8, <1>9, <1>10, <1>11
          DEF ExtractNext, JobMoves, WorkerMoves

\* An extraction job that ended keeps its outcome: of worker and handler, which
\* both write it, the handler's word comes before anyone can see the worker's.
THEOREM ExtractJobsFinal == ExtractSpec => ExtractJobsKept
  <1>1. ExtractInit => RowsLive /\ ExtractTable!Init
    BY DEF ExtractInit, RowsLive, Live, ExtractTable!Init
  <1> QED BY <1>1, StoryStays, ExtractTableStep, PTL
          DEF ExtractSpec, ExtractJobsKept, ExtractTable!Spec

-----------------------------------------------------------------------------
(* Extraction: candidates of the job's own memo *)

LEMMA MemoStep == ASSUME MemoInv, StoryInv, [ExtractNext]_extractVars PROVE MemoInv'
  <1>1. ASSUME NEW j \in Jobs, Request(j) PROVE MemoInv'
    <2>1. At(j, "queued") /\ UNCHANGED <<rows, cache, task>> /\ run[j].pc \in Unstarted
      BY <1>1 DEF Request, batchRows, StoryInv, Unstarted
    <2> QED BY <2>1, WorkerKept
  <1>2. ASSUME NEW j \in Jobs,
               \/ Begin(j) \/ ParseFails(j) \/ MemoFails(j) \/ GatherRaises(j) \/ AllChunksFailed(j)
               \/ BeginRaises(j) \/ FailureRaises(j)
        PROVE  MemoInv'
    <2>1. UNCHANGED <<rows, cache, task>>
      BY <1>2 DEF Begin, ParseFails, MemoFails, GatherRaises, AllChunksFailed, BeginRaises,
                  FailureRaises, Failed
    <2>2. \/ At(j, "memo") /\ run[j].pc \in Unstarted
          \/ At(j, "ended") /\ "ended" \notin Unstarted
      BY <1>2 DEF Begin, ParseFails, MemoFails, GatherRaises, AllChunksFailed, BeginRaises,
                  FailureRaises, MayFail, AllRead, Failed, Unstarted
    <2> QED BY <2>1, <2>2, WorkerKept
  <1>3. ASSUME NEW j \in Jobs, NEW m \in Memos, ReadMemo(j, m) PROVE MemoInv'
    <2> DEFINE read == [c \in Chunks |-> IF c = Focus /\ m \notin Grounded THEN task[j][c]
                                         ELSE [task[j][c] EXCEPT !.at = "waiting"]]
    <2>1. /\ run[j].pc = "memo" /\ run' = [run EXCEPT ![j] = [pc |-> "chunks", memo |-> m]]
          /\ task' = [task EXCEPT ![j] = read] /\ UNCHANGED <<rows, cache>>
      BY <1>3 DEF ReadMemo, batchRows
    <2>2. rows[j] = {} /\ \A c \in Chunks : task[j][c] = Unread
      BY <2>1 DEF MemoInv, NothingYet, Unstarted
    <2>3. \A c \in Chunks : read[c] \in ChunkTasks /\ read[c].units = <<>>
      <3>1. /\ Unread \in ChunkTasks /\ Unread.units = <<>>
            /\ [Unread EXCEPT !.at = "waiting"] \in ChunkTasks
            /\ [Unread EXCEPT !.at = "waiting"].units = <<>>
        <4>1. NoMemo \in Memos /\ <<>> \in UnitLists
          BY ExtractAssumption DEF UnitLists
        <4> HIDE DEF UnitLists
        <4> QED BY <4>1 DEF ChunkTasks, ChunkPlaces, Unread
      <3> QED BY <2>2, <3>1
    <2>4. read \in [Chunks -> ChunkTasks]
      BY <2>3
    <2> HIDE DEF read
    <2>5. /\ task' \in [Jobs -> [Chunks -> ChunkTasks]] /\ task'[j] = read
          /\ \A i \in Jobs \ {j} : task'[i] = task[i]
      BY <2>1, <2>4 DEF MemoInv, ExtractRows
    <2>6. /\ run' \in [Jobs -> [pc : WorkerPlaces, memo : Memos]] /\ run'[j].pc = "chunks"
          /\ \A i \in Jobs \ {j} : run'[i] = run[i]
      BY <2>1 DEF MemoInv, ExtractRows, WorkerPlaces
    <2> QED BY <2>1, <2>2, <2>3, <2>5, <2>6
            DEF MemoInv, ExtractRows, CacheKeyed, OwnUnits, NothingYet, OwnMemo, Unstarted
  <1>4. ASSUME NEW j \in Jobs, NEW c \in Chunks, ChunkMoves(j, c) \/ ChunkRaises(j, c) PROVE MemoInv'
    <2> DEFINE t == task[j][c]
    <2>1. /\ t \in ChunkTasks /\ (t.units # <<>> => t.memo = run[j].memo) /\ run[j].memo \in Memos
          /\ cache \in [Chunks -> [Memos -> Entries]] /\ CacheKeyed
      BY DEF MemoInv, ExtractRows, OwnUnits
    <2>2. CASE ChunkStarts(j, c)
      <3> DEFINE entry == cache[c][run[j].memo]
                 new == IF entry.hit THEN WithUnits(t, entry) ELSE [t EXCEPT !.at = "units"]
      <3>1. /\ t.at = "waiting" /\ task' = [task EXCEPT ![j][c] = new]
            /\ UNCHANGED <<cache, rows, run>>
        BY <2>2 DEF ChunkStarts, CacheKey, batchRows
      <3>2. entry \in Entries /\ (entry.hit => entry.memo = run[j].memo)
        BY <2>1 DEF CacheKeyed
      <3>3. new \in ChunkTasks /\ (new.units # <<>> => new.memo = run[j].memo)
        <4>1. CASE entry.hit
          BY <2>1, <3>2, <4>1, TakenUnits
        <4>2. CASE ~entry.hit
          BY <2>1, <4>2 DEF ChunkTasks, ChunkPlaces
        <4> QED BY <4>1, <4>2
      <3>4. CacheKeyed' /\ cache' \in [Chunks -> [Memos -> Entries]]
        BY <2>1, <3>1 DEF CacheKeyed
      <3> HIDE DEF new
      <3> QED BY <3>1, <3>3, <3>4, ChunkKept
    <2>3. ASSUME NEW units \in Answers[c], ChunkUnits(j, c, units) PROVE MemoInv'
      <3> DEFINE entry == [units |-> units, memo |-> run[j].memo, hit |-> TRUE]
                 new == WithUnits(t, entry)
      <3>1. /\ t.at = "units" /\ task' = [task EXCEPT ![j][c] = new]
            /\ cache' = [cache EXCEPT ![c][run[j].memo] = entry] /\ UNCHANGED <<rows, run>>
        BY <2>3 DEF ChunkUnits, CacheKey, batchRows
      <3>2. entry \in Entries /\ entry.memo = run[j].memo
        BY <2>1 DEF Entries, UnitLists
      <3>3. new \in ChunkTasks /\ new.memo = run[j].memo
        <4> HIDE DEF entry
        <4> QED BY <2>1, <3>2, TakenUnits
      <3>4. CacheKeyed' /\ cache' \in [Chunks -> [Memos -> Entries]]
        <4> HIDE DEF entry
        <4> DEFINE es == [cache[c] EXCEPT ![run[j].memo] = entry]
        <4>1. cache' = [cache EXCEPT ![c] = es]
          BY <3>1
        <4>2. /\ es \in [Memos -> Entries] /\ es[run[j].memo] = entry
              /\ \A m \in Memos : m # run[j].memo => es[m] = cache[c][m]
          BY <2>1, <3>2
        <4> HIDE DEF es
        <4>3. cache' \in [Chunks -> [Memos -> Entries]] /\ cache'[c] = es
              /\ \A d \in Chunks : d # c => cache'[d] = cache[d]
          BY <2>1, <4>1, <4>2
        <4> QED BY <2>1, <3>2, <4>2, <4>3 DEF CacheKeyed
      <3> HIDE DEF new
      <3> QED BY <3>1, <3>3, <3>4, ChunkKept
    <2>4. CASE (\E linked \in BOOLEAN : ChunkRelations(j, c, linked)) \/ ChunkFails(j, c) \/ ChunkRaises(j, c)
      <3>1. PICK new :
              /\ task' = [task EXCEPT ![j][c] = new]
              /\ \/ \E linked \in BOOLEAN : new = Finished([t EXCEPT !.linked = linked])
                 \/ new = [t EXCEPT !.at = "failed"] \/ new = [t EXCEPT !.at = "raised"]
              /\ t.at # "none" /\ UNCHANGED <<cache, rows, run>>
        BY <2>4 DEF ChunkRelations, ChunkFails, ChunkRaises, Holding, batchRows
      <3>2. new \in ChunkTasks /\ new.units = t.units /\ new.memo = t.memo
        BY <2>1, <3>1 DEF Finished, ChunkTasks, ChunkPlaces
      <3>3. CacheKeyed' /\ cache' \in [Chunks -> [Memos -> Entries]]
        BY <2>1, <3>1 DEF CacheKeyed
      <3> QED BY <2>1, <3>1, <3>2, <3>3, ChunkKept
    <2> QED BY <1>4, <2>2, <2>3, <2>4 DEF ChunkMoves
  <1>5. ASSUME NEW j \in Jobs, Conclude(j) \/ ConcludeRaises(j) \/ RecallRaises(j) PROVE MemoInv'
    <2>1. PICK kept \in Deduped(Raw(j)), madeUp \in BOOLEAN, n \in 0..6,
               wrote \in {"succeeded", "failed"} : Wrote(j, kept, madeUp, n, wrote)
      BY <1>5, Concluded
    <2>2. /\ run[j].pc \in {"memo", "chunks"} /\ At(j, "ended") /\ UNCHANGED <<cache, task>>
      BY <1>5 DEF Conclude, ConcludeRaises, RecallRaises, ReadyToConclude, AllRead
    <2>3. rows' = rows \/ rows' = [rows EXCEPT ![j] = kept]
      BY <2>1 DEF Wrote
    <2> QED BY <2>2, <2>3, WrittenKept
  <1>6. CASE Die
    <2>1. UNCHANGED <<rows, cache>> /\ AllLost
      BY <1>6 DEF Die, batchRows
    <2>2. /\ run' \in [Jobs -> [pc : WorkerPlaces, memo : Memos]]
          /\ \A i \in Jobs : run'[i].memo = run[i].memo
          /\ \A i \in Jobs : run'[i].pc \in Unstarted => run[i].pc \in Unstarted
      BY <2>1, LostRuns DEF MemoInv, ExtractRows, Unstarted
    <2>3. task \in [Jobs -> [Chunks -> ChunkTasks]] /\ Unread.at = "none"
      BY DEF MemoInv, ExtractRows, Unread
    <2>4. /\ task' \in [Jobs -> [Chunks -> ChunkTasks]]
          /\ \A i \in Jobs, c \in Chunks : /\ task'[i][c].units = task[i][c].units
                                           /\ task'[i][c].memo = task[i][c].memo
                                           /\ task[i][c] = Unread => task'[i][c] = Unread
      BY <2>1, <2>3, LostChunks
    <2>5. NothingYet' /\ OwnUnits' /\ OwnMemo'
      BY <2>1, <2>2, <2>4 DEF MemoInv, NothingYet, OwnUnits, OwnMemo
    <2> QED BY <2>1, <2>2, <2>4, <2>5 DEF MemoInv, ExtractRows, CacheKeyed
  <1>7. ASSUME NEW j \in Jobs, DieConcluding(j) PROVE MemoInv'
    <2>1. PICK kept \in Deduped(Raw(j)), madeUp \in BOOLEAN, n \in 0..6,
               wrote \in {"succeeded", "running"} : Wrote(j, kept, madeUp, n, wrote)
      BY <1>7, DiedConcluding
    <2>2. run[j].pc \in {"memo", "chunks"} /\ AllLost /\ UNCHANGED cache
      BY <1>7 DEF DieConcluding, ReadyToConclude, AllRead
    <2>3. rows' = rows \/ rows' = [rows EXCEPT ![j] = kept]
      BY <2>1 DEF Wrote
    <2> QED BY <2>2, <2>3, WrittenKept
  <1>8. CASE UNCHANGED extractVars
    BY <1>8 DEF extractVars, batchRows, MemoInv, ExtractRows, CacheKeyed, OwnUnits, NothingYet, OwnMemo
  <1> QED BY <1>1, <1>2, <1>3, <1>4, <1>5, <1>6, <1>7, <1>8 DEF ExtractNext, JobMoves, WorkerMoves

LEMMA MemoStays == ExtractSpec => []MemoInv
  <1>1. ExtractInit => MemoInv
    <2> SUFFICES ASSUME ExtractInit PROVE MemoInv
      OBVIOUS
    <2>1. NoMemo \in Memos /\ <<>> \in UnitLists
      BY ExtractAssumption DEF UnitLists
    <2> HIDE DEF UnitLists
    <2>2. Unread \in ChunkTasks /\ NoEntry \in Entries /\ Unread.units = <<>> /\ NoEntry.hit = FALSE
      BY <2>1 DEF ChunkTasks, ChunkPlaces, Unread, Entries, NoEntry
    <2>3. run \in [Jobs -> [pc : WorkerPlaces, memo : Memos]]
      BY <2>1 DEF ExtractInit, WorkerPlaces
    <2>4. /\ task = [j \in Jobs |-> [c \in Chunks |-> Unread]] /\ rows = [j \in Jobs |-> {}]
          /\ cache = [c \in Chunks |-> [m \in Memos |-> NoEntry]]
      BY DEF ExtractInit
    <2> QED BY <2>2, <2>3, <2>4 DEF MemoInv, ExtractRows, CacheKeyed, OwnUnits, NothingYet, OwnMemo
  <1> QED BY <1>1, MemoStep, StoryStays, PTL DEF ExtractSpec

\* A candidate was extracted under the memo of its own job, whatever the jobs
\* on the source share through the cache (_paper_map_hash in the cache's key).
THEOREM ExtractionOwnMemo == ExtractSpec => []OwnMemo
  <1>1. MemoInv => OwnMemo
    BY DEF MemoInv
  <1> QED BY <1>1, MemoStays, PTL

-----------------------------------------------------------------------------
(* Extraction: jobs come to an end.  What follows is all of JobsEnd that is  *)
(* not fairness: a job always has a move to make, and it has not many.       *)

RunStage(pc) ==
    CASE pc = "idle" -> 0 [] pc = "queued" -> 1 [] pc = "memo" -> 2 [] pc = "chunks" -> 3
      [] pc \in {"ended", "lost"} -> 4
ChunkStage(at) ==
    CASE at = "none" -> 0 [] at = "waiting" -> 1 [] at = "units" -> 2 [] at = "relations" -> 3
      [] at \in {"done", "failed", "raised", "lost"} -> 4

RunLater(j) == RunStage(run[j].pc) < RunStage(run'[j].pc)
ChunkLater(j, c) == ChunkStage(task[j][c].at) < ChunkStage(task'[j][c].at)
NoneBack(j) ==
    /\ run'[j] = run[j] \/ RunLater(j)
    /\ \A c \in Chunks : task'[j][c] = task[j][c] \/ ChunkLater(j, c)

\* The moves a job in its chunks may make: to fail for a raise, to conclude,
\* to go on with a chunk that has a permit, or to give a permit to one.
MayMove(j) ==
    \/ \E c \in Chunks : task[j][c].at = "raised"
    \/ AllRead(j)
    \/ Holding(j) # {}
    \/ \E c \in Chunks : task[j][c].at = "waiting" /\ Cardinality(Holding(j)) < Width

\* No chunk of a job under way is lost.
ChunksLive == \A j \in Jobs : run[j].pc \in Live => \A c \in Chunks : task[j][c].at # "lost"

\* A chunk moves to a later place and leaves the worker and the others alone.
LEMMA ChunkGoesOn ==
    ASSUME ExtractRows, NEW j \in Jobs, NEW c \in Chunks, ChunkMoves(j, c) \/ ChunkRaises(j, c)
    PROVE  /\ run' = run /\ ChunkLater(j, c) /\ task'[j][c].at # "lost"
           /\ \A i \in Jobs, d \in Chunks : i # j \/ d # c => task'[i][d] = task[i][d]
  <1>1. ASSUME NEW t, task' = [task EXCEPT ![j][c] = t]
        PROVE  /\ task'[j][c] = t
               /\ \A i \in Jobs, d \in Chunks : i # j \/ d # c => task'[i][d] = task[i][d]
    BY <1>1 DEF ExtractRows
  <1>2. \E t : task' = [task EXCEPT ![j][c] = t]
    BY DEF ChunkMoves, ChunkStarts, ChunkUnits, ChunkRelations, ChunkFails, ChunkRaises
  <1>3. task[j][c] \in ChunkTasks /\ cache[c] \in [Memos -> Entries]
    BY DEF ExtractRows
  <1>4. \A entry : WithUnits(task[j][c], entry).at \in {"relations", "done"}
    BY <1>3 DEF WithUnits, Finished, ChunkTasks
  <1>5. ASSUME ChunkStarts(j, c)
        PROVE  task[j][c].at = "waiting" /\ task'[j][c].at \in {"units", "relations", "done"} /\ run' = run
    BY <1>3, <1>4, <1>5 DEF ChunkStarts, ExtractRows, ChunkTasks
  <1>6. ASSUME NEW units, ChunkUnits(j, c, units)
        PROVE  task[j][c].at = "units" /\ task'[j][c].at \in {"relations", "done"} /\ run' = run
    BY <1>3, <1>4, <1>6 DEF ChunkUnits, ExtractRows, ChunkTasks
  <1>7. ASSUME NEW linked, ChunkRelations(j, c, linked)
        PROVE  task[j][c].at = "relations" /\ task'[j][c].at = "done" /\ run' = run
    BY <1>3, <1>7 DEF ChunkRelations, Finished, ExtractRows, ChunkTasks
  <1>8. ASSUME ChunkFails(j, c) \/ ChunkRaises(j, c)
        PROVE  task[j][c].at \in {"units", "relations"} /\ task'[j][c].at \in {"failed", "raised"} /\ run' = run
    BY <1>3, <1>8 DEF ChunkFails, ChunkRaises, Holding, ExtractRows, ChunkTasks
  <1>9. /\ run' = run /\ task'[j][c].at # "lost"
        /\ \/ task[j][c].at = "waiting" /\ task'[j][c].at \in {"units", "relations", "done"}
           \/ task[j][c].at = "units" /\ task'[j][c].at \in {"relations", "done", "failed", "raised"}
           \/ task[j][c].at = "relations" /\ task'[j][c].at \in {"done", "failed", "raised"}
    BY <1>5, <1>6, <1>7, <1>8 DEF ChunkMoves
  <1>10. ChunkLater(j, c)
    BY <1>9 DEF ChunkLater, ChunkStage
  <1> QED BY <1>1, <1>2, <1>9, <1>10

\* The worker of a job moves, and nothing of another job does.
LEMMA WorkerGoesOn ==
    ASSUME MemoInv, NEW j \in Jobs,
           \/ WorkerMoves(j) \/ Request(j) \/ BeginRaises(j) \/ FailureRaises(j)
           \/ ConcludeRaises(j) \/ RecallRaises(j),
           job[j] = "none" => run[j].pc = "idle"
    PROVE  /\ RunLater(j) /\ NoneBack(j)
           /\ \A i \in Jobs \ {j} : run'[i] = run[i] /\ task'[i] = task[i]
           /\ \A c \in Chunks : task'[j][c].at = "lost" => task[j][c].at = "lost"
  <1>1. /\ run \in [Jobs -> [pc : WorkerPlaces, memo : Memos]]
        /\ task \in [Jobs -> [Chunks -> ChunkTasks]]
    BY DEF MemoInv, ExtractRows
  <1>2. ASSUME NEW pc \in {"queued", "memo", "ended"}, At(j, pc), UNCHANGED task,
               RunStage(run[j].pc) < RunStage(pc)
        PROVE  /\ RunLater(j) /\ NoneBack(j)
               /\ \A i \in Jobs \ {j} : run'[i] = run[i] /\ task'[i] = task[i]
               /\ \A c \in Chunks : task'[j][c].at = "lost" => task[j][c].at = "lost"
    <2>1. run'[j].pc = pc /\ \A i \in Jobs \ {j} : run'[i] = run[i]
      BY <1>1, <1>2 DEF At
    <2> QED BY <1>2, <2>1 DEF RunLater, NoneBack
  <1>3. CASE Request(j)
    <2>1. At(j, "queued") /\ UNCHANGED task /\ run[j].pc = "idle"
      BY <1>3 DEF Request, batchRows
    <2> QED BY <1>2, <2>1 DEF RunStage
  <1>4. CASE Begin(j)
    <2>1. At(j, "memo") /\ UNCHANGED task /\ run[j].pc = "queued"
      BY <1>4 DEF Begin
    <2> QED BY <1>2, <2>1 DEF RunStage
  <1>5. CASE \/ ParseFails(j) \/ BeginRaises(j) \/ FailureRaises(j) \/ MemoFails(j)
             \/ GatherRaises(j) \/ AllChunksFailed(j) \/ Conclude(j) \/ ConcludeRaises(j) \/ RecallRaises(j)
    <2>1. At(j, "ended") /\ UNCHANGED task /\ run[j].pc \in {"queued", "memo", "chunks"}
      BY <1>5 DEF ParseFails, BeginRaises, FailureRaises, MayFail, MemoFails, GatherRaises,
                  AllChunksFailed, Conclude, ConcludeRaises, RecallRaises, Failed, ReadyToConclude, AllRead
    <2> QED BY <1>2, <2>1 DEF RunStage
  <1>6. ASSUME NEW m \in Memos, ReadMemo(j, m)
        PROVE  /\ RunLater(j) /\ NoneBack(j)
               /\ \A i \in Jobs \ {j} : run'[i] = run[i] /\ task'[i] = task[i]
               /\ \A c \in Chunks : task'[j][c].at = "lost" => task[j][c].at = "lost"
    <2>1. /\ run[j].pc = "memo" /\ run'[j].pc = "chunks"
          /\ \A i \in Jobs \ {j} : run'[i] = run[i] /\ task'[i] = task[i]
      BY <1>1, <1>6 DEF ReadMemo
    <2>2. \A c \in Chunks : task[j][c].at = "none"
      BY <2>1 DEF MemoInv, NothingYet, Unstarted, Unread
    <2>3. \A c \in Chunks : task'[j][c] = task[j][c] \/ task'[j][c] = [task[j][c] EXCEPT !.at = "waiting"]
      BY <1>1, <1>6 DEF ReadMemo
    <2>4. ASSUME NEW c \in Chunks PROVE task'[j][c] = task[j][c] \/ task'[j][c].at = "waiting"
      <3>1. task[j][c] \in ChunkTasks
        BY <1>1
      <3>2. [task[j][c] EXCEPT !.at = "waiting"].at = "waiting"
        BY <3>1 DEF ChunkTasks
      <3> QED BY <2>3, <3>2
    <2> QED BY <2>1, <2>2, <2>4 DEF RunLater, NoneBack, ChunkLater, RunStage, ChunkStage
  <1> QED BY <1>3, <1>4, <1>5, <1>6 DEF WorkerMoves

\* A death takes every job that was under way to its end.
LEMMA LostGoesOn ==
    ASSUME ExtractRows, AllLost, NEW i \in Jobs
    PROVE  NoneBack(i) /\ run'[i].pc \notin Live
  <1>1. /\ run[i] \in [pc : WorkerPlaces, memo : Memos]
        /\ run'[i] = IF run[i].pc \in {"queued", "memo", "chunks"} THEN [run[i] EXCEPT !.pc = "lost"]
                     ELSE run[i]
    BY DEF ExtractRows, AllLost
  <1>2. ASSUME NEW c \in Chunks PROVE task'[i][c] = task[i][c] \/ ChunkLater(i, c)
    <2>1. /\ task[i][c] \in ChunkTasks
          /\ task'[i][c] = IF task[i][c].at \in {"waiting", "units", "relations"}
                           THEN [task[i][c] EXCEPT !.at = "lost"] ELSE task[i][c]
      BY DEF ExtractRows, AllLost
    <2> QED BY <2>1 DEF ChunkTasks, ChunkLater, ChunkStage
  <1>3. run'[i] = run[i] \/ RunLater(i)
    BY <1>1 DEF RunLater, RunStage
  <1>4. run'[i].pc \notin Live
    BY <1>1 DEF Live, WorkerPlaces
  <1> QED BY <1>2, <1>3, <1>4 DEF NoneBack

LEMMA JobsGoOn ==
    ASSUME MemoInv, StoryInv, ChunksLive, [ExtractNext]_extractVars
    PROVE  /\ ChunksLive'
           /\ \A j \in Jobs : NoneBack(j)
           /\ \A j \in Jobs : JobMoves(j) => RunLater(j) \/ \E c \in Chunks : ChunkLater(j, c)
  <1>1. ExtractRows /\ \A j \in Jobs : job[j] = "none" => run[j].pc = "idle"
    BY DEF MemoInv, StoryInv
  <1>2. ASSUME NEW j \in Jobs, JobMoves(j) PROVE RunLater(j) \/ \E c \in Chunks : ChunkLater(j, c)
    BY <1>1, <1>2, WorkerGoesOn, ChunkGoesOn DEF JobMoves
  <1>3. ASSUME NEW j \in Jobs,
               \/ WorkerMoves(j) \/ Request(j) \/ BeginRaises(j) \/ FailureRaises(j)
               \/ ConcludeRaises(j) \/ RecallRaises(j)
        PROVE  ChunksLive' /\ \A i \in Jobs : NoneBack(i)
    <2>1. /\ RunLater(j) /\ NoneBack(j)
          /\ \A i \in Jobs \ {j} : run'[i] = run[i] /\ task'[i] = task[i]
          /\ \A c \in Chunks : task'[j][c].at = "lost" => task[j][c].at = "lost"
      BY <1>1, <1>3, WorkerGoesOn
    <2>2. \A i \in Jobs : NoneBack(i)
      BY <2>1 DEF NoneBack
    <2>3. run[j].pc \in Live \/ \A c \in Chunks : task[j][c].at # "lost"
      BY <1>1, <1>3 DEF WorkerMoves, Request, Begin, ParseFails, ReadMemo, MemoFails, GatherRaises,
                        AllChunksFailed, Conclude, BeginRaises, FailureRaises, MayFail, ConcludeRaises,
                        RecallRaises, ReadyToConclude, AllRead, Live, MemoInv, NothingYet, Unstarted, Unread
    <2> QED BY <2>1, <2>2, <2>3 DEF ChunksLive
  <1>4. ASSUME NEW j \in Jobs, NEW c \in Chunks, ChunkMoves(j, c) \/ ChunkRaises(j, c)
        PROVE  ChunksLive' /\ \A i \in Jobs : NoneBack(i)
    <2>1. /\ run' = run /\ ChunkLater(j, c) /\ task'[j][c].at # "lost"
          /\ \A i \in Jobs, d \in Chunks : i # j \/ d # c => task'[i][d] = task[i][d]
      BY <1>1, <1>4, ChunkGoesOn
    <2> QED BY <2>1 DEF ChunksLive, NoneBack
  <1>5. ASSUME AllLost PROVE ChunksLive' /\ \A i \in Jobs : NoneBack(i)
    BY <1>1, <1>5, LostGoesOn DEF ChunksLive
  <1>6. ASSUME UNCHANGED extractVars PROVE ChunksLive' /\ \A i \in Jobs : NoneBack(i)
    BY <1>6 DEF extractVars, ChunksLive, NoneBack
  <1>7. Die \/ (\E j \in Jobs : DieConcluding(j)) => AllLost
    BY DEF Die, DieConcluding
  <1> QED BY <1>2, <1>3, <1>4, <1>5, <1>6, <1>7 DEF ExtractNext, JobMoves

\* No move of any job, and no death, sets a worker or a chunk back, and each
\* move of a job takes its worker or one of its chunks to a later place: a job
\* makes a bounded number of moves (ExtractionWorker.run, process_chunk).
THEOREM ExtractJobsAdvance ==
    ExtractSpec => [][\A j \in Jobs :
                          /\ NoneBack(j)
                          /\ JobMoves(j) => RunLater(j) \/ \E c \in Chunks : ChunkLater(j, c)]_extractVars
  <1>1. ExtractInit => ChunksLive
    BY DEF ExtractInit, ChunksLive, Live
  <1>2. MemoInv /\ StoryInv /\ ChunksLive /\ [ExtractNext]_extractVars =>
          /\ ChunksLive'
          /\ [\A j \in Jobs :
                  /\ NoneBack(j)
                  /\ JobMoves(j) => RunLater(j) \/ \E c \in Chunks : ChunkLater(j, c)]_extractVars
    BY JobsGoOn
  <1> QED BY <1>1, <1>2, MemoStays, StoryStays, PTL DEF ExtractSpec

\* And as long as a job has chunks to read it can make one: however the permits
\* of the semaphore are handed round, no chunk waits for one that nobody will
\* give back (process_chunk).
THEOREM ExtractNeverStuck == ExtractSpec => [](\A j \in Jobs : run[j].pc = "chunks" => MayMove(j))
  <1>1. ExtractInit => ChunksLive
    BY DEF ExtractInit, ChunksLive, Live
  <1>2. MemoInv /\ StoryInv /\ ChunksLive /\ [ExtractNext]_extractVars => ChunksLive'
    BY JobsGoOn
  <1>3. ASSUME MemoInv, ChunksLive, NEW j \in Jobs, run[j].pc = "chunks" PROVE MayMove(j)
    <2>1. SUFFICES ASSUME Holding(j) = {}, \A c \in Chunks : task[j][c].at # "raised", ~AllRead(j)
                   PROVE  \E c \in Chunks : task[j][c].at = "waiting" /\ Cardinality(Holding(j)) < Width
      BY DEF MayMove
    <2>2. Cardinality(Holding(j)) = 0 /\ Width \in Nat /\ Width > 0
      BY <2>1, FS_EmptySet, ExtractAssumption DEF ExtractAssumption
    <2>3. PICK c \in Chunks : task[j][c].at \notin {"none", "done", "failed"}
      BY <1>3, <2>1 DEF AllRead
    <2>4. task[j][c].at \in ChunkPlaces /\ task[j][c].at # "lost"
      BY <1>3 DEF MemoInv, ExtractRows, ChunkTasks, ChunksLive, Live
    <2>5. task[j][c].at = "waiting"
      BY <2>1, <2>3, <2>4 DEF Holding, ChunkPlaces
    <2> QED BY <2>2, <2>5
  <1>4. MemoInv /\ ChunksLive => \A j \in Jobs : run[j].pc = "chunks" => MayMove(j)
    BY <1>3
  <1> QED BY <1>1, <1>2, <1>4, MemoStays, StoryStays, PTL DEF ExtractSpec

-----------------------------------------------------------------------------
(* Extraction: what a succeeded job accounts for *)

\* The conjuncts of Accounted, of one job.
Told(j) ==
    /\ {r.text : r \in rows[j]} = {r.text : r \in Raw(j)}
    /\ \A r, s \in rows[j] : r.text = s.text => r = s
    /\ batch[j].partial = 0 =>
          \A c \in Chunks : /\ task[j][c].at \in {"none", "done"}
                            /\ task[j][c].at = "none" => c = Focus
AtRest(j) == \A c \in Chunks : task[j][c].at \in {"none", "done", "failed"}

\* A succeeded job has ended and none of its chunks moves any more.
AccountInv ==
    /\ \A j \in Jobs : run[j].pc = "chunks" => \A c \in Chunks : task[j][c].at = "none" => c = Focus
    /\ \A j \in Jobs : job[j] = "succeeded" => run[j].pc = "ended" /\ AtRest(j) /\ Told(j)

\* A job that the step leaves alone, or that it does not let succeed.
LEMMA AccountKept ==
    ASSUME AccountInv, NEW i \in Jobs,
           job'[i] = "succeeded" =>
               /\ job[i] = "succeeded" /\ run'[i].pc = "ended"
               /\ rows'[i] = rows[i] /\ batch'[i] = batch[i] /\ task'[i] = task[i]
    PROVE  job'[i] = "succeeded" => run'[i].pc = "ended" /\ AtRest(i)' /\ Told(i)'
  <1> SUFFICES ASSUME job'[i] = "succeeded" PROVE run'[i].pc = "ended" /\ AtRest(i)' /\ Told(i)'
    OBVIOUS
  <1>1. AtRest(i) /\ Told(i) /\ run'[i].pc = "ended"
    BY DEF AccountInv
  <1>2. Raw(i)' = Raw(i)
    BY DEF Raw, Row
  <1> QED BY <1>1, <1>2 DEF AtRest, Told

\* What the job's last writes say is what its chunks found.
LEMMA ConcludeTells ==
    ASSUME AccountInv, MemoInv, NEW j \in Jobs, ReadyToConclude(j),
           batch \in [Jobs -> BatchRows], UNCHANGED task,
           NEW kept \in Deduped(Raw(j)), NEW madeUp \in MadeUp(j), Wrote(j, kept, madeUp, 6, "succeeded")
    PROVE  AtRest(j)' /\ Told(j)'
  <1>0. madeUp \in BOOLEAN
    BY MadeUpFlags
  <1>1. rows'[j] = kept /\ batch'[j].partial = Partial(j, madeUp)
    BY <1>0, BatchWritten DEF MemoInv, ExtractRows
  <1>2. Raw(j)' = Raw(j)
    BY DEF Raw, Row
  <1>3. AtRest(j)
    BY DEF ReadyToConclude, AllRead, AtRest, MemoInv, NothingYet, Unstarted, Unread
  <1>4. {r.text : r \in kept} = {r.text : r \in Raw(j)}
    BY DEF Deduped, Same
  <1>5. \A r, s \in kept : r.text = s.text => r = s
    BY DEF Deduped, Same
  <1>6. ASSUME Partial(j, madeUp) = 0, NEW c \in Chunks
        PROVE  task[j][c].at \in {"none", "done"} /\ (task[j][c].at = "none" => c = Focus)
    <2>1. FailedChunks(j) = {} /\ ~madeUp
      BY <1>0, <1>6, PartialCounts
    <2>2. run[j].pc = "chunks"
      BY <2>1 DEF ReadyToConclude, AllRead, MadeUp
    <2> QED BY <1>3, <2>1, <2>2 DEF AtRest, FailedChunks, AccountInv
  <1> QED BY <1>1, <1>2, <1>3, <1>4, <1>5, <1>6 DEF AtRest, Told

LEMMA AccountStep ==
    ASSUME AccountInv, MemoInv, StoryInv, [ExtractNext]_extractVars PROVE AccountInv'
  <1>0. /\ run \in [Jobs -> [pc : WorkerPlaces, memo : Memos]]
        /\ task \in [Jobs -> [Chunks -> ChunkTasks]] /\ batch \in [Jobs -> BatchRows]
        /\ job \in [Jobs -> {"none", "queued", "running", "succeeded", "failed"}]
        /\ DOMAIN rows = Jobs
    BY DEF StoryInv, StoryTyped, MemoInv, ExtractRows
  <1> DEFINE Stays(i) == job'[i] = "succeeded" =>
                            /\ job[i] = "succeeded" /\ run'[i].pc = "ended"
                            /\ rows'[i] = rows[i] /\ batch'[i] = batch[i] /\ task'[i] = task[i]
             Reads(i) == run'[i].pc = "chunks" =>
                            \A c \in Chunks : task'[i][c].at = "none" => c = Focus
  <1>a. ASSUME \A i \in Jobs : Stays(i) /\ Reads(i) PROVE AccountInv'
    <2>1. ASSUME NEW i \in Jobs
          PROVE  job'[i] = "succeeded" => run'[i].pc = "ended" /\ AtRest(i)' /\ Told(i)'
      BY <1>a, AccountKept
    <2> QED BY <1>a, <2>1 DEF AccountInv
  <1>1. ASSUME NEW j \in Jobs, Request(j) PROVE AccountInv'
    <2>1. /\ job' = [job EXCEPT ![j] = "queued"] /\ run' = [run EXCEPT ![j].pc = "queued"]
          /\ UNCHANGED <<rows, batch, task>>
      BY <1>1 DEF Request, JobIs, At, batchRows
    <2> QED BY <1>0, <1>a, <2>1 DEF AccountInv
  <1>2. ASSUME NEW j \in Jobs,
               \/ Begin(j) \/ ParseFails(j) \/ MemoFails(j) \/ GatherRaises(j) \/ AllChunksFailed(j)
               \/ BeginRaises(j) \/ FailureRaises(j)
        PROVE  AccountInv'
    <2>1. /\ UNCHANGED <<rows, task>> /\ \E status \in {"running", "failed"} : JobIs(j, status)
          /\ \E pc \in {"memo", "ended"} : At(j, pc)
          /\ \E status \in {"running", "failed"} :
                batch' \in {batch, [batch EXCEPT ![j].status = status]}
      BY <1>2 DEF Begin, ParseFails, MemoFails, GatherRaises, AllChunksFailed, BeginRaises,
                  FailureRaises, Failed, BatchIs
    <2>2. /\ \A i \in Jobs \ {j} : batch'[i] = batch[i] /\ job'[i] = job[i] /\ run'[i] = run[i]
          /\ job'[j] # "succeeded" /\ run'[j].pc # "chunks"
      BY <1>0, <2>1 DEF JobIs, At
    <2> QED BY <1>a, <2>1, <2>2 DEF AccountInv
  <1>3. ASSUME NEW j \in Jobs, NEW m \in Memos, ReadMemo(j, m) PROVE AccountInv'
    <2>1. /\ run[j].pc = "memo" /\ run' = [run EXCEPT ![j] = [pc |-> "chunks", memo |-> m]]
          /\ task' = [task EXCEPT ![j] = [c \in Chunks |->
                IF c = Focus /\ m \notin Grounded THEN @[c] ELSE [@[c] EXCEPT !.at = "waiting"]]]
          /\ UNCHANGED <<rows, batch, job>>
      BY <1>3 DEF ReadMemo, batchRows
    <2>2. job[j] # "succeeded"
      BY <2>1 DEF AccountInv
    <2>3. ASSUME NEW c \in Chunks, c # Focus PROVE task'[j][c].at = "waiting"
      <3>1. task[j][c] \in ChunkTasks /\ task'[j][c] = [task[j][c] EXCEPT !.at = "waiting"]
        BY <1>0, <2>1, <2>3
      <3> QED BY <3>1 DEF ChunkTasks
    <2>4. Reads(j)
      BY <2>3
    <2>5. \A i \in Jobs \ {j} : run'[i] = run[i] /\ task'[i] = task[i]
      BY <1>0, <2>1
    <2> QED BY <1>a, <2>1, <2>2, <2>4, <2>5 DEF AccountInv
  <1>4. ASSUME NEW j \in Jobs, NEW c \in Chunks, ChunkMoves(j, c) \/ ChunkRaises(j, c)
        PROVE  AccountInv'
    <2>1. PICK t : /\ task' = [task EXCEPT ![j][c] = t] /\ t.at # "none"
                   /\ task[j][c].at \notin {"none", "done", "failed"}
                   /\ UNCHANGED <<job, run, batch, rows>>
      <3>1. task[j][c] \in ChunkTasks
        BY <1>0
      <3>2. CASE ChunkStarts(j, c)
        <4> DEFINE entry == cache[c][run[j].memo]
                   new == IF entry.hit THEN WithUnits(task[j][c], entry)
                          ELSE [task[j][c] EXCEPT !.at = "units"]
        <4>1. /\ task[j][c].at = "waiting" /\ task' = [task EXCEPT ![j][c] = new]
              /\ UNCHANGED <<job, run, batch, rows>>
          BY <3>2 DEF ChunkStarts, CacheKey, batchRows
        <4>2. new.at # "none"
          BY <3>1 DEF ChunkTasks, WithUnits, Finished
        <4> HIDE DEF new
        <4> QED BY <4>1, <4>2
      <3>3. ASSUME NEW units \in Answers[c], ChunkUnits(j, c, units)
            PROVE  \E t : /\ task' = [task EXCEPT ![j][c] = t] /\ t.at # "none"
                          /\ task[j][c].at \notin {"none", "done", "failed"}
                          /\ UNCHANGED <<job, run, batch, rows>>
        <4> DEFINE new == WithUnits(task[j][c], [units |-> units, memo |-> run[j].memo, hit |-> TRUE])
        <4>1. /\ task[j][c].at = "units" /\ task' = [task EXCEPT ![j][c] = new]
              /\ UNCHANGED <<job, run, batch, rows>>
          BY <3>3 DEF ChunkUnits, CacheKey, batchRows
        <4>2. new.at # "none"
          BY <3>1 DEF ChunkTasks, WithUnits, Finished
        <4> HIDE DEF new
        <4> QED BY <4>1, <4>2
      <3>4. ASSUME NEW linked \in BOOLEAN, ChunkRelations(j, c, linked)
            PROVE  \E t : /\ task' = [task EXCEPT ![j][c] = t] /\ t.at # "none"
                          /\ task[j][c].at \notin {"none", "done", "failed"}
                          /\ UNCHANGED <<job, run, batch, rows>>
        <4> DEFINE new == Finished([task[j][c] EXCEPT !.linked = linked])
        <4>1. /\ task[j][c].at = "relations" /\ task' = [task EXCEPT ![j][c] = new]
              /\ UNCHANGED <<job, run, batch, rows>>
          BY <3>4 DEF ChunkRelations, batchRows
        <4>2. new.at # "none"
          BY <3>1 DEF ChunkTasks, Finished
        <4> HIDE DEF new
        <4> QED BY <4>1, <4>2
      <3>5. CASE ChunkFails(j, c) \/ ChunkRaises(j, c)
        <4>1. PICK at \in {"failed", "raised"} :
                 /\ task[j][c].at \in {"units", "relations"}
                 /\ task' = [task EXCEPT ![j][c] = [task[j][c] EXCEPT !.at = at]]
                 /\ UNCHANGED <<job, run, batch, rows>>
          BY <3>5 DEF ChunkFails, ChunkRaises, Holding, batchRows
        <4>2. [task[j][c] EXCEPT !.at = at].at # "none"
          BY <3>1 DEF ChunkTasks
        <4> QED BY <4>1, <4>2
      <3> QED BY <1>4, <3>2, <3>3, <3>4, <3>5 DEF ChunkMoves
    <2>2. job[j] # "succeeded"
      BY <2>1 DEF AccountInv, AtRest
    <2>3. /\ \A i \in Jobs \ {j} : task'[i] = task[i]
          /\ \A d \in Chunks : task'[j][d].at = "none" => task[j][d].at = "none"
      <3> DEFINE ts == [task[j] EXCEPT ![c] = t]
      <3>1. task' = [task EXCEPT ![j] = ts]
        BY <2>1
      <3>2. \A d \in Chunks : ts[d] = IF d = c THEN t ELSE task[j][d]
        BY <1>0
      <3> HIDE DEF ts
      <3> QED BY <1>0, <2>1, <3>1, <3>2
    <2> QED BY <1>a, <2>1, <2>2, <2>3 DEF AccountInv
  <1>5. ASSUME NEW j \in Jobs, ConcludeRaises(j) \/ RecallRaises(j) PROVE AccountInv'
    <2>1. PICK kept \in Deduped(Raw(j)), madeUp \in BOOLEAN, n \in 0..6,
               wrote \in {"succeeded", "failed"} : Wrote(j, kept, madeUp, n, wrote)
      BY <1>5, Concluded
    <2>2. /\ \A i \in Jobs \ {j} : batch'[i] = batch[i]
          /\ rows' = rows \/ rows' = [rows EXCEPT ![j] = kept]
      BY <1>0, <2>1, BatchWritten
    <2>3. JobIs(j, "failed") /\ At(j, "ended") /\ UNCHANGED task
      BY <1>5 DEF ConcludeRaises, RecallRaises
    <2>4. /\ \A i \in Jobs \ {j} : job'[i] = job[i] /\ run'[i] = run[i] /\ rows'[i] = rows[i]
          /\ job'[j] = "failed" /\ run'[j].pc = "ended"
      BY <1>0, <2>2, <2>3 DEF JobIs, At
    <2> QED BY <1>a, <2>2, <2>3, <2>4 DEF AccountInv
  <1>6. ASSUME NEW j \in Jobs, Conclude(j) PROVE AccountInv'
    <2>1. PICK kept \in Deduped(Raw(j)), madeUp \in MadeUp(j) : Wrote(j, kept, madeUp, 6, "succeeded")
      BY <1>6 DEF Conclude
    <2>2. ReadyToConclude(j) /\ JobIs(j, "succeeded") /\ At(j, "ended") /\ UNCHANGED task
      BY <1>6 DEF Conclude
    <2>3. AtRest(j)' /\ Told(j)'
      BY <1>0, <2>1, <2>2, ConcludeTells
    <2>4. madeUp \in BOOLEAN /\ 6 \in 0..6
      BY MadeUpFlags
    <2>5. /\ \A i \in Jobs \ {j} : batch'[i] = batch[i]
          /\ rows' = rows \/ rows' = [rows EXCEPT ![j] = kept]
      BY <1>0, <2>1, <2>4, BatchWritten
    <2>6. /\ \A i \in Jobs \ {j} : job'[i] = job[i] /\ run'[i] = run[i] /\ rows'[i] = rows[i]
          /\ run'[j].pc = "ended"
      BY <1>0, <2>2, <2>5 DEF JobIs, At
    <2>7. ASSUME NEW i \in Jobs \ {j}
          PROVE  job'[i] = "succeeded" => run'[i].pc = "ended" /\ AtRest(i)' /\ Told(i)'
      <3>1. Stays(i)
        BY <2>2, <2>5, <2>6, <2>7 DEF AccountInv
      <3> QED BY <2>7, <3>1, AccountKept
    <2>8. \A i \in Jobs : Reads(i)
      BY <2>2, <2>6 DEF AccountInv
    <2> QED BY <2>3, <2>6, <2>7, <2>8 DEF AccountInv
  <1>7. ASSUME AllLost, UNCHANGED job, NEW gone \in SUBSET Jobs,
               \A i \in Jobs \ gone : rows'[i] = rows[i] /\ batch'[i] = batch[i],
               \A i \in gone : job[i] # "succeeded"
        PROVE  AccountInv'
    <2>1. \A i \in Jobs : run'[i].pc = IF run[i].pc \in {"queued", "memo", "chunks"} THEN "lost"
                                        ELSE run[i].pc
      BY <1>0, <1>7, LostRuns
    <2>2. /\ task' \in [Jobs -> [Chunks -> ChunkTasks]]
          /\ \A i \in Jobs, c \in Chunks :
                task[i][c].at \in {"none", "done", "failed"} => task'[i][c] = task[i][c]
      BY <1>0, <1>7, LostChunks
    <2>3. ASSUME NEW i \in Jobs, AtRest(i) PROVE task'[i] = task[i]
      <3>1. \A c \in Chunks : task'[i][c] = task[i][c]
        BY <2>2, <2>3 DEF AtRest
      <3>2. task'[i] \in [Chunks -> ChunkTasks] /\ task[i] \in [Chunks -> ChunkTasks]
        BY <1>0, <2>2
      <3> QED BY <3>1, <3>2
    <2>4. ASSUME NEW i \in Jobs PROVE Stays(i) /\ Reads(i)
      BY <1>7, <2>1, <2>3 DEF AccountInv
    <2> QED BY <1>a, <2>4
  <1>8. CASE Die
    <2>1. AllLost /\ UNCHANGED <<job, rows, batch>>
      BY <1>8 DEF Die, batchRows
    <2>2. \A i \in Jobs : rows'[i] = rows[i] /\ batch'[i] = batch[i]
      BY <2>1
    <2>3. PICK gone \in SUBSET Jobs : gone = {}
      OBVIOUS
    <2> QED BY <1>7, <2>1, <2>2, <2>3
  <1>9. ASSUME NEW j \in Jobs, DieConcluding(j) PROVE AccountInv'
    <2>1. PICK kept \in Deduped(Raw(j)), madeUp \in BOOLEAN, n \in 0..6,
               wrote \in {"succeeded", "running"} : Wrote(j, kept, madeUp, n, wrote)
      BY <1>9, DiedConcluding
    <2>2. /\ \A i \in Jobs \ {j} : batch'[i] = batch[i]
          /\ rows' = rows \/ rows' = [rows EXCEPT ![j] = kept]
      BY <1>0, <2>1, BatchWritten
    <2>3. \A i \in Jobs \ {j} : rows'[i] = rows[i]
      BY <1>0, <2>2
    <2>4. AllLost /\ UNCHANGED job /\ run[j].pc # "ended"
      BY <1>9 DEF DieConcluding, ReadyToConclude, AllRead
    <2>5. {j} \in SUBSET Jobs /\ job[j] # "succeeded"
      BY <2>4 DEF AccountInv
    <2> QED BY <1>7, <2>2, <2>3, <2>4, <2>5
  <1>10. CASE UNCHANGED extractVars
    <2>1. UNCHANGED <<job, run, rows, batch, task>>
      BY <1>10 DEF extractVars, batchRows
    <2> QED BY <1>a, <2>1 DEF AccountInv
  <1> QED BY <1>1, <1>2, <1>3, <1>4, <1>5, <1>6, <1>8, <1>9, <1>10
          DEF ExtractNext, JobMoves, WorkerMoves

\* What a succeeded job's chunks found is in its batch, once per claim, and a
\* chunk it did not read to its end is counted in the batch (extraction_worker).
THEOREM ExtractionAccounted == ExtractSpec => []Accounted
  <1>1. ExtractInit => AccountInv
    BY DEF ExtractInit, AccountInv
  <1>2. AccountInv => Accounted
    BY DEF AccountInv, Accounted, Told
  <1> QED BY <1>1, <1>2, AccountStep, MemoStays, StoryStays, PTL DEF ExtractSpec
=============================================================================
