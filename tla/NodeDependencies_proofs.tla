----------------------- MODULE NodeDependencies_proofs -----------------------
(***************************************************************************)
(* Proofs about the nodes and what they refer to, for any nodes, models,   *)
(* resources and requests and any number of changes and failures.          *)
(***************************************************************************)
EXTENDS NodeDependencies, TLAPS

Request == [step: {"idle", "configure", "update", "save"}, node: Nodes \cup {NoNode},
            config: Node, unchecked: SUBSET (Models \cup Deps)]

\* What has no configuration yet, or no longer, has no model; everything else has one.
DraftsBare == \A n \in Nodes : nodes[n].status \in {"absent", "draft"} <=> nodes[n].model = NoModel

Configured(config) == config.status = "active" /\ config.model \in Models

\* What a request is about to save is the configuration of an active node.
SavesActive ==
    \A q \in Requests : request[q].step \in {"update", "save"} => Configured(request[q].config)

TypeInv == TypeOK /\ DraftsBare /\ SavesActive

-----------------------------------------------------------------------------
(* Configurations.                                                         *)

LEMMA Bare ==
    /\ NoConfig \in Node /\ Draft \in Node /\ NoRequest \in Request
    /\ NoConfig.status = "absent" /\ NoConfig.model = NoModel
    /\ Draft.status = "draft" /\ Draft.model = NoModel
    /\ NoRequest.step = "idle"
<1>1. NoConfig \in Node /\ NoConfig.status = "absent" /\ NoConfig.model = NoModel
  BY DEF NoConfig, Node, Status
<1>2. Draft \in Node /\ Draft.status = "draft" /\ Draft.model = NoModel
  BY DEF Draft, NoConfig, Node, Status
<1>3. NoRequest \in Request /\ NoRequest.step = "idle"
  BY <1>1 DEF NoRequest, Request
<1> QED BY <1>1, <1>2, <1>3

\* "gone" is not a set of capabilities.
LEMMA GoneApart == Gone \notin Capabilities
  BY DependencyAssumption DEF Gone

LEMMA MigratedType ==
    ASSUME NEW old \in Node, NEW m \in Models, NEW caps
    PROVE  /\ Migrated(old, m, caps) \in Node
           /\ Migrated(old, m, caps).status = "active" /\ Migrated(old, m, caps).model = m
           /\ Migrated(old, m, caps).refs \subseteq old.refs
<1>1. Sections(caps) \subseteq Kinds
  BY DEF Sections, Kinds
<1>2. Fitting(old.refs, Sections(caps)) \subseteq old.refs /\ old.refs \subseteq Deps
  BY DEF Fitting, Node
<1> QED BY <1>1, <1>2 DEF Migrated, Node, Status

LEMMA RequestChange ==
    ASSUME TypeInv, NEW q, NEW x \in Request, request' = [request EXCEPT ![q] = x],
           x.step \in {"update", "save"} => Configured(x.config)
    PROVE  request' \in [Requests -> Request] /\ SavesActive'
  BY DEF TypeInv, TypeOK, SavesActive, Request

LEMMA EndType == ASSUME TypeInv, NEW q, End(q) PROVE request' \in [Requests -> Request] /\ SavesActive'
  BY Bare, RequestChange DEF End

LEMMA NodesChange ==
    ASSUME nodes \in [Nodes -> Node], DraftsBare, NEW n, NEW x \in Node, nodes' = [nodes EXCEPT ![n] = x],
           x.status \in {"absent", "draft"} <=> x.model = NoModel
    PROVE  nodes' \in [Nodes -> Node] /\ DraftsBare'
  BY DEF DraftsBare

\* What the worker does to the nodes.
LEMMA EffectType ==
    ASSUME TypeInv, NEW e \in Event
    PROVE  /\ Effect(e) \in [Nodes -> Node]
           /\ \A n \in Nodes :
                /\ Effect(e)[n].status \in {"absent", "draft"} <=> Effect(e)[n].model = NoModel
                /\ nodes[n].status = "absent" => Effect(e)[n].status = "absent"
<1>0. nodes \in [Nodes -> Node] /\ DraftsBare /\ e.about \in Models \cup Deps
  BY DEF TypeInv, TypeOK, Event
<1>1. ASSUME NEW m \in Models, NEW n \in Nodes
      PROVE  /\ ModelDeleted(m)[n] \in Node
             /\ ModelDeleted(m)[n].status \in {"absent", "draft"} <=> ModelDeleted(m)[n].model = NoModel
             /\ nodes[n].status = "absent" => ModelDeleted(m)[n].status = "absent"
  <2>1. nodes[n] \in Node
    BY <1>0
  <2>2. [nodes[n] EXCEPT !.status = "inactive"] \in Node
        /\ [nodes[n] EXCEPT !.status = "inactive"].status = "inactive"
    BY <2>1 DEF Node, Status
  <2>3. ModelDeleted(m)[n] = IF nodes[n].model = m THEN [nodes[n] EXCEPT !.status = "inactive"] ELSE nodes[n]
    BY DEF ModelDeleted
  <2> QED BY <1>0, <2>1, <2>2, <2>3, DependencyAssumption DEF DraftsBare
<1>2. ASSUME NEW m \in Models, NEW n \in Nodes, NEW caps
      PROVE  /\ CapabilitiesUpdated(m, caps)[n] \in Node
             /\ CapabilitiesUpdated(m, caps)[n].status \in {"absent", "draft"}
                   <=> CapabilitiesUpdated(m, caps)[n].model = NoModel
             /\ nodes[n].status = "absent" => CapabilitiesUpdated(m, caps)[n].status = "absent"
  <2>1. nodes[n] \in Node
    BY <1>0
  <2>2. CapabilitiesUpdated(m, caps)[n] = IF nodes[n].model = m THEN Migrated(nodes[n], m, caps) ELSE nodes[n]
    BY DEF CapabilitiesUpdated
  <2> QED BY <1>0, <2>1, <2>2, MigratedType, DependencyAssumption DEF DraftsBare
<1>3. ASSUME NEW d \in Deps, NEW n \in Nodes
      PROVE  /\ Healed(d)[n] \in Node
             /\ Healed(d)[n].status \in {"absent", "draft"} <=> Healed(d)[n].model = NoModel
             /\ nodes[n].status = "absent" => Healed(d)[n].status = "absent"
  <2>1. nodes[n] \in Node
    BY <1>0
  <2> DEFINE x == [nodes[n] EXCEPT !.refs = @ \ {d}, !.status = "altered"]
  <2>2. x \in Node /\ x.status = "altered" /\ x.model = nodes[n].model
    BY <2>1 DEF Node, Status
  <2>3. Healed(d)[n] = IF Usable(n) /\ d \in nodes[n].refs THEN x ELSE nodes[n]
    BY DEF Healed
  <2> HIDE DEF x
  <2> QED BY <1>0, <2>1, <2>2, <2>3 DEF DraftsBare, Usable
<1>4. \/ e.about \in Models /\ Effect(e) = ModelDeleted(e.about)
      \/ e.about \in Models /\ Effect(e) = CapabilitiesUpdated(e.about, e.caps)
      \/ e.about \in Deps /\ Effect(e) = Healed(e.about)
  BY <1>0, DependencyAssumption DEF Effect, ToolDeleted, BucketDeleted, CollectionDeleted
<1>5. Effect(e) = [n \in Nodes |-> Effect(e)[n]]
  BY <1>4 DEF ModelDeleted, CapabilitiesUpdated, Healed
<1>6. ASSUME NEW n \in Nodes
      PROVE  /\ Effect(e)[n] \in Node
             /\ Effect(e)[n].status \in {"absent", "draft"} <=> Effect(e)[n].model = NoModel
             /\ nodes[n].status = "absent" => Effect(e)[n].status = "absent"
  BY <1>1, <1>2, <1>3, <1>4
<1> QED BY <1>5, <1>6

-----------------------------------------------------------------------------
(* Types, and nodes that stay deleted.                                     *)

NodeVars == <<nodes, request, late, revived, outdated>>
OwnerVars == <<models, alive, update, announcing, events, changes, failures, born, lost, crossed>>

OwnersOK ==
    /\ models \in [Models -> AIModel]
    /\ alive \subseteq Deps
    /\ update \in [Updates -> Update]
    /\ announcing \subseteq Event
    /\ events \in Seq(Event)
    /\ changes \in 0..MaxChanges
    /\ failures \in 0..MaxFailures
    /\ born \subseteq Nodes \cup Models \cup Deps
    /\ lost \subseteq Models \cup Deps
    /\ crossed \subseteq Models

NodesOK ==
    /\ nodes \in [Nodes -> Node]
    /\ request \in [Requests -> Request]
    /\ late \subseteq Nodes \X (Models \cup Deps)
    /\ revived \subseteq Nodes
    /\ outdated \subseteq Nodes
    /\ DraftsBare /\ SavesActive

\* A node that is absent is at most created.
StayAbsent == \A n \in Nodes : nodes[n].status = "absent" => nodes'[n].status \in {"absent", "draft"}

LEMMA InvParts == (TypeInv <=> OwnersOK /\ NodesOK) /\ (TypeInv' <=> OwnersOK' /\ NodesOK')
  BY DEF TypeInv, TypeOK, OwnersOK, NodesOK, Request

LEMMA CountersType ==
    ASSUME OwnersOK
    PROVE  /\ Change \/ UNCHANGED changes => changes' \in 0..MaxChanges
           /\ Failure \/ UNCHANGED failures => failures' \in 0..MaxFailures
  BY DependencyAssumption DEF OwnersOK, Change, Failure

LEMMA OwnersSame == ASSUME OwnersOK, UNCHANGED OwnerVars PROVE OwnersOK'
  BY DEF OwnersOK, OwnerVars

LEMMA NodesSame == ASSUME NodesOK, UNCHANGED NodeVars PROVE NodesOK' /\ StayAbsent
  BY DEF NodesOK, NodeVars, DraftsBare, SavesActive, StayAbsent

LEMMA InitType == Init => TypeInv
<1> SUFFICES ASSUME Init PROVE TypeInv
  OBVIOUS
<1>1. OwnersOK
  BY DependencyAssumption DEF Init, OwnersOK, NoUpdate, Update
<1>2. NodesOK
  BY Bare DEF Init, NodesOK, DraftsBare, SavesActive
<1> QED BY <1>1, <1>2, InvParts

LEMMA OwnerType ==
    ASSUME TypeInv, OwnerNext
    PROVE  TypeInv' /\ StayAbsent
<1>0. OwnersOK /\ NodesOK
  BY InvParts
<1>1. UNCHANGED NodeVars
  BY DEF OwnerNext, CreateModel, DeleteModel, ModelsWithout, CreateTool,
         CreateBucket, CreateKnowledge,
         CreateDep, DeleteTool, DeleteBucket, DeleteCollection, DeleteDep, SweepBuckets, SweepCollections,
         AnnounceModel, AnnounceTool, AnnounceBucket, AnnounceCollection, AnnounceOf, Announce,
         NodeVars, Settled, history
<1>2. ASSUME NEW m \in Models, DeleteModel(m) PROVE OwnersOK'
  <2>1. changes' \in 0..MaxChanges
    BY <1>0, <1>2, CountersType DEF DeleteModel, ModelsWithout
  <2>2. Deletion(m) \in Event
    BY DEF Deletion, Event, AIModel
  <2> QED BY <1>0, <1>2, <2>1, <2>2 DEF DeleteModel, ModelsWithout, OwnersOK, AIModel, history
<1>3. ASSUME NEW m \in Models, NEW caps \in Capabilities, CreateModel(m, caps) PROVE OwnersOK'
  <2>1. changes' \in 0..MaxChanges
    BY <1>0, <1>3, CountersType DEF CreateModel
  <2> QED BY <1>0, <1>3, <2>1 DEF CreateModel, OwnersOK, NewModel, AIModel, Settled
<1>5. ASSUME NEW d \in Deps, NEW kind, CreateDep(d, kind) PROVE OwnersOK'
  <2>1. changes' \in 0..MaxChanges
    BY <1>0, <1>5, CountersType DEF CreateDep
  <2> QED BY <1>0, <1>5, <2>1 DEF CreateDep, OwnersOK, Settled
<1>6. ASSUME NEW d \in Deps, DeleteDep(d) PROVE OwnersOK'
  <2>1. changes' \in 0..MaxChanges
    BY <1>0, <1>6, CountersType DEF DeleteDep
  <2>2. Deletion(d) \in Event
    BY DEF Deletion, Event, AIModel
  <2> QED BY <1>0, <1>6, <2>1, <2>2 DEF DeleteDep, OwnersOK, history
<1>7. ASSUME NEW d \in Deps, SweepBuckets(d) \/ SweepCollections(d) PROVE OwnersOK'
  <2>1. failures' \in 0..MaxFailures
    BY <1>0, <1>7, CountersType DEF SweepBuckets, SweepCollections
  <2> QED BY <1>0, <1>7, <2>1 DEF SweepBuckets, SweepCollections, OwnersOK
<1>8. ASSUME NEW e, Announce(e) PROVE OwnersOK'
  <2>1. e \in Event
    BY <1>0, <1>8 DEF Announce, OwnersOK
  <2>2. events' \in Seq(Event)
    BY <1>0, <1>8, <2>1 DEF Announce, OwnersOK
  <2>3. failures' \in 0..MaxFailures
    BY <1>0, <1>8, CountersType DEF Announce
  <2> QED BY <1>0, <1>8, <2>1, <2>2, <2>3 DEF Announce, OwnersOK, Event
<1>9. OwnersOK'
  BY <1>2, <1>3, <1>5, <1>6, <1>7, <1>8
  DEF OwnerNext, CreateTool, CreateBucket, CreateKnowledge, DeleteTool, DeleteBucket, DeleteCollection,
      AnnounceModel, AnnounceTool, AnnounceBucket, AnnounceCollection, AnnounceOf
<1> QED BY <1>0, <1>1, <1>9, NodesSame, InvParts

\* An update of a model changes no node, and the owners' variables only when it is saved.
LEMMA UpdateSteps ==
    ASSUME TypeInv, NEW u \in Updates, UpdateNext(u)
    PROVE  /\ update' \in [Updates -> Update]
           /\ UNCHANGED <<NodeVars, alive, events, failures, born, lost>>
           /\ \/ UNCHANGED <<models, announcing, changes, crossed>>
              \/ \E m \in Models, caps \in Capabilities : m = update[u].model /\ SaveModel(u, caps)
<1>0. /\ update \in [Updates -> Update] /\ models \in [Models -> AIModel]
      /\ update[u] \in Update /\ NoUpdate \in Update
  BY DEF TypeInv, TypeOK, Update
<1>1. ASSUME NEW x \in Update, Updating(u, x) PROVE update' \in [Updates -> Update]
  BY <1>0, <1>1 DEF Updating
<1>2. ASSUME NEW m \in Models, ReadCapabilities(u, m) PROVE update' \in [Updates -> Update]
  <2> DEFINE x == [step |-> "read", model |-> m, old |-> IF ModelFound(m) THEN models[m] ELSE {}]
  <2>1. x \in Update
    BY <1>0 DEF Update, ModelFound, AIModel
  <2>2. Updating(u, x)
    BY <1>2 DEF ReadCapabilities
  <2> HIDE DEF x
  <2> QED BY <1>1, <2>1, <2>2
<1>3. ASSUME LoadModel(u) PROVE update' \in [Updates -> Update]
  <2> DEFINE x == IF ModelFound(update[u].model) THEN [update[u] EXCEPT !.step = "loaded"] ELSE NoUpdate
  <2>1. x \in Update
    BY <1>0, <1>3 DEF LoadModel, Update, NoUpdate
  <2>2. Updating(u, x)
    BY <1>3 DEF LoadModel
  <2> HIDE DEF x
  <2> QED BY <1>1, <2>1, <2>2
<1>4. ASSUME RefuseUpdate(u) \/ \E caps \in Capabilities : SaveModel(u, caps)
      PROVE  update' \in [Updates -> Update]
  BY <1>0, <1>1, <1>4 DEF RefuseUpdate, SaveModel
<1>5. ASSUME NEW caps \in Capabilities, SaveModel(u, caps) PROVE update[u].model \in Models
  BY <1>0, <1>5 DEF SaveModel, Update, NoUpdate
<1>6. UNCHANGED <<NodeVars, alive, events, failures, born, lost>>
  BY DEF UpdateNext, ReadCapabilities, LoadModel, RefuseUpdate, SaveModel, Updating, NodeVars, history
<1>7. \/ UNCHANGED <<models, announcing, changes, crossed>>
      \/ \E caps \in Capabilities : SaveModel(u, caps)
  BY DEF UpdateNext, ReadCapabilities, LoadModel, RefuseUpdate, history
<1>8. update' \in [Updates -> Update]
  BY <1>2, <1>3, <1>4 DEF UpdateNext
<1> QED BY <1>5, <1>6, <1>7, <1>8

LEMMA UpdateType ==
    ASSUME TypeInv, NEW u \in Updates, UpdateNext(u)
    PROVE  TypeInv' /\ StayAbsent
<1>0. OwnersOK /\ NodesOK
  BY InvParts
<1>1. /\ update' \in [Updates -> Update]
      /\ UNCHANGED <<NodeVars, alive, events, failures, born, lost>>
  BY UpdateSteps
<1>2. ASSUME NEW m \in Models, NEW caps \in Capabilities, m = update[u].model, SaveModel(u, caps)
      PROVE  OwnersOK'
  <2>1. changes' \in 0..MaxChanges
    BY <1>0, <1>2, CountersType DEF SaveModel
  <2>2. announcing' \subseteq Event
    BY <1>0, <1>2 DEF SaveModel, Changed, OwnersOK, Event, AIModel
  <2>3. models' \in [Models -> AIModel] /\ crossed' \subseteq Models
    BY <1>0, <1>2 DEF SaveModel, Rebuilt, OwnersOK, AIModel
  <2> QED BY <1>0, <1>1, <2>1, <2>2, <2>3 DEF OwnersOK
<1>3. ASSUME UNCHANGED <<models, announcing, changes, crossed>> PROVE OwnersOK'
  <2>1. /\ models' = models /\ announcing' = announcing /\ changes' = changes /\ crossed' = crossed
        /\ alive' = alive /\ events' = events /\ failures' = failures /\ born' = born /\ lost' = lost
    BY <1>1, <1>3
  <2> QED BY <1>0, <1>1, <2>1 DEF OwnersOK
<1>4. OwnersOK'
  <2>1. \/ UNCHANGED <<models, announcing, changes, crossed>>
        \/ \E m \in Models, caps \in Capabilities : m = update[u].model /\ SaveModel(u, caps)
    BY UpdateSteps
  <2> QED BY <1>2, <1>3, <2>1
<1> QED BY <1>0, <1>1, <1>4, NodesSame, InvParts

LEMMA RequestType ==
    ASSUME TypeInv, NEW q \in Requests, RequestNext(q)
    PROVE  TypeInv' /\ StayAbsent
<1>0. OwnersOK /\ NodesOK /\ request[q] \in Request
  BY InvParts DEF NodesOK
<1>1. ASSUME UNCHANGED <<nodes, models, alive, update, announcing, events, changes, failures, history>>,
             request' \in [Requests -> Request], SavesActive'
      PROVE  TypeInv' /\ StayAbsent
  <2>1. OwnersOK' /\ NodesOK' /\ StayAbsent
    BY <1>0, <1>1 DEF OwnersOK, NodesOK, DraftsBare, StayAbsent, history
  <2> QED BY <2>1, InvParts
<1>2. ASSUME NEW n \in Nodes, LoadToConfigure(q, n) PROVE TypeInv' /\ StayAbsent
  <2> DEFINE x == [step |-> "configure", node |-> n, config |-> nodes[n], unchecked |-> {}]
  <2>1. x \in Request /\ x.step = "configure"
    BY <1>0 DEF Request, NodesOK
  <2>2. request' = [request EXCEPT ![q] = x]
    BY <1>2 DEF LoadToConfigure, Begin
  <2> HIDE DEF x
  <2>3. request' \in [Requests -> Request] /\ SavesActive'
    BY <2>1, <2>2, RequestChange
  <2> QED BY <1>1, <1>2, <2>3 DEF LoadToConfigure
<1>3. ASSUME NEW n \in Nodes, LoadToUpdate(q, n) PROVE TypeInv' /\ StayAbsent
  <2>1. PICK refs \in Submissions(n) :
            Begin(q, "update", n, Merged(n, refs), ToCheck(Merged(n, refs)))
    BY <1>3 DEF LoadToUpdate
  <2> DEFINE x == [step |-> "update", node |-> n, config |-> Merged(n, refs),
                   unchecked |-> ToCheck(Merged(n, refs))]
  <2>2. nodes[n] \in Node /\ refs \subseteq Deps
    BY <1>0, <2>1 DEF NodesOK, OwnersOK, Submissions, Fitting, Node
  <2>3. Merged(n, refs) \in Node /\ Configured(Merged(n, refs))
    <3>1. nodes[n].model \in Models
      BY <1>0, <1>3, <2>2 DEF LoadToUpdate, NodesOK, DraftsBare, Node
    <3> QED BY <2>2, <3>1 DEF Merged, Node, Status, Configured
  <2>4. ToCheck(Merged(n, refs)) \subseteq Models \cup Deps
    BY <2>3 DEF ToCheck, Configured, Node
  <2>5. x \in Request
    BY <2>3, <2>4 DEF Request
  <2>6. request' = [request EXCEPT ![q] = x] /\ Configured(x.config)
    BY <2>1, <2>3 DEF Begin
  <2> HIDE DEF x
  <2>7. request' \in [Requests -> Request] /\ SavesActive'
    BY <2>5, <2>6, RequestChange
  <2> QED BY <1>1, <1>3, <2>7 DEF LoadToUpdate
<1>4. ASSUME NEW m \in Models, ConfigureModel(q, m) PROVE TypeInv' /\ StayAbsent
  <2> DEFINE x == [step |-> "save", node |-> request[q].node,
                   config |-> Migrated(request[q].config, m, models[m]), unchecked |-> {}]
  <2>1. x \in Request /\ Configured(x.config)
    BY <1>0, MigratedType DEF Request, Configured
  <2>2. request' = [request EXCEPT ![q] = x] \/ End(q)
    BY <1>4 DEF ConfigureModel, Begin
  <2> HIDE DEF x
  <2>3. request' \in [Requests -> Request] /\ SavesActive'
    BY <2>1, <2>2, RequestChange, EndType
  <2> QED BY <1>1, <1>4, <2>3 DEF ConfigureModel
<1>5. ASSUME NEW part, NEW valid, Validate(q, part, valid) PROVE TypeInv' /\ StayAbsent
  <2> DEFINE rest == request[q].unchecked \ part
             x == [step |-> IF rest = {} THEN "save" ELSE "update", node |-> request[q].node,
                   config |-> request[q].config, unchecked |-> rest]
  <2>1. x \in Request /\ Configured(x.config)
    BY <1>0, <1>5 DEF Request, Validate, NodesOK, SavesActive
  <2>2. request' = [request EXCEPT ![q] = x] \/ End(q)
    BY <1>5 DEF Validate, Begin
  <2> HIDE DEF x
  <2>3. request' \in [Requests -> Request] /\ SavesActive'
    BY <2>1, <2>2, RequestChange, EndType
  <2> QED BY <1>1, <1>5, <2>3 DEF Validate
<1>6. CASE Save(q)
  <2> DEFINE n == request[q].node
             config == request[q].config
  <2>1. config \in Node /\ Configured(config)
    BY <1>0, <1>6 DEF Save, NodesOK, SavesActive, Request
  <2>2. nodes' = nodes \/ (nodes[n].status # "absent" /\ nodes' = [nodes EXCEPT ![n] = config])
    BY <1>6 DEF Save, Saved
  <2>3. config.status \notin {"absent", "draft"} /\ config.model # NoModel
    BY <2>1, DependencyAssumption DEF Configured
  <2>4. nodes' \in [Nodes -> Node] /\ DraftsBare' /\ StayAbsent
    <3>1. CASE nodes' = nodes
      BY <1>0, <3>1 DEF NodesOK, DraftsBare, StayAbsent
    <3>2. CASE nodes[n].status # "absent" /\ nodes' = [nodes EXCEPT ![n] = config]
      BY <1>0, <2>1, <2>3, <3>2, NodesChange DEF NodesOK, StayAbsent
    <3> QED BY <2>2, <3>1, <3>2
  <2>5. request' \in [Requests -> Request] /\ SavesActive'
    BY <1>6, EndType DEF Save
  <2>6. UNCHANGED OwnerVars
    BY <1>6 DEF Save, OwnerVars
  <2>7. late' \subseteq Nodes \X (Models \cup Deps) /\ revived' \subseteq Nodes /\ outdated' \subseteq Nodes
    BY <1>0, <1>6, <2>1 DEF Save, NodesOK, Present, Configured, Node
  <2>8. NodesOK'
    BY <2>4, <2>5, <2>7 DEF NodesOK
  <2> QED BY <1>0, <2>4, <2>6, <2>8, OwnersSame, InvParts
<1> QED BY <1>2, <1>3, <1>4, <1>5, <1>6
    DEF RequestNext, ValidateModel, ValidateTools, ValidateBuckets, ValidateCollections

LEMMA NodeType ==
    ASSUME TypeInv, SweepNodes \/ \E n \in Nodes : CreateDraft(n) \/ DeleteNode(n)
    PROVE  TypeInv' /\ StayAbsent
<1>0. OwnersOK /\ NodesOK
  BY InvParts
<1>1. ASSUME NEW n \in Nodes, CreateDraft(n) PROVE TypeInv' /\ StayAbsent
  <2>1. nodes' \in [Nodes -> Node] /\ DraftsBare' /\ StayAbsent
    BY <1>0, <1>1, Bare, NodesChange DEF CreateDraft, NodesOK, StayAbsent
  <2>2. OwnersOK'
    BY <1>0, <1>1 DEF CreateDraft, OwnersOK
  <2>3. NodesOK'
    BY <1>0, <1>1, <2>1 DEF CreateDraft, NodesOK, SavesActive
  <2> QED BY <2>1, <2>2, <2>3, InvParts
<1>2. ASSUME NEW n \in Nodes, DeleteNode(n) PROVE TypeInv' /\ StayAbsent
  <2>1. nodes' \in [Nodes -> Node] /\ DraftsBare' /\ StayAbsent
    BY <1>0, <1>2, Bare, NodesChange DEF DeleteNode, NodesOK, StayAbsent
  <2>2. OwnersOK'
    BY <1>0, <1>2 DEF DeleteNode, Forget, OwnersOK
  <2>3. NodesOK'
    BY <1>0, <1>2, <2>1 DEF DeleteNode, Forget, NodesOK, SavesActive
  <2> QED BY <2>1, <2>2, <2>3, InvParts
<1>3. CASE SweepNodes
  <2>1. nodes' \in [Nodes -> Node] /\ DraftsBare' /\ StayAbsent
    BY <1>0, <1>3, Bare DEF SweepNodes, NodesOK, DraftsBare, StayAbsent
  <2>2. OwnersOK'
    BY <1>0, <1>3 DEF SweepNodes, Forget, OwnersOK
  <2>3. NodesOK'
    BY <1>0, <1>3, <2>1 DEF SweepNodes, Forget, NodesOK, SavesActive
  <2> QED BY <2>1, <2>2, <2>3, InvParts
<1> QED BY <1>1, <1>2, <1>3

LEMMA EventType ==
    ASSUME TypeInv, HandleEvent
    PROVE  TypeInv' /\ StayAbsent
<1>0. OwnersOK /\ NodesOK
  BY InvParts
<1> DEFINE e == Head(events)
<1>1. e \in Event /\ Tail(events) \in Seq(Event)
  BY <1>0 DEF HandleEvent, OwnersOK
<1>2. nodes' = Effect(e) \/ nodes' = nodes
  BY DEF HandleEvent
<1>3. nodes' \in [Nodes -> Node] /\ DraftsBare' /\ StayAbsent
  <2> HIDE DEF e
  <2> QED BY <1>0, <1>1, <1>2, EffectType DEF NodesOK, DraftsBare, StayAbsent
<1>4. failures' \in 0..MaxFailures
  BY <1>0, CountersType DEF HandleEvent
<1>5. lost' \subseteq Models \cup Deps
  BY <1>0, <1>1 DEF HandleEvent, OwnersOK, Event
<1>6. OwnersOK'
  BY <1>0, <1>1, <1>4, <1>5 DEF HandleEvent, OwnersOK
<1>7. NodesOK'
  BY <1>0, <1>3 DEF HandleEvent, NodesOK, SavesActive
<1> QED BY <1>3, <1>6, <1>7, InvParts

LEMMA TypeStep == ASSUME TypeInv, [Next]_vars PROVE TypeInv' /\ [StayAbsent]_vars
<1>1. CASE UNCHANGED vars
  <2>1. UNCHANGED OwnerVars /\ UNCHANGED NodeVars
    BY <1>1 DEF vars, history, OwnerVars, NodeVars
  <2> QED BY <1>1, <2>1, OwnersSame, NodesSame, InvParts
<1>2. CASE Next
  BY <1>2, OwnerType, UpdateType, RequestType, NodeType, EventType DEF Next
<1> QED BY <1>1, <1>2

\* Types: no step leaves a node, a request or an event that is not one.
THEOREM DependencyTypeCorrect == Spec => []TypeOK
<1>1. Init => TypeInv
  BY InitType
<1>2. TypeInv /\ [Next]_vars => TypeInv'
  BY TypeStep
<1>3. TypeInv => TypeOK
  BY DEF TypeInv
<1> QED BY <1>1, <1>2, <1>3, PTL DEF Spec

\* Neither a request that has read a node before it was deleted, nor an event that comes after,
\* brings it back: both save named fields of a row, and of a row that is gone there are none.
THEOREM DeletedStaysDeleted == Spec => NoResurrection
<1>1. Init => TypeInv
  BY InitType
<1>2. TypeInv /\ [Next]_vars => TypeInv' /\ [StayAbsent]_vars
  BY TypeStep
<1>3. Spec => [][StayAbsent]_vars
  BY <1>1, <1>2, PTL DEF Spec
<1> QED BY <1>3 DEF StayAbsent, NoResurrection

-----------------------------------------------------------------------------
(***************************************************************************)
(* That a node that can be used refers to nothing that is gone, short of   *)
(* the excuses NoDangling names.  The queue may hold an update and the     *)
(* deletion of one model, and an update handled takes the former out: what *)
(* has to be on its way is the deletion itself.                            *)
(***************************************************************************)
ToCome(r) ==
    \/ Deletion(r) \in announcing
    \/ \E i \in 1..Len(events) : events[i] = Deletion(r)

Excused(n, r) == r \in lost \/ <<n, r>> \in late \/ n \in revived

References(n) == nodes[n].refs \cup {nodes[n].model}

\* NoDangling with the deletion, and nothing else, to come.
DanglingInv ==
    \A n \in Nodes : Usable(n) => \A r \in References(n) : Exists(r) \/ ToCome(r) \/ Excused(n, r)

LEMMA DanglingEnough == ASSUME DanglingInv PROVE NoDangling
<1> SUFFICES ASSUME NEW n \in Nodes, Usable(n), NEW r \in nodes[n].refs \cup {nodes[n].model}
             PROVE  Exists(r) \/ Announced(r) \/ r \in lost \/ <<n, r>> \in late \/ n \in revived
  BY DEF NoDangling
<1>1. Exists(r) \/ ToCome(r) \/ Excused(n, r)
  BY DEF DanglingInv, References
<1>2. ToCome(r) => Announced(r)
  BY DEF ToCome, Announced, Deletion
<1> QED BY <1>1, <1>2 DEF Excused

LEMMA Referred ==
    ASSUME TypeInv, NEW n \in Nodes, Usable(n)
    PROVE  nodes[n].model \in Models /\ nodes[n].refs \subseteq Deps
  BY DEF TypeInv, TypeOK, DraftsBare, Usable, Node

-----------------------------------------------------------------------------
(* The services that own the resources.                                    *)

\* As long as the nodes stay what they are, each resource must at worst be announced.
LEMMA OwnersKeep ==
    ASSUME DanglingInv, UNCHANGED NodeVars, lost \subseteq lost',
           \A r : Exists(r) => Exists(r)' \/ ToCome(r)' \/ r \in lost',
           \A r : ToCome(r) => ToCome(r)' \/ r \in lost'
    PROVE  DanglingInv'
<1> SUFFICES ASSUME NEW n \in Nodes, Usable(n)', NEW r \in References(n)'
             PROVE  Exists(r)' \/ ToCome(r)' \/ Excused(n, r)'
  BY DEF DanglingInv
<1>1. Usable(n) /\ r \in References(n)
  BY DEF Usable, References, NodeVars
<1>2. Exists(r) \/ ToCome(r) \/ Excused(n, r)
  BY <1>1 DEF DanglingInv
<1>3. Excused(n, r) => Excused(n, r)'
  BY DEF Excused, NodeVars
<1> QED BY <1>2, <1>3 DEF Exists, ModelFound, ToCome, Excused

LEMMA OwnerNodes == ASSUME OwnerNext PROVE UNCHANGED NodeVars
  BY DEF OwnerNext, CreateModel, DeleteModel, ModelsWithout, CreateTool,
         CreateBucket, CreateKnowledge,
         CreateDep, DeleteTool, DeleteBucket, DeleteCollection, DeleteDep, SweepBuckets, SweepCollections,
         AnnounceModel, AnnounceTool, AnnounceBucket, AnnounceCollection, AnnounceOf, Announce,
         NodeVars, Settled, history

LEMMA OwnerDangling == ASSUME TypeInv, DanglingInv, OwnerNext PROVE DanglingInv'
<1>0. models \in [Models -> AIModel] /\ events \in Seq(Event) /\ announcing \subseteq Event
  BY DEF TypeInv, TypeOK
<1> DEFINE Goal == /\ lost \subseteq lost'
                   /\ \A r : Exists(r) => Exists(r)' \/ ToCome(r)' \/ r \in lost'
                   /\ \A r : ToCome(r) => ToCome(r)' \/ r \in lost'
<1>1. ASSUME NEW m \in Models, DeleteModel(m) PROVE Goal
  BY <1>0, <1>1 DEF DeleteModel, ModelsWithout, Exists, ModelFound, ToCome, history
<1>2. ASSUME NEW m \in Models, NEW caps \in Capabilities, CreateModel(m, caps) PROVE Goal
  BY <1>0, <1>2, GoneApart DEF CreateModel, NewModel, Exists, ModelFound, ToCome, Settled
<1>4. ASSUME NEW d \in Deps, NEW kind, CreateDep(d, kind) PROVE Goal
  BY <1>4 DEF CreateDep, Exists, ModelFound, ToCome, Settled
<1>5. ASSUME NEW d \in Deps, DeleteDep(d) PROVE Goal
  BY <1>5 DEF DeleteDep, Exists, ModelFound, ToCome, history
<1>6. ASSUME NEW d \in Deps, SweepBuckets(d) \/ SweepCollections(d) PROVE Goal
  BY <1>6 DEF SweepBuckets, SweepCollections, Exists, ModelFound, ToCome
<1>7. ASSUME NEW e, Announce(e) PROVE Goal
  <2>1. lost \subseteq lost' /\ \A r : Exists(r) => Exists(r)'
    BY <1>7 DEF Announce, Exists, ModelFound
  <2>2. ASSUME NEW r, ToCome(r) PROVE ToCome(r)' \/ r \in lost'
    <3>1. CASE UNCHANGED events /\ lost' = lost \cup {e.about}
      BY <1>7, <2>2, <3>1 DEF Announce, ToCome, Deletion
    <3>2. CASE events' = Append(events, e)
      <4>1. e \in Event
        BY <1>0, <1>7 DEF Announce
      <4>2. /\ Len(events') = Len(events) + 1 /\ Len(events) \in Nat
            /\ \A i \in 1..Len(events) : events'[i] = events[i]
            /\ events'[Len(events) + 1] = e
        BY <1>0, <3>2, <4>1
      <4>3. CASE Deletion(r) = e
        BY <4>2, <4>3 DEF ToCome
      <4>4. CASE Deletion(r) \in announcing /\ Deletion(r) # e
        BY <1>7, <4>4 DEF Announce, ToCome
      <4>5. CASE \E i \in 1..Len(events) : events[i] = Deletion(r)
        BY <4>2, <4>5 DEF ToCome
      <4> QED BY <2>2, <4>3, <4>4, <4>5 DEF ToCome
    <3> QED BY <1>7, <3>1, <3>2 DEF Announce
  <2> QED BY <2>1, <2>2
<1>8. Goal
  <2> HIDE DEF Goal
  <2> QED BY <1>1, <1>2, <1>4, <1>5, <1>6, <1>7
      DEF OwnerNext, CreateTool, CreateBucket, CreateKnowledge, DeleteTool, DeleteBucket, DeleteCollection,
          AnnounceModel, AnnounceTool, AnnounceBucket, AnnounceCollection, AnnounceOf
<1> QED BY <1>8, OwnerNodes, OwnersKeep

\* An update may bring a model back and never takes one away.
LEMMA UpdateDangling ==
    ASSUME TypeInv, DanglingInv, NEW u \in Updates, UpdateNext(u)
    PROVE  DanglingInv'
<1>0. models \in [Models -> AIModel]
  BY DEF TypeInv, TypeOK
<1>1. UNCHANGED <<NodeVars, alive, events, lost>>
  BY UpdateSteps
<1>2. ASSUME NEW m \in Models, NEW caps \in Capabilities, m = update[u].model, SaveModel(u, caps)
      PROVE  (\A r : Exists(r) => Exists(r)') /\ announcing \subseteq announcing'
  BY <1>0, <1>1, <1>2, GoneApart DEF SaveModel, Rebuilt, Exists, ModelFound
<1>3. (\A r : Exists(r) => Exists(r)') /\ announcing \subseteq announcing'
  <2>1. CASE UNCHANGED <<models, announcing, changes, crossed>>
    BY <1>1, <2>1 DEF Exists, ModelFound
  <2> QED BY <1>2, <2>1, UpdateSteps
<1>4. \A r : ToCome(r) => ToCome(r)'
  BY <1>1, <1>3 DEF ToCome
<1> QED BY <1>1, <1>3, <1>4, OwnersKeep

-----------------------------------------------------------------------------
(* Requests, and nodes that come and go.                                   *)

\* A step that leaves of each node what it was, or nothing that can be used.
LEMMA OthersKeep ==
    ASSUME DanglingInv, UNCHANGED <<models, alive, announcing, events, lost>>,
           \A n \in Nodes :
                \/ nodes'[n].status \in {"absent", "draft"}
                \/ /\ nodes'[n] = nodes[n]
                   /\ n \in revived => n \in revived'
                   /\ \A r : <<n, r>> \in late => <<n, r>> \in late'
    PROVE  DanglingInv'
<1> SUFFICES ASSUME NEW n \in Nodes, Usable(n)', NEW r \in References(n)'
             PROVE  Exists(r)' \/ ToCome(r)' \/ Excused(n, r)'
  BY DEF DanglingInv
<1>1. /\ Usable(n) /\ r \in References(n)
      /\ n \in revived => n \in revived'
      /\ <<n, r>> \in late => <<n, r>> \in late'
  BY DEF Usable, References
<1>2. Exists(r) \/ ToCome(r) \/ Excused(n, r)
  BY <1>1 DEF DanglingInv
<1> QED BY <1>1, <1>2 DEF Excused, Exists, ModelFound, ToCome

LEMMA RequestDangling ==
    ASSUME TypeInv, DanglingInv, NEW q \in Requests, RequestNext(q)
    PROVE  DanglingInv'
<1>1. CASE UNCHANGED <<nodes, models, alive, update, announcing, events, changes, failures, history>>
  BY <1>1, OthersKeep DEF history
<1>2. CASE Save(q)
  <2>0. PICK n, config : n = request[q].node /\ config = request[q].config
    OBVIOUS
  <2>1. UNCHANGED <<models, alive, announcing, events, lost>>
    BY <1>2 DEF Save
  <2>2. ASSUME NEW k \in Nodes, k # n
        PROVE  /\ nodes'[k] = nodes[k]
               /\ k \in revived => k \in revived'
               /\ \A r : <<k, r>> \in late => <<k, r>> \in late'
    BY <1>2, <2>0, <2>2 DEF Save, Saved, TypeInv, TypeOK
  <2>3. CASE n \notin Nodes \/ nodes[n].status = "absent"
    <3>1. n \in Nodes => nodes'[n].status = "absent"
      BY <1>2, <2>0, <2>3 DEF Save, Saved, TypeInv, TypeOK
    <3> QED BY <2>1, <2>2, <3>1, OthersKeep
  <2>4. CASE n \in Nodes /\ nodes[n].status # "absent"
    <3>1. nodes'[n] = config /\ n \in Present
      BY <1>2, <2>0, <2>4 DEF Save, Saved, Present, TypeInv, TypeOK
    <3>2. ASSUME NEW r \in References(n)' PROVE Exists(r)' \/ ToCome(r)' \/ Excused(n, r)'
      <4>1. r \in config.refs \cup {config.model}
        BY <3>1, <3>2 DEF References
      <4>2. ~Exists(r) => <<n, r>> \in late'
        BY <1>2, <2>0, <3>1, <4>1 DEF Save
      <4> QED BY <2>1, <4>2 DEF Excused, Exists, ModelFound
    <3>3. ASSUME NEW k \in Nodes, k # n, Usable(k)', NEW r \in References(k)'
          PROVE  Exists(r)' \/ ToCome(r)' \/ Excused(k, r)'
      <4>1. Usable(k) /\ r \in References(k)
        BY <2>2, <3>3 DEF Usable, References
      <4>2. Exists(r) \/ ToCome(r) \/ Excused(k, r)
        BY <4>1 DEF DanglingInv
      <4> QED BY <2>1, <2>2, <3>3, <4>2 DEF Excused, Exists, ModelFound, ToCome
    <3> QED BY <3>2, <3>3 DEF DanglingInv
  <2> QED BY <2>3, <2>4
<1> QED BY <1>1, <1>2
    DEF RequestNext, LoadToConfigure, LoadToUpdate, ConfigureModel, Validate,
        ValidateModel, ValidateTools, ValidateBuckets, ValidateCollections

LEMMA NodeDangling ==
    ASSUME TypeInv, DanglingInv, SweepNodes \/ \E n \in Nodes : CreateDraft(n) \/ DeleteNode(n)
    PROVE  DanglingInv'
<1>0. nodes \in [Nodes -> Node]
  BY DEF TypeInv, TypeOK
<1>1. ASSUME NEW n \in Nodes, CreateDraft(n) PROVE DanglingInv'
  <2>1. nodes'[n].status = "draft"
    BY <1>0, <1>1, Bare DEF CreateDraft
  <2> QED BY <1>0, <1>1, <2>1, OthersKeep DEF CreateDraft
<1>2. ASSUME NEW n \in Nodes, DeleteNode(n) PROVE DanglingInv'
  <2>1. nodes'[n].status = "absent"
    BY <1>0, <1>2, Bare DEF DeleteNode
  <2> QED BY <1>0, <1>2, <2>1, OthersKeep DEF DeleteNode, Forget
<1>3. ASSUME SweepNodes PROVE DanglingInv'
  <2>1. \A n \in Nodes : ~Usable(n)'
    BY <1>0, <1>3, Bare DEF SweepNodes, Usable
  <2> QED BY <2>1 DEF DanglingInv
<1> QED BY <1>1, <1>2, <1>3

-----------------------------------------------------------------------------
(* The dependency worker.                                                  *)

\* What an event leaves of a node that can be used after it: the node could be used before
\* and refers to no more than it did, or an update has revived it.
LEMMA EffectUsable ==
    ASSUME TypeInv, NEW e \in Event, NEW n \in Nodes, nodes' = Effect(e), Usable(n)'
    PROVE  \/ nodes[n].status = "inactive" /\ nodes'[n].status = "active"
           \/ /\ Usable(n)
              /\ References(n)' \subseteq References(n)
              /\ \A r \in References(n)' : e # Deletion(r)
<1>0. nodes[n] \in Node /\ e.about \in Models \cup Deps
  BY DEF TypeInv, TypeOK, Event
<1>1. nodes[n].model \in Models => nodes[n].status \in {"active", "altered", "inactive"}
  BY <1>0, DependencyAssumption DEF TypeInv, DraftsBare, Node, Status
<1>2. nodes[n].refs \subseteq Deps
  BY <1>0 DEF Node
<1>3. CASE e.about \in Models /\ e.caps = Gone
  <2>1. nodes'[n] = IF nodes[n].model = e.about THEN [nodes[n] EXCEPT !.status = "inactive"] ELSE nodes[n]
    BY <1>3, DependencyAssumption DEF Effect, ModelDeleted
  <2>2. nodes[n].model # e.about /\ nodes'[n] = nodes[n]
    BY <1>0, <2>1 DEF Usable, Node
  <2>3. e.about \notin nodes[n].refs
    BY <1>2, <1>3, DependencyAssumption
  <2> QED BY <2>2, <2>3 DEF Usable, References, Deletion
<1>4. CASE e.about \in Models /\ e.caps # Gone
  <2>1. nodes' = CapabilitiesUpdated(e.about, e.caps)
    BY <1>4, DependencyAssumption DEF Effect
  <2>2. nodes'[n] = IF nodes[n].model = e.about THEN Migrated(nodes[n], e.about, e.caps) ELSE nodes[n]
    BY <2>1 DEF CapabilitiesUpdated
  <2>3. \A r : e # Deletion(r)
    BY <1>4 DEF Deletion
  <2>4. CASE nodes[n].model # e.about
    BY <2>2, <2>3, <2>4 DEF Usable, References
  <2>5. CASE nodes[n].model = e.about
    <3>1. nodes'[n].status = "active" /\ nodes'[n].model = nodes[n].model
          /\ nodes'[n].refs \subseteq nodes[n].refs
      BY <1>0, <1>4, <2>2, <2>5, MigratedType
    <3> QED BY <1>1, <1>4, <2>3, <2>5, <3>1 DEF Usable, References
  <2> QED BY <2>4, <2>5
<1>5. CASE e.about \in Deps
  <2> DEFINE d == e.about
             x == [nodes[n] EXCEPT !.refs = @ \ {d}, !.status = "altered"]
  <2>1. nodes' = Healed(d)
    BY <1>5, DependencyAssumption DEF Effect, ToolDeleted, BucketDeleted, CollectionDeleted
  <2>2. nodes'[n] = IF Usable(n) /\ d \in nodes[n].refs THEN x ELSE nodes[n]
    BY <2>1 DEF Healed
  <2>3. x.refs = nodes[n].refs \ {d} /\ x.model = nodes[n].model
    BY <1>0 DEF Node
  <2>4. Usable(n)
    BY <2>2 DEF Usable
  <2>5. nodes'[n].refs = nodes[n].refs \ {d} /\ nodes'[n].model = nodes[n].model
    <3> HIDE DEF x, d
    <3> QED BY <2>2, <2>3, <2>4
  <2>6. nodes[n].model # d
    BY <1>5, <2>4, Referred, DependencyAssumption
  <2> QED BY <2>4, <2>5, <2>6 DEF References, Deletion
<1> QED BY <1>0, <1>3, <1>4, <1>5

LEMMA EventDangling == ASSUME TypeInv, DanglingInv, HandleEvent PROVE DanglingInv'
<1> DEFINE e == Head(events)
<1>0. events \in Seq(Event) /\ events # <<>> /\ e \in Event
  BY DEF TypeInv, TypeOK, HandleEvent
<1>1. /\ UNCHANGED <<models, alive, announcing, late>> /\ lost \subseteq lost' /\ revived \subseteq revived'
      /\ \A n \in Nodes : nodes[n].status = "inactive" /\ nodes'[n].status = "active" => n \in revived'
  BY DEF HandleEvent
<1>2. \/ nodes' = Effect(e)
      \/ nodes' = nodes /\ lost' = lost \cup {e.about}
  BY DEF HandleEvent
<1>3. events' = events \/ events' = Tail(events)
  BY DEF HandleEvent
<1>4. ASSUME NEW r, ToCome(r), e # Deletion(r) PROVE ToCome(r)'
  <2>1. CASE Deletion(r) \in announcing \/ events' = events
    BY <1>1, <1>4, <2>1 DEF ToCome
  <2>2. CASE events' = Tail(events) /\ \E i \in 1..Len(events) : events[i] = Deletion(r)
    <3>1. PICK i \in 1..Len(events) : events[i] = Deletion(r)
      BY <2>2
    <3>2. i # 1
      BY <1>0, <1>4, <3>1
    <3>3. i - 1 \in 1..Len(events') /\ events'[i - 1] = events[i]
      BY <1>0, <2>2, <3>1, <3>2
    <3> QED BY <3>1, <3>3 DEF ToCome
  <2> QED BY <1>3, <1>4, <2>1, <2>2 DEF ToCome
<1> SUFFICES ASSUME NEW n \in Nodes, Usable(n)', NEW r \in References(n)'
             PROVE  Exists(r)' \/ ToCome(r)' \/ Excused(n, r)'
  BY DEF DanglingInv
<1> HIDE DEF e
<1>5. \/ n \in revived'
      \/ /\ Usable(n) /\ r \in References(n)
         /\ e # Deletion(r) \/ r \in lost'
  <2>1. CASE nodes' = Effect(e)
    BY <1>0, <1>1, <2>1, EffectUsable
  <2>2. CASE nodes' = nodes /\ lost' = lost \cup {e.about}
    BY <2>2 DEF Usable, References, Deletion
  <2> QED BY <1>2, <2>1, <2>2
<1>6. Usable(n) /\ r \in References(n) => Exists(r) \/ ToCome(r) \/ Excused(n, r)
  BY DEF DanglingInv
<1>7. Exists(r) => Exists(r)'
  BY <1>1 DEF Exists, ModelFound
<1> QED BY <1>1, <1>4, <1>5, <1>6, <1>7 DEF Excused

-----------------------------------------------------------------------------
LEMMA DanglingStep == ASSUME TypeInv, DanglingInv, [Next]_vars PROVE DanglingInv'
<1>1. CASE UNCHANGED vars
  BY <1>1, OthersKeep DEF vars, history
<1>2. CASE Next
  BY <1>2, OwnerDangling, UpdateDangling, RequestDangling, NodeDangling, EventDangling DEF Next
<1> QED BY <1>1, <1>2

\* A node that can be used refers to what exists, or to what the worker has still to hear of,
\* unless an event was lost, the reference was saved when it was gone already, or an update of
\* the model has made the node active again with the references it had.
THEOREM DanglingExcused == Spec => []NoDangling
<1>1. Init => TypeInv /\ DanglingInv
  <2>1. Init => DanglingInv
    BY Bare DEF Init, DanglingInv, Usable
  <2> QED BY <2>1, InitType
<1>2. TypeInv /\ DanglingInv /\ [Next]_vars => (TypeInv /\ DanglingInv)'
  BY TypeStep, DanglingStep
<1>3. DanglingInv => NoDangling
  BY DanglingEnough
<1> QED BY <1>1, <1>2, <1>3, PTL DEF Spec

-----------------------------------------------------------------------------
(* The sections of a node's configuration.                                 *)

\* Whatever refers to a model, or tells of one, came after the model.
BornInv ==
    /\ \A m \in Models : models[m] # Gone => m \in born
    /\ \A n \in Nodes : nodes[n].model \in Models => nodes[n].model \in born
    /\ \A q \in Requests : request[q].config.model \in Models => request[q].config.model \in born
    /\ \A u \in Updates : update[u].model \in Models => update[u].model \in born
    /\ \A e \in announcing : e.about \in Models => e.about \in born
    /\ \A k \in 1..Len(events) : events[k].about \in Models => events[k].about \in born

\* The last event about a model in the queue.
LastAbout(m, k) == events[k].about = m /\ \A j \in 1..Len(events) : j > k => events[j].about # m

SectionsFit(m) ==
    \A n \in Nodes : Usable(n) /\ nodes[n].model = m /\ n \notin outdated =>
        nodes[n].sections = Sections(models[m])

\* What is to be announced of a model is what it has become, and if nothing is to be, then
\* so is the last event in the queue; with no event left, the nodes have its sections.
FitsAt(m) ==
    /\ \A e \in announcing : e.about = m => e.caps = models[m]
    /\ (\A e \in announcing : e.about # m) =>
           \A k \in 1..Len(events) : LastAbout(m, k) => events[k].caps = models[m]
    /\ Announced(m) \/ SectionsFit(m)

FitsInv == \A m \in Models : models[m] # Gone /\ m \notin lost \cup crossed => FitsAt(m)

LEMMA FitsEnough == ASSUME TypeInv, FitsInv PROVE TemplateFits
<1> SUFFICES ASSUME NEW n \in Nodes, Usable(n), NEW m, m = nodes[n].model,
                    models[m] # Gone, m \notin lost \cup crossed, ~Announced(m), n \notin outdated
             PROVE  nodes[n].sections = Sections(models[m])
  BY DEF TemplateFits
<1>1. m \in Models
  BY Referred
<1> QED BY <1>1 DEF FitsInv, FitsAt, SectionsFit

LEMMA FitsInit == Init => BornInv /\ FitsInv
<1> SUFFICES ASSUME Init PROVE BornInv /\ FitsInv
  OBVIOUS
<1>1. BornInv
  BY Bare, DependencyAssumption DEF Init, BornInv, ModelFound, NoRequest, NoUpdate
<1>2. FitsInv
  BY Bare DEF Init, FitsInv, FitsAt, SectionsFit, Usable
<1> QED BY <1>1, <1>2

-----------------------------------------------------------------------------
LEMMA BornOwner == ASSUME TypeInv, BornInv, OwnerNext PROVE BornInv'
<1>0. models \in [Models -> AIModel] /\ events \in Seq(Event) /\ announcing \subseteq Event
  BY DEF TypeInv, TypeOK
<1>1. UNCHANGED <<nodes, request, update>>
  <2>1. UNCHANGED update
    BY DEF OwnerNext, CreateModel, DeleteModel, CreateTool, CreateBucket, CreateKnowledge, CreateDep,
           DeleteTool, DeleteBucket, DeleteCollection, DeleteDep, SweepBuckets, SweepCollections,
           AnnounceModel, AnnounceTool, AnnounceBucket, AnnounceCollection, AnnounceOf, Announce
  <2> QED BY <2>1, OwnerNodes DEF NodeVars
<1> DEFINE Goal == /\ born \subseteq born'
                   /\ \A m \in Models : models'[m] # Gone => m \in born'
                   /\ \A e \in announcing' : e.about \in Models => e.about \in born'
                   /\ \A k \in 1..Len(events') : events'[k].about \in Models => events'[k].about \in born'
<1>2. ASSUME NEW m \in Models, DeleteModel(m) PROVE Goal
  BY <1>0, <1>2 DEF BornInv, DeleteModel, ModelsWithout, ModelFound, Deletion, history
<1>3. ASSUME NEW m \in Models, NEW caps \in Capabilities, CreateModel(m, caps) PROVE Goal
  BY <1>0, <1>3 DEF BornInv, CreateModel, NewModel, Settled
<1>5. ASSUME NEW d \in Deps, NEW kind, CreateDep(d, kind) PROVE Goal
  BY <1>5 DEF BornInv, CreateDep, Settled
<1>6. ASSUME NEW d \in Deps, DeleteDep(d) PROVE Goal
  BY <1>6, DependencyAssumption DEF BornInv, DeleteDep, Deletion, history
<1>7. ASSUME NEW d \in Deps, SweepBuckets(d) \/ SweepCollections(d) PROVE Goal
  BY <1>7 DEF BornInv, SweepBuckets, SweepCollections
<1>8. ASSUME NEW e, Announce(e) PROVE Goal
  <2>1. /\ UNCHANGED <<models, born>> /\ announcing' \subseteq announcing /\ e \in announcing /\ e \in Event
    BY <1>0, <1>8 DEF Announce
  <2>2. CASE events' = Append(events, e)
    <3>1. \A k \in 1..Len(events') : events'[k] = e \/ (k \in 1..Len(events) /\ events'[k] = events[k])
      BY <1>0, <2>1, <2>2
    <3> QED BY <2>1, <3>1 DEF BornInv
  <2> QED BY <1>8, <2>1, <2>2 DEF Announce, BornInv
<1>9. Goal
  <2> HIDE DEF Goal
  <2> QED BY <1>2, <1>3, <1>5, <1>6, <1>7, <1>8
      DEF OwnerNext, CreateTool, CreateBucket, CreateKnowledge, DeleteTool, DeleteBucket, DeleteCollection,
          AnnounceModel, AnnounceTool, AnnounceBucket, AnnounceCollection, AnnounceOf
<1> QED BY <1>1, <1>9 DEF BornInv

LEMMA BornUpdate == ASSUME TypeInv, BornInv, NEW u \in Updates, UpdateNext(u) PROVE BornInv'
<1>0. /\ models \in [Models -> AIModel] /\ update \in [Updates -> Update]
      /\ UNCHANGED <<nodes, request, events, born>>
  BY UpdateSteps DEF TypeInv, TypeOK, NodeVars
<1>1. ASSUME NEW k \in Updates, update'[k].model \in Models PROVE update'[k].model \in born
  <2>1. CASE update'[k].model = update[k].model
    BY <1>1, <2>1 DEF BornInv
  <2>2. ASSUME NEW m \in Models, ReadCapabilities(u, m), k = u PROVE update'[k].model \in born
    BY <1>0, <2>2 DEF ReadCapabilities, Updating
  <2>3. CASE update'[k].model = NoModel
    BY <1>1, <2>3, DependencyAssumption
  <2>4. \/ update'[k].model \in {update[k].model, NoModel}
        \/ k = u /\ \E m \in Models : ReadCapabilities(u, m)
    <3>1. NoUpdate.model = NoModel /\ [update[u] EXCEPT !.step = "loaded"].model = update[u].model
      BY <1>0 DEF NoUpdate, Update
    <3> QED BY <1>0, <3>1 DEF UpdateNext, ReadCapabilities, LoadModel, RefuseUpdate, SaveModel, Updating
  <2> QED BY <2>1, <2>2, <2>3, <2>4
<1>2. ASSUME NEW m \in Models, NEW caps \in Capabilities, m = update[u].model, SaveModel(u, caps)
      PROVE  /\ \A k \in Models : models'[k] # Gone => k \in born
             /\ \A e \in announcing' : e.about \in Models => e.about \in born
  <2>1. m \in born
    BY <1>2 DEF BornInv
  <2>2. \A k \in Models : k # m => models'[k] = models[k]
    BY <1>0, <1>2 DEF SaveModel, Rebuilt
  <2>3. \A e \in announcing' : e \in announcing \/ e.about = m
    BY <1>2 DEF SaveModel, Changed
  <2> QED BY <2>1, <2>2, <2>3 DEF BornInv
<1>3. /\ \A k \in Models : models'[k] # Gone => k \in born
      /\ \A e \in announcing' : e.about \in Models => e.about \in born
  <2>1. CASE UNCHANGED <<models, announcing, changes, crossed>>
    BY <2>1 DEF BornInv
  <2> QED BY <1>2, <2>1, UpdateSteps
<1> QED BY <1>0, <1>1, <1>3 DEF BornInv

LEMMA BornRequest == ASSUME TypeInv, BornInv, NEW q \in Requests, RequestNext(q) PROVE BornInv'
<1>0. /\ request \in [Requests -> Request] /\ nodes \in [Nodes -> Node]
      /\ request[q] \in Request /\ request[q].config \in Node
  BY DEF TypeInv, TypeOK, Request
<1>1. UNCHANGED <<models, update, announcing, events, born>>
  BY DEF RequestNext, LoadToConfigure, LoadToUpdate, ConfigureModel, Validate,
         ValidateModel, ValidateTools, ValidateBuckets, ValidateCollections, Save, history
<1>2. ASSUME NEW x, request' = [request EXCEPT ![q] = x], x.config.model \in Models => x.config.model \in born,
             UNCHANGED nodes
      PROVE  BornInv'
  BY <1>0, <1>1, <1>2 DEF BornInv
<1>3. NoRequest.config.model \notin Models
  BY Bare, DependencyAssumption DEF NoRequest
<1>4. ASSUME NEW n \in Nodes, LoadToConfigure(q, n) PROVE BornInv'
  BY <1>2, <1>4 DEF LoadToConfigure, Begin, BornInv
<1>5. ASSUME NEW n \in Nodes, LoadToUpdate(q, n) PROVE BornInv'
  <2>1. PICK refs : request' = [request EXCEPT ![q] =
              [step |-> "update", node |-> n, config |-> Merged(n, refs), unchecked |-> ToCheck(Merged(n, refs))]]
    BY <1>5 DEF LoadToUpdate, Begin
  <2>2. Merged(n, refs).model = nodes[n].model
    BY <1>0 DEF Merged, Node
  <2> HIDE DEF Merged
  <2> QED BY <1>2, <1>5, <2>1, <2>2 DEF LoadToUpdate, BornInv
<1>6. ASSUME NEW m \in Models, ConfigureModel(q, m) PROVE BornInv'
  <2>1. CASE ModelFound(m)
    <3> DEFINE c == Migrated(request[q].config, m, models[m])
    <3>1. /\ request' = [request EXCEPT ![q] = [step |-> "save", node |-> request[q].node, config |-> c, unchecked |-> {}]]
          /\ UNCHANGED nodes
      BY <1>6, <2>1 DEF ConfigureModel, Begin
    <3>2. c.model = m /\ m \in born
      BY <2>1 DEF ModelFound, BornInv, Migrated
    <3> HIDE DEF c
    <3> QED BY <1>2, <3>1, <3>2
  <2>2. CASE ~ModelFound(m)
    BY <1>2, <1>3, <1>6, <2>2 DEF ConfigureModel, End
  <2> QED BY <2>1, <2>2
<1>7. ASSUME NEW part, NEW valid, Validate(q, part, valid) PROVE BornInv'
  <2>1. UNCHANGED nodes /\ \/ request' = [request EXCEPT ![q] = NoRequest]
                           \/ \E t, n, r : request' = [request EXCEPT ![q] = [step |-> t, node |-> n, config |-> request[q].config, unchecked |-> r]]
    BY <1>7 DEF Validate, Begin, End
  <2>2. CASE request' = [request EXCEPT ![q] = NoRequest]
    BY <1>2, <1>3, <2>1, <2>2
  <2>3. ASSUME NEW t, NEW n, NEW r,
               request' = [request EXCEPT ![q] = [step |-> t, node |-> n, config |-> request[q].config, unchecked |-> r]]
        PROVE  BornInv'
    BY <1>2, <2>1, <2>3 DEF BornInv
  <2> QED BY <2>1, <2>2, <2>3
<1>8. CASE Save(q)
  <2>1. request' = [request EXCEPT ![q] = NoRequest] /\ nodes' = Saved(request[q].node, request[q].config)
    BY <1>8 DEF Save, End
  <2>2. \A n \in Nodes : nodes'[n] = nodes[n] \/ nodes'[n] = request[q].config
    BY <1>0, <2>1 DEF Saved
  <2>3. \A p \in Requests : request'[p] = request[p] \/ request'[p] = NoRequest
    BY <1>0, <2>1
  <2> QED BY <1>1, <1>3, <2>2, <2>3 DEF BornInv
<1> QED BY <1>4, <1>5, <1>6, <1>7, <1>8 DEF RequestNext, ValidateModel, ValidateTools, ValidateBuckets, ValidateCollections

\* What an event does to a node: to the model's, its sections; to others nothing but refs.
LEMMA EffectSections ==
    ASSUME TypeInv, NEW e \in Event, NEW n \in Nodes, nodes' = Effect(e)
    PROVE  /\ nodes'[n].model = nodes[n].model
           /\ Usable(n)' =>
                \/ e.about = nodes[n].model /\ e.caps # Gone /\ nodes'[n].sections = Sections(e.caps)
                \/ e.about # nodes[n].model /\ Usable(n) /\ nodes'[n].sections = nodes[n].sections
<1>0. nodes[n] \in Node /\ e.about \in Models \cup Deps
  BY DEF TypeInv, TypeOK, Event
<1>3. CASE e.about \in Models /\ e.caps = Gone
  <2>1. nodes'[n] = IF nodes[n].model = e.about THEN [nodes[n] EXCEPT !.status = "inactive"] ELSE nodes[n]
    BY <1>3, DependencyAssumption DEF Effect, ModelDeleted
  <2> QED BY <1>0, <2>1 DEF Usable, Node
<1>4. CASE e.about \in Models /\ e.caps # Gone
  <2>1. nodes' = CapabilitiesUpdated(e.about, e.caps)
    BY <1>4, DependencyAssumption DEF Effect
  <2>2. nodes'[n] = IF nodes[n].model = e.about THEN Migrated(nodes[n], e.about, e.caps) ELSE nodes[n]
    BY <2>1 DEF CapabilitiesUpdated
  <2> QED BY <1>4, <2>2 DEF Usable, Migrated
<1>5. CASE e.about \in Deps
  <2> DEFINE d == e.about
             x == [nodes[n] EXCEPT !.refs = @ \ {d}, !.status = "altered"]
  <2>1. nodes' = Healed(d)
    BY <1>5, DependencyAssumption DEF Effect, ToolDeleted, BucketDeleted, CollectionDeleted
  <2>2. nodes'[n] = IF Usable(n) /\ d \in nodes[n].refs THEN x ELSE nodes[n]
    BY <2>1 DEF Healed
  <2>3. x.sections = nodes[n].sections /\ x.model = nodes[n].model
    BY <1>0 DEF Node
  <2>4. nodes'[n].sections = nodes[n].sections /\ nodes'[n].model = nodes[n].model /\ (Usable(n)' => Usable(n))
    <3>1. CASE Usable(n) /\ d \in nodes[n].refs
      BY <2>2, <2>3, <3>1
    <3>2. CASE ~(Usable(n) /\ d \in nodes[n].refs)
      BY <2>2, <3>2 DEF Usable
    <3> QED BY <3>1, <3>2
  <2>5. Usable(n) => nodes[n].model # d
    BY <1>5, Referred, DependencyAssumption
  <2> QED BY <2>4, <2>5
<1> QED BY <1>0, <1>3, <1>4, <1>5

LEMMA BornEvent == ASSUME TypeInv, BornInv, HandleEvent PROVE BornInv'
<1>0. events \in Seq(Event) /\ events # <<>> /\ Head(events) \in Event
  BY DEF TypeInv, TypeOK, HandleEvent
<1>1. UNCHANGED <<models, update, announcing, request, born>> /\ (nodes' = Effect(Head(events)) \/ nodes' = nodes)
  BY DEF HandleEvent
<1>2. \A n \in Nodes : nodes'[n].model = nodes[n].model
  BY <1>0, <1>1, EffectSections
<1>3. \A k \in 1..Len(events') : \E j \in 1..Len(events) : events'[k] = events[j]
  <2>1. events' = events \/ events' = Tail(events)
    BY DEF HandleEvent
  <2>2. CASE events' = Tail(events)
    <3>1. \A k \in 1..Len(events') : k + 1 \in 1..Len(events) /\ events'[k] = events[k + 1]
      BY <1>0, <2>2
    <3> QED BY <3>1
  <2> QED BY <2>1, <2>2
<1> QED BY <1>1, <1>2, <1>3 DEF BornInv

LEMMA BornStep == ASSUME TypeInv, BornInv, [Next]_vars PROVE BornInv'
<1>1. CASE UNCHANGED vars
  BY <1>1 DEF vars, history, BornInv
<1>2. CASE SweepNodes \/ \E n \in Nodes : CreateDraft(n) \/ DeleteNode(n)
  <2>1. UNCHANGED <<models, update, announcing, events, request>> /\ born \subseteq born'
    BY <1>2 DEF SweepNodes, CreateDraft, DeleteNode, Forget
  <2>2. \A k \in Nodes : nodes'[k] = nodes[k] \/ nodes'[k].model = NoModel
    BY <1>2, Bare DEF SweepNodes, CreateDraft, DeleteNode, TypeInv, TypeOK
  <2>3. \A k \in Nodes : nodes'[k].model \in Models => nodes'[k].model \in born'
    BY <2>1, <2>2, DependencyAssumption DEF BornInv
  <2>4. /\ \A m \in Models : models'[m] # Gone => m \in born'
        /\ \A q \in Requests : request'[q].config.model \in Models => request'[q].config.model \in born'
        /\ \A u \in Updates : update'[u].model \in Models => update'[u].model \in born'
        /\ \A e \in announcing' : e.about \in Models => e.about \in born'
        /\ \A k \in 1..Len(events') : events'[k].about \in Models => events'[k].about \in born'
    BY <2>1 DEF BornInv
  <2> QED BY <2>3, <2>4 DEF BornInv
<1> QED BY <1>1, <1>2, BornOwner, BornUpdate, BornRequest, BornEvent DEF Next

-----------------------------------------------------------------------------
\* A step that touches neither a model, nor an event about it, nor a node, keeps it.
LEMMA FitsSame ==
    ASSUME NEW m, FitsAt(m), models'[m] = models[m], events' = events,
           \A e : e.about = m => (e \in announcing' <=> e \in announcing),
           \A n \in Nodes : Usable(n)' /\ nodes'[n].model = m /\ n \notin outdated' =>
               Usable(n) /\ nodes'[n] = nodes[n] /\ n \notin outdated
    PROVE  FitsAt(m)'
<1>1. /\ \A e \in announcing' : e.about = m => e.caps = models'[m]
      /\ Announced(m) => Announced(m)'
  BY DEF FitsAt, Announced
<1>2. (\A e \in announcing' : e.about # m) => \A e \in announcing : e.about # m
  OBVIOUS
<1>3. \A k : LastAbout(m, k)' <=> LastAbout(m, k)
  BY DEF LastAbout
<1>4. SectionsFit(m) => SectionsFit(m)'
  BY DEF SectionsFit
<1> QED BY <1>1, <1>2, <1>3, <1>4 DEF FitsAt

LEMMA FitsAnnounce ==
    ASSUME TypeInv, NEW e, Announce(e), UNCHANGED NodeVars, NEW m \in Models, FitsAt(m), m \notin lost'
    PROVE  FitsAt(m)'
<1>0. events \in Seq(Event) /\ announcing \subseteq Event
  BY DEF TypeInv, TypeOK
<1>1. /\ e \in announcing /\ e \in Event /\ announcing' = announcing \ {e} /\ UNCHANGED models
      /\ events' = Append(events, e) \/ (events' = events /\ lost' = lost \cup {e.about})
  BY <1>0 DEF Announce
<1>2. /\ SectionsFit(m)' <=> SectionsFit(m)
      /\ \A f \in announcing' : f.about = m => f.caps = models'[m]
  BY <1>1 DEF SectionsFit, Usable, NodeVars, FitsAt
<1>3. CASE events' = events /\ lost' = lost \cup {e.about}
  BY <1>1, <1>3, FitsSame DEF NodeVars, Usable
<1>4. CASE events' = Append(events, e)
  <2>1. /\ Len(events') = Len(events) + 1 /\ Len(events) \in Nat
        /\ \A i \in 1..Len(events) : events'[i] = events[i]
        /\ events'[Len(events) + 1] = e
    BY <1>0, <1>1, <1>4
  <2>2. Announced(m) => Announced(m)'
    <3>1. CASE \E f \in announcing : f.about = m /\ f # e
      BY <1>1, <3>1 DEF Announced
    <3>2. CASE e.about = m
      BY <2>1, <3>2 DEF Announced
    <3>3. CASE \E i \in 1..Len(events) : events[i].about = m
      BY <2>1, <3>3 DEF Announced
    <3> QED BY <3>1, <3>2, <3>3 DEF Announced
  <2>3. ASSUME \A f \in announcing' : f.about # m, NEW k \in 1..Len(events'), LastAbout(m, k)'
        PROVE  events'[k].caps = models'[m]
    <3>1. CASE k = Len(events) + 1
      <4>1. e.about = m /\ events'[k] = e
        BY <2>1, <2>3, <3>1 DEF LastAbout
      <4> QED BY <1>1, <4>1 DEF FitsAt
    <3>2. CASE k # Len(events) + 1
      <4>1. k \in 1..Len(events) /\ events'[k] = events[k] /\ Len(events) + 1 > k
        BY <2>1, <3>2
      <4>2. e.about # m
        <5>1. Len(events) + 1 \in 1..Len(events')
          BY <2>1
        <5>2. events'[Len(events) + 1].about # m
          BY <2>3, <4>1, <5>1 DEF LastAbout
        <5> QED BY <2>1, <5>2
      <4>3. \A f \in announcing : f.about # m
        BY <1>1, <2>3, <4>2
      <4>4. LastAbout(m, k)
        <5>1. events[k].about = m
          BY <2>3, <4>1 DEF LastAbout
        <5>2. ASSUME NEW j \in 1..Len(events), j > k PROVE events[j].about # m
          <6>1. j \in 1..Len(events') /\ events'[j] = events[j]
            BY <2>1
          <6>2. events'[j].about # m
            BY <2>3, <5>2, <6>1 DEF LastAbout
          <6> QED BY <6>1, <6>2
        <5> QED BY <5>1, <5>2 DEF LastAbout
      <4> QED BY <1>1, <4>1, <4>3, <4>4 DEF FitsAt
    <3> QED BY <3>1, <3>2
  <2> QED BY <1>2, <2>2, <2>3 DEF FitsAt
<1> QED BY <1>1, <1>3, <1>4

LEMMA FitsOwner ==
    ASSUME TypeInv, BornInv, OwnerNext, NEW m \in Models, models[m] # Gone /\ m \notin lost \cup crossed => FitsAt(m),
           models'[m] # Gone, m \notin lost' \cup crossed'
    PROVE  FitsAt(m)'
<1>0. /\ models \in [Models -> AIModel] /\ UNCHANGED NodeVars /\ announcing \subseteq Event
  BY OwnerNodes DEF TypeInv, TypeOK
<1>1. \A n \in Nodes : Usable(n)' <=> Usable(n)
  BY <1>0 DEF Usable, NodeVars
<1>2. ASSUME models'[m] = models[m], events' = events, lost \subseteq lost', crossed \subseteq crossed',
             \A e : e.about = m => (e \in announcing' <=> e \in announcing)
      PROVE  FitsAt(m)'
  BY <1>0, <1>1, <1>2, FitsSame DEF NodeVars
<1>3. ASSUME NEW x \in Models, DeleteModel(x) PROVE FitsAt(m)'
  BY <1>0, <1>2, <1>3 DEF DeleteModel, ModelsWithout, Deletion, history
<1>4. ASSUME NEW x \in Models, NEW caps \in Capabilities, CreateModel(x, caps) PROVE FitsAt(m)'
  <2>1. CASE x # m
    BY <1>0, <1>2, <1>4, <2>1 DEF CreateModel, NewModel, Settled
  <2>2. CASE x = m
    <3>1. m \notin born /\ UNCHANGED <<announcing, events>>
      BY <1>4, <2>2 DEF CreateModel, Settled
    <3>2. (\A e \in announcing : e.about # m) /\ (\A k \in 1..Len(events) : events[k].about # m)
      BY <3>1 DEF BornInv
    <3>3. \A n \in Nodes : nodes'[n].model # m
      BY <1>0, <3>1 DEF BornInv, NodeVars
    <3> QED BY <3>1, <3>2, <3>3 DEF FitsAt, LastAbout, SectionsFit
  <2> QED BY <2>1, <2>2
<1>6. ASSUME NEW d \in Deps, NEW kind, CreateDep(d, kind) PROVE FitsAt(m)'
  BY <1>2, <1>6 DEF CreateDep, Settled
<1>7. ASSUME NEW d \in Deps, DeleteDep(d) PROVE FitsAt(m)'
  <2>1. \A e : e.about = m => (e \in announcing' <=> e \in announcing)
    BY <1>7, DependencyAssumption DEF DeleteDep, Deletion
  <2> QED BY <1>2, <1>7, <2>1 DEF DeleteDep, history
<1>8. ASSUME NEW d \in Deps, SweepBuckets(d) \/ SweepCollections(d) PROVE FitsAt(m)'
  BY <1>2, <1>8 DEF SweepBuckets, SweepCollections
<1>9. ASSUME NEW e, Announce(e) PROVE FitsAt(m)'
  BY <1>0, <1>9, FitsAnnounce DEF Announce
<1> QED BY <1>3, <1>4, <1>6, <1>7, <1>8, <1>9
    DEF OwnerNext, CreateTool, CreateBucket, CreateKnowledge, DeleteTool, DeleteBucket, DeleteCollection,
        AnnounceModel, AnnounceTool, AnnounceBucket, AnnounceCollection, AnnounceOf

\* An update of the model overlaps nothing: it is announced alone, or it has changed nothing.
LEMMA FitsUpdate ==
    ASSUME TypeInv, NEW u \in Updates, UpdateNext(u), NEW m \in Models,
           models[m] # Gone /\ m \notin lost \cup crossed => FitsAt(m), models'[m] # Gone, m \notin lost' \cup crossed'
    PROVE  FitsAt(m)'
<1>0. /\ models \in [Models -> AIModel]
      /\ UNCHANGED <<NodeVars, events, lost>>
  BY UpdateSteps DEF TypeInv, TypeOK
<1>1. \A n \in Nodes : Usable(n)' <=> Usable(n)
  BY <1>0 DEF Usable, NodeVars
<1>2. ASSUME models'[m] = models[m], crossed \subseteq crossed',
             \A e : e.about = m => (e \in announcing' <=> e \in announcing)
      PROVE  FitsAt(m)'
  BY <1>0, <1>1, <1>2, FitsSame DEF NodeVars
<1>3. ASSUME NEW x \in Models, NEW caps \in Capabilities, x = update[u].model, SaveModel(u, caps)
      PROVE  FitsAt(m)'
  <2> DEFINE old == update[u].old
  <2>1. /\ models' = [models EXCEPT ![x] = caps] /\ crossed \subseteq crossed'
        /\ announcing' = announcing \cup Changed(x, old, caps)
        /\ x = m => ~Overlaps(x, old, caps)
    BY <1>3 DEF SaveModel, Rebuilt
  <2> HIDE DEF old
  <2>2. CASE x # m
    BY <1>0, <1>2, <2>1, <2>2 DEF Changed
  <2>3. CASE x = m /\ caps = old
    <3>1. models[m] = caps /\ announcing' = announcing
      BY <2>1, <2>3 DEF Overlaps, Changed
    <3> QED BY <1>0, <1>2, <2>1, <2>3, <3>1
  <2>4. CASE x = m /\ caps # old
    <3>1. /\ \A e \in announcing : e.about # m
          /\ announcing' = announcing \cup {[about |-> m, caps |-> caps]} /\ models'[m] = caps
      BY <1>0, <2>1, <2>4 DEF Overlaps, Changed
    <3>2. \A e \in announcing' : e.about = m => e.caps = models'[m]
      BY <3>1
    <3>3. \E e \in announcing' : e.about = m
      <4>1. [about |-> m, caps |-> caps] \in announcing' /\ [about |-> m, caps |-> caps].about = m
        BY <3>1
      <4> QED BY <4>1
    <3>4. Announced(m)'
      BY <3>3 DEF Announced
    <3> QED BY <3>2, <3>3, <3>4 DEF FitsAt
  <2> QED BY <2>2, <2>3, <2>4
<1>4. CASE UNCHANGED <<models, announcing, changes, crossed>>
  BY <1>2, <1>4
<1> QED BY <1>3, <1>4, UpdateSteps

\* A save says itself whether the sections are those of the model.
LEMMA FitsRequest ==
    ASSUME TypeInv, NEW q \in Requests, RequestNext(q), NEW m \in Models, FitsAt(m)
    PROVE  FitsAt(m)' /\ UNCHANGED <<models, lost, crossed>>
<1>0. nodes \in [Nodes -> Node]
  BY DEF TypeInv, TypeOK
<1>1. CASE UNCHANGED <<nodes, models, alive, update, announcing, events, changes, failures, history>>
  BY <1>1, FitsSame DEF history, Usable
<1>2. CASE Save(q)
  <2>0. PICK n, config : n = request[q].node /\ config = request[q].config
    OBVIOUS
  <2>1. UNCHANGED <<models, announcing, events, lost, crossed>>
    BY <1>2 DEF Save
  <2>2. \A k \in Nodes : k # n => nodes'[k] = nodes[k] /\ (k \notin outdated' => k \notin outdated)
    BY <1>0, <1>2, <2>0 DEF Save, Saved
  <2>3. CASE n \notin Nodes \/ nodes[n].status = "absent"
    <3>1. n \in Nodes => ~Usable(n)'
      BY <1>0, <1>2, <2>0, <2>3 DEF Save, Saved, Usable
    <3>2. \A k \in Nodes : Usable(k)' /\ k \notin outdated' => Usable(k) /\ nodes'[k] = nodes[k] /\ k \notin outdated
      BY <2>2, <3>1 DEF Usable
    <3> QED BY <2>1, <3>2, FitsSame
  <2>4. CASE n \in Nodes /\ nodes[n].status # "absent"
    <3>1. nodes'[n] = config /\ n \in Present
      BY <1>0, <1>2, <2>0, <2>4 DEF Save, Saved, Present
    <3>2. n \notin outdated' => nodes'[n].sections = Sections(models[nodes'[n].model])
      BY <1>2, <2>0, <3>1 DEF Save
    <3>3. SectionsFit(m) => SectionsFit(m)'
      <4> SUFFICES ASSUME SectionsFit(m), NEW k \in Nodes, Usable(k)', nodes'[k].model = m, k \notin outdated'
                   PROVE  nodes'[k].sections = Sections(models[m])
        BY <2>1 DEF SectionsFit
      <4>1. CASE k = n
        BY <3>2, <4>1
      <4>2. CASE k # n
        <5>1. nodes'[k] = nodes[k] /\ Usable(k) /\ k \notin outdated
          BY <2>2, <4>2 DEF Usable
        <5> QED BY <5>1 DEF SectionsFit
      <4> QED BY <4>1, <4>2
    <3>4. (Announced(m)' <=> Announced(m)) /\ \A k : LastAbout(m, k)' <=> LastAbout(m, k)
      BY <2>1 DEF Announced, LastAbout
    <3> QED BY <2>1, <3>3, <3>4 DEF FitsAt
  <2> QED BY <2>1, <2>3, <2>4
<1> QED BY <1>1, <1>2
    DEF RequestNext, LoadToConfigure, LoadToUpdate, ConfigureModel, Validate, history,
        ValidateModel, ValidateTools, ValidateBuckets, ValidateCollections

LEMMA FitsNode ==
    ASSUME TypeInv, SweepNodes \/ \E n \in Nodes : CreateDraft(n) \/ DeleteNode(n), NEW m \in Models, FitsAt(m)
    PROVE  FitsAt(m)' /\ UNCHANGED <<models, lost, crossed>>
<1>1. UNCHANGED <<models, announcing, events, lost, crossed>>
  BY DEF SweepNodes, CreateDraft, DeleteNode, Forget
<1>2. \A k \in Nodes : \/ nodes'[k].status \in {"absent", "draft"}
                       \/ nodes'[k] = nodes[k] /\ (k \notin outdated' => k \notin outdated)
  BY Bare DEF SweepNodes, CreateDraft, DeleteNode, Forget, TypeInv, TypeOK
<1>3. \A k \in Nodes : Usable(k)' /\ k \notin outdated' => Usable(k) /\ nodes'[k] = nodes[k] /\ k \notin outdated
  BY <1>2 DEF Usable
<1> QED BY <1>1, <1>3, FitsSame

\* The queue after its head: what was last about a model still is, unless it was the head.
LEMMA FitsEvent ==
    ASSUME TypeInv, HandleEvent, NEW m \in Models, models[m] # Gone, FitsAt(m), m \notin lost'
    PROVE  FitsAt(m)' /\ UNCHANGED <<models, crossed>>
<1>0. events \in Seq(Event) /\ events # <<>> /\ Head(events) \in Event /\ Head(events) = events[1]
      /\ 1 \in 1..Len(events) /\ Len(events) \in Nat
  BY DEF TypeInv, TypeOK, HandleEvent
<1>a. PICK e : e = Head(events)
  OBVIOUS
<1>1. UNCHANGED <<models, announcing, crossed, outdated>>
  BY DEF HandleEvent
<1>2. \/ nodes' = Effect(e) /\ (events' = Tail(events) \/ events' = events)
      \/ nodes' = nodes /\ events' = Tail(events) /\ lost' = lost \cup {e.about}
  BY <1>a DEF HandleEvent
<1>3. events' = Tail(events) =>
        /\ Len(events) = Len(events') + 1 /\ Len(events') \in Nat
        /\ \A k \in 1..Len(events') : k + 1 \in 1..Len(events) /\ events'[k] = events[k + 1]
  BY <1>0
<1>4. \A f \in announcing' : f.about = m => f.caps = models'[m]
  BY <1>1 DEF FitsAt
<1>5. ASSUME \A f \in announcing' : f.about # m, NEW k \in 1..Len(events'), LastAbout(m, k)'
      PROVE  events'[k].caps = models'[m]
  <2>1. CASE events' = events
    BY <1>1, <1>5, <2>1 DEF FitsAt, LastAbout
  <2>2. CASE events' = Tail(events)
    <3>1. k + 1 \in 1..Len(events) /\ events'[k] = events[k + 1]
      BY <1>3, <2>2
    <3>2. events[k + 1].about = m
      BY <1>5, <3>1 DEF LastAbout
    <3>3. ASSUME NEW j \in 1..Len(events), j > k + 1 PROVE events[j].about # m
      <4>1. j - 1 \in 1..Len(events') /\ events'[j - 1] = events[j] /\ j - 1 > k
        BY <1>3, <2>2, <3>3
      <4>2. events'[j - 1].about # m
        BY <1>5, <4>1 DEF LastAbout
      <4> QED BY <4>1, <4>2
    <3>4. LastAbout(m, k + 1)
      BY <3>2, <3>3 DEF LastAbout
    <3> QED BY <1>1, <1>5, <3>1, <3>4 DEF FitsAt
  <2> QED BY <1>2, <2>1, <2>2
<1>6. ASSUME Announced(m), e.about # m PROVE Announced(m)'
  <2>1. CASE (\E f \in announcing : f.about = m) \/ events' = events
    BY <1>1, <1>6, <2>1 DEF Announced
  <2>2. ASSUME NEW i \in 1..Len(events), events[i].about = m, events' = Tail(events) PROVE Announced(m)'
    <3>1. i # 1
      BY <1>0, <1>6, <1>a, <2>2
    <3>2. i - 1 \in 1..Len(events') /\ events'[i - 1] = events[i]
      BY <1>3, <2>2, <3>1
    <3> QED BY <2>2, <3>2 DEF Announced
  <2> QED BY <1>2, <1>6, <2>1, <2>2 DEF Announced
<1>7. Announced(m)' \/ SectionsFit(m)'
  <2>1. SUFFICES ASSUME ~Announced(m)', NEW n \in Nodes, Usable(n)', nodes'[n].model = m, n \notin outdated'
                 PROVE  nodes'[n].sections = Sections(models[m])
    BY <1>1 DEF SectionsFit
  <2>2. ASSUME e.about # m, Usable(n), nodes'[n].sections = nodes[n].sections, nodes[n].model = m
        PROVE  nodes'[n].sections = Sections(models[m])
    <3>1. SectionsFit(m)
      BY <1>6, <2>1, <2>2 DEF FitsAt
    <3> QED BY <1>1, <2>1, <2>2, <3>1 DEF SectionsFit
  <2>3. CASE nodes' = Effect(e)
    <3>1. nodes'[n].model = nodes[n].model
          /\ \/ e.about = m /\ e.caps # Gone /\ nodes'[n].sections = Sections(e.caps)
             \/ e.about # m /\ Usable(n) /\ nodes'[n].sections = nodes[n].sections
      BY <1>0, <1>a, <2>1, <2>3, EffectSections
    <3>2. CASE e.about = m /\ nodes'[n].sections = Sections(e.caps)
      <4>1. \A f \in announcing : f.about # m
        BY <1>1, <2>1 DEF Announced
      <4>2. events' = Tail(events)
        <5>1. events' # events
          BY <1>0, <1>a, <2>1, <3>2 DEF Announced
        <5> QED BY <1>2, <5>1
      <4>3. ASSUME NEW j \in 1..Len(events), j > 1 PROVE events[j].about # m
        <5>1. j - 1 \in 1..Len(events') /\ events'[j - 1] = events[j]
          BY <1>3, <4>2, <4>3
        <5> QED BY <2>1, <5>1 DEF Announced
      <4>4. LastAbout(m, 1)
        BY <1>0, <1>a, <3>2, <4>3 DEF LastAbout
      <4>5. e.caps = models[m]
        BY <1>0, <1>a, <4>1, <4>4 DEF FitsAt
      <4> QED BY <3>2, <4>5
    <3> QED BY <2>1, <2>2, <3>1, <3>2
  <2>4. CASE nodes' = nodes /\ lost' = lost \cup {e.about}
    <3>1. e.about # m /\ Usable(n)
      BY <2>1, <2>4 DEF Usable
    <3> QED BY <2>1, <2>2, <2>4, <3>1
  <2> QED BY <1>2, <2>3, <2>4
<1> QED BY <1>1, <1>4, <1>5, <1>7 DEF FitsAt

LEMMA FitsStep == ASSUME TypeInv, BornInv, FitsInv, [Next]_vars PROVE FitsInv'
<1> SUFFICES ASSUME NEW m \in Models, models'[m] # Gone, m \notin lost' \cup crossed' PROVE FitsAt(m)'
  BY DEF FitsInv
<1>0. models[m] # Gone /\ m \notin lost \cup crossed => FitsAt(m)
  BY DEF FitsInv
<1>1. CASE UNCHANGED vars
  BY <1>0, <1>1, FitsSame DEF vars, history, Usable
<1>2. CASE OwnerNext
  BY <1>0, <1>2, FitsOwner
<1>a. ASSUME NEW u \in Updates, UpdateNext(u) PROVE FitsAt(m)'
  BY <1>0, <1>a, FitsUpdate
<1>3. ASSUME NEW q \in Requests, RequestNext(q) PROVE FitsAt(m)'
  <2>1. UNCHANGED <<models, lost, crossed>>
    BY <1>3 DEF RequestNext, LoadToConfigure, LoadToUpdate, ConfigureModel, Validate, history,
                ValidateModel, ValidateTools, ValidateBuckets, ValidateCollections, Save
  <2> QED BY <1>0, <1>3, <2>1, FitsRequest
<1>4. CASE SweepNodes \/ \E n \in Nodes : CreateDraft(n) \/ DeleteNode(n)
  <2>1. UNCHANGED <<models, lost, crossed>>
    BY <1>4 DEF SweepNodes, CreateDraft, DeleteNode, Forget
  <2> QED BY <1>0, <1>4, <2>1, FitsNode
<1>5. CASE HandleEvent
  <2>1. UNCHANGED <<models, crossed>> /\ lost \subseteq lost'
    BY <1>5 DEF HandleEvent
  <2> QED BY <1>0, <1>5, <2>1, FitsEvent
<1> QED BY <1>1, <1>2, <1>a, <1>3, <1>4, <1>5 DEF Next

\* TemplateFits: a node that can be used has the sections its model's capabilities allow, as
\* soon as no event about the model is still to come, unless an event was lost, two updates
\* overlapped, or a request saved what it had read before an update.
THEOREM TemplatesAlwaysFit == Spec => []TemplateFits
<1>1. Init => TypeInv /\ BornInv /\ FitsInv
  BY InitType, FitsInit
<1>2. TypeInv /\ BornInv /\ FitsInv /\ [Next]_vars => (TypeInv /\ BornInv /\ FitsInv)'
  BY TypeStep, BornStep, FitsStep
<1>3. TypeInv /\ FitsInv => TemplateFits
  BY FitsEnough
<1> QED BY <1>1, <1>2, <1>3, PTL DEF Spec
=============================================================================
