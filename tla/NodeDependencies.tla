-------------------------- MODULE NodeDependencies --------------------------
(***************************************************************************)
(* The agent nodes of MS4 refer to resources of other services: a model    *)
(* (MS3), tools (MS7), a memory bucket (MS9), a knowledge collection       *)
(* (MS11).  A node is saved after the references have been checked over    *)
(* HTTP.  When a resource is deleted its service announces it, and a       *)
(* worker of MS4 takes the reference out of the nodes.                     *)
(*                                                                         *)
(* A request reads the node, makes its calls and saves what it has         *)
(* computed, with nothing locked in between; the worker handles one event  *)
(* in one transaction.                                                     *)
(***************************************************************************)
EXTENDS Naturals, Sequences, FiniteSets

CONSTANTS
    Nodes,          \* ids of nodes; an id is never used twice
    Models,         \* ids of models
    Deps,           \* ids of tools, buckets and collections
    Kind,           \* the kind of each of them
    Starts,         \* the sets of them that may exist at the start
    Capabilities,   \* the sets of capabilities a model may have
    Requests,       \* requests to MS4 that can be under way at once
    Updates,        \* updates of models in MS3 that can be under way at once
    NoNode,         \* not a node
    NoModel,        \* not a model
    MaxChanges,     \* the bound on deletions and changes of resources
    MaxFailures     \* the bound on what may go wrong

Kinds == {"tool", "bucket", "collection"}

ASSUME DependencyAssumption ==
    /\ Kind \in [Deps -> Kinds]
    /\ Starts \subseteq SUBSET Deps
    /\ Capabilities \subseteq SUBSET {"text", "tool_use"}
    /\ NoNode \notin Nodes
    /\ NoModel \notin Models
    /\ Models \cap Deps = {}
    /\ NoModel \notin Deps
    /\ MaxChanges \in Nat /\ MaxFailures \in Nat

VARIABLES
    nodes,          \* MS4: status, model, sections of the configuration, references
    models,         \* MS3: the capabilities of each model, {"gone"} when it is deleted
    alive,          \* MS7, MS9, MS11: tools, buckets and collections that exist
    request,        \* requests to MS4
    update,         \* MS3: updates of models
    announcing,     \* deletions and updates that are done but not yet published
    events,         \* the queue of MS4's dependency worker
    changes,        \* how many deletions and changes there have been
    failures,       \* how many failures there have been
    born,           \* history: ids used for a node
    lost,           \* history: resources an event of which was never handled
    late,           \* history: node and reference that was gone when it was saved
    revived,        \* history: nodes made active again by an update of their model
    outdated,       \* history: nodes saved with sections their model did not have
    crossed         \* history: models of which an update overlapped another one

history == <<born, lost, late, revived, outdated, crossed>>
vars == <<nodes, models, alive, request, update, announcing, events, changes, failures, history>>

Status == {"absent", "draft", "active", "altered", "inactive"}
Gone == {"gone"}

Node == [status: Status, model: Models \cup {NoModel}, sections: SUBSET Kinds, refs: SUBSET Deps]
AIModel == Capabilities \cup {Gone}
NoConfig == [status |-> "absent", model |-> NoModel, sections |-> {}, refs |-> {}]
Draft == [NoConfig EXCEPT !.status = "draft"]

Event == [about: Models \cup Deps, caps: AIModel]

NoUpdate == [step |-> "idle", model |-> NoModel, old |-> {}]

Update == [step: {"read", "loaded"}, model: Models, old: Capabilities \cup {{}}] \cup {NoUpdate}

NoRequest == [step |-> "idle", node |-> NoNode, config |-> NoConfig, unchecked |-> {}]

TypeOK ==
    /\ nodes \in [Nodes -> Node]
    /\ models \in [Models -> AIModel]
    /\ alive \subseteq Deps
    /\ request \in [Requests -> [step: {"idle", "configure", "update", "save"},
                                 node: Nodes \cup {NoNode},
                                 config: Node,
                                 unchecked: SUBSET (Models \cup Deps)]]
    /\ update \in [Updates -> Update]
    /\ announcing \subseteq Event
    /\ events \in Seq(Event)
    /\ changes \in 0..MaxChanges
    /\ failures \in 0..MaxFailures
    /\ born \subseteq Nodes \cup Models \cup Deps
    /\ lost \subseteq Models \cup Deps
    /\ late \subseteq Nodes \X (Models \cup Deps)
    /\ revived \subseteq Nodes
    /\ outdated \subseteq Nodes
    /\ crossed \subseteq Models

-----------------------------------------------------------------------------
Failure == failures < MaxFailures /\ failures' = failures + 1

\* A model that is not found fails a validation, a lookup, an update and a deletion alike.
ModelFound(m) == m \in Models /\ models[m] # Gone

Exists(r) == ModelFound(r) \/ r \in alive

\* The template a model's capabilities allow: a section for each kind of reference.
Sections(caps) ==
    (IF "text" \in caps THEN {"bucket", "collection"} ELSE {})
        \cup (IF "tool_use" \in caps THEN {"tool"} ELSE {})

Fitting(refs, sections) == {d \in refs : Kind[d] \in sections}

Present == {n \in Nodes : nodes[n].status # "absent"}

Usable(n) == nodes[n].status \in {"active", "altered"}

Deletion(r) == [about |-> r, caps |-> Gone]

-----------------------------------------------------------------------------
(* The services that own the resources.                                    *)

Change == changes < MaxChanges /\ changes' = changes + 1

Settled == <<announcing, events, failures, lost, late, revived, outdated, crossed>>

\* A resource is created under an id of its own, and nothing is announced.
CreateDep(d, kind) ==
    /\ Kind[d] = kind /\ d \notin born
    /\ Change
    /\ alive' = alive \cup {d}
    /\ born' = born \cup {d}
    /\ UNCHANGED <<nodes, models, request, update, Settled>>

CreateTool(d) == CreateDep(d, "tool")
CreateBucket(d) == CreateDep(d, "bucket")
CreateKnowledge(d) == CreateDep(d, "collection")

ModelsWithout(m) == [models EXCEPT ![m] = Gone]

\* The row is deleted first and the event published after it.
DeleteModel(m) ==
    /\ ModelFound(m)
    /\ Change
    /\ models' = ModelsWithout(m)
    /\ announcing' = announcing \cup {Deletion(m)}
    /\ UNCHANGED <<nodes, alive, request, update, events, failures, history>>

DeleteDep(d) ==
    /\ d \in alive
    /\ Change
    /\ alive' = alive \ {d}
    /\ announcing' = announcing \cup {Deletion(d)}
    /\ UNCHANGED <<nodes, models, request, update, events, failures, history>>

DeleteTool(d) == Kind[d] = "tool" /\ DeleteDep(d)
DeleteBucket(d) == Kind[d] = "bucket" /\ DeleteDep(d)
DeleteCollection(d) == Kind[d] = "collection" /\ DeleteDep(d)

\* The cleanup of a project deletes its buckets or collections and announces none of
\* them, although nodes of other projects of the owner may refer to them.
SweepBuckets(d) ==
    /\ Kind[d] = "bucket"
    /\ d \in alive
    /\ Failure
    /\ alive' = alive \ {d}
    /\ lost' = lost \cup {d}
    /\ UNCHANGED <<nodes, models, request, update, announcing, events, changes,
                   born, late, revived, outdated, crossed>>

SweepCollections(d) ==
    /\ Kind[d] = "collection"
    /\ d \in alive
    /\ Failure
    /\ alive' = alive \ {d}
    /\ lost' = lost \cup {d}
    /\ UNCHANGED <<nodes, models, request, update, announcing, events, changes,
                   born, late, revived, outdated, crossed>>

\* Saving a model takes its capabilities from the provider's blueprint, which may have
\* been edited since.
Blueprint(m) == Capabilities

\* A new model has the capabilities its provider's blueprint gives it.
NewModel(m, caps) == [models EXCEPT ![m] = caps]

CreateModel(m, caps) ==
    /\ m \notin born
    /\ caps \in Blueprint(m)
    /\ Change
    /\ models' = NewModel(m, caps)
    /\ born' = born \cup {m}
    /\ UNCHANGED <<nodes, alive, request, update, Settled>>

Updating(u, x) ==
    /\ update' = [update EXCEPT ![u] = x]
    /\ UNCHANGED <<nodes, alive, request>>

\* An update first reads the capabilities to compare with; of a model that is not found
\* there are none.
ReadCapabilities(u, m) ==
    /\ update[u].step = "idle"
    /\ m \in born
    /\ Updating(u, [step |-> "read", model |-> m, old |-> IF ModelFound(m) THEN models[m] ELSE {}])
    /\ UNCHANGED <<models, announcing, events, changes, failures, history>>

\* Then it reads the row that it will save, which has to be there.
LoadModel(u) ==
    /\ update[u].step = "read"
    /\ Updating(u, IF ModelFound(update[u].model) THEN [update[u] EXCEPT !.step = "loaded"] ELSE NoUpdate)
    /\ UNCHANGED <<models, announcing, events, changes, failures, history>>

\* What is submitted is not valid, the model has no blueprint any more, or MS3 stops.
RefuseUpdate(u) ==
    /\ update[u].step # "idle"
    /\ Updating(u, NoUpdate)
    /\ UNCHANGED <<models, announcing, events, changes, failures, history>>

\* The capabilities were cleared, so that saving builds them again.  The whole row is
\* saved, which brings back a model that was deleted meanwhile.
Rebuilt(m, caps) == [models EXCEPT ![m] = caps]

\* Mutant for TemplateFits: a change that takes capabilities away is not announced.
MutChanged(m, old, caps) == IF caps \subseteq old THEN {} ELSE {[about |-> m, caps |-> caps]}

\* What is announced is what differs from the capabilities that were read first.
Changed(m, old, caps) == IF caps # old THEN {[about |-> m, caps |-> caps]} ELSE {}

\* An update overlaps another one of its model that is not announced yet, or one that was
\* saved since the capabilities were read, so that it announces nothing although it changes
\* them.
Overlaps(m, old, caps) ==
    \/ \E e \in announcing : e.about = m
    \/ caps = old /\ models[m] # caps

SaveModel(u, caps) ==
    LET m == update[u].model
        old == update[u].old
    IN  /\ update[u].step = "loaded"
        /\ caps \in Blueprint(m)
        /\ Change
        /\ models' = Rebuilt(m, caps)
        /\ announcing' = announcing \cup Changed(m, old, caps)
        /\ crossed' = crossed \cup {k \in {m} : Overlaps(m, old, caps)}
        /\ Updating(u, NoUpdate)
        /\ UNCHANGED <<events, failures, born, lost, late, revived, outdated>>

\* A publication that fails after its retries is logged, and the event is lost.  An event
\* that a retry queues twice is like one that is handled twice.
Announce(e) ==
    /\ e \in announcing
    /\ announcing' = announcing \ {e}
    /\ \/ events' = Append(events, e) /\ UNCHANGED <<failures, lost>>
       \/ Failure /\ lost' = lost \cup {e.about} /\ UNCHANGED events
    /\ UNCHANGED <<nodes, models, alive, request, update, changes,
                   born, late, revived, outdated, crossed>>

AnnounceOf(kind) == \E e \in announcing : e.about \in Deps /\ Kind[e.about] = kind /\ Announce(e)

AnnounceModel == \E e \in announcing : e.about \in Models /\ Announce(e)
AnnounceTool == AnnounceOf("tool")
AnnounceBucket == AnnounceOf("bucket")
AnnounceCollection == AnnounceOf("collection")

-----------------------------------------------------------------------------
(* MS4, the API.                                                           *)

Begin(q, step, n, config, unchecked) ==
    request' = [request EXCEPT ![q] =
        [step |-> step, node |-> n, config |-> config, unchecked |-> unchecked]]

End(q) == request' = [request EXCEPT ![q] = NoRequest]

\* The project is authorised by its id and owner; a draft has an empty configuration.
CreateDraft(n) ==
    /\ n \notin born
    /\ born' = born \cup {n}
    /\ nodes' = [nodes EXCEPT ![n] = Draft]
    /\ UNCHANGED <<models, alive, request, update, announcing, events, changes, failures,
                   lost, late, revived, outdated, crossed>>

LoadToConfigure(q, n) ==
    /\ request[q].step = "idle"
    /\ nodes[n].status # "absent"
    /\ Begin(q, "configure", n, nodes[n], {})
    /\ UNCHANGED <<nodes, models, alive, update, announcing, events, changes, failures, history>>

\* The settings of a node carried over to the sections of a new model's template; none of
\* them is checked.
Migrated(old, m, caps) ==
    [status |-> "active", model |-> m, sections |-> Sections(caps),
     refs |-> Fitting(old.refs, Sections(caps))]

\* The capabilities of the new model are fetched, which fails when it does not exist.
ConfigureModel(q, m) ==
    /\ request[q].step = "configure"
    /\ IF ModelFound(m)
       THEN Begin(q, "save", request[q].node, Migrated(request[q].config, m, models[m]), {})
       ELSE End(q)
    /\ UNCHANGED <<nodes, models, alive, update, announcing, events, changes, failures, history>>

\* What a user may submit for a node: any references (those that do not exist when the
\* node is read are refused and left out here), but no other model.
Submissions(n) == SUBSET Fitting(alive \cup nodes[n].refs, nodes[n].sections)

\* The submitted references laid over the stored configuration, whose sections and model
\* stay.
Merged(n, refs) == [nodes[n] EXCEPT !.status = "active", !.refs = refs]

\* What is checked before the configuration is saved.
ToCheck(config) == config.refs \cup {config.model}

\* A draft has no model and fails.
LoadToUpdate(q, n) ==
    /\ request[q].step = "idle"
    /\ nodes[n].status \notin {"absent", "draft"}
    /\ \E refs \in Submissions(n) :
        LET config == Merged(n, refs) IN Begin(q, "update", n, config, ToCheck(config))
    /\ UNCHANGED <<nodes, models, alive, update, announcing, events, changes, failures, history>>

\* One of the checks that run in parallel, each a call to the service that owns the
\* resources; the first that fails ends the request.
Validate(q, part, valid) ==
    /\ request[q].step = "update"
    /\ part # {} /\ part \subseteq request[q].unchecked
    /\ IF valid
       THEN LET rest == request[q].unchecked \ part
            IN  Begin(q, IF rest = {} THEN "save" ELSE "update",
                      request[q].node, request[q].config, rest)
       ELSE End(q)
    /\ UNCHANGED <<nodes, models, alive, update, announcing, events, changes, failures, history>>

Unchecked(q, kind) == {d \in request[q].unchecked \cap Deps : Kind[d] = kind}

\* A service compares the number of the ids it was sent with that of the rows it has.
ToolsValid(ids) == ids \subseteq alive
BucketsValid(ids) == ids \subseteq alive
CollectionsValid(ids) == ids \subseteq alive

ValidateModel(q) ==
    LET m == request[q].config.model IN Validate(q, {m}, ModelFound(m))

ValidateTools(q) ==
    LET ids == Unchecked(q, "tool") IN Validate(q, ids, ToolsValid(ids))

ValidateBuckets(q) ==
    LET ids == Unchecked(q, "bucket") IN Validate(q, ids, BucketsValid(ids))

ValidateCollections(q) ==
    LET ids == Unchecked(q, "collection") IN Validate(q, ids, CollectionsValid(ids))

\* Mutant for NoResurrection: the row is saved without update_fields.
MutSaved(n, config) == [nodes EXCEPT ![n] = config]

\* Saving named fields of a row that is gone raises.
Saved(n, config) == IF nodes[n].status = "absent" THEN nodes ELSE [nodes EXCEPT ![n] = config]

Save(q) ==
    LET n == request[q].node
        config == request[q].config
    IN  /\ request[q].step = "save"
        /\ nodes' = Saved(n, config)
        /\ End(q)
        /\ late' = {x \in late : x[1] # n} \cup
                   {<<n, r>> : r \in {r \in config.refs \cup {config.model} : n \in Present /\ ~Exists(r)}}
        /\ outdated' = (outdated \ {n}) \cup
                       {k \in {n} \cap Present : config.sections # Sections(models[config.model])}
        /\ revived' = revived \ {n}
        /\ UNCHANGED <<models, alive, update, announcing, events, changes, failures, born, lost, crossed>>

\* What is remembered of nodes that are gone.
Forget(gone) ==
    /\ late' = {x \in late : x[1] \notin gone}
    /\ revived' = revived \ gone
    /\ outdated' = outdated \ gone
    /\ UNCHANGED <<born, lost, crossed>>

DeleteNode(n) ==
    /\ n \in Present
    /\ nodes' = [nodes EXCEPT ![n] = NoConfig]
    /\ Forget({n})
    /\ UNCHANGED <<models, alive, request, update, announcing, events, changes, failures>>

\* The cleanup of a project deletes its nodes.
SweepNodes ==
    /\ Present # {}
    /\ nodes' = [n \in Nodes |-> NoConfig]
    /\ Forget(Present)
    /\ UNCHANGED <<models, alive, request, update, announcing, events, changes, failures>>

-----------------------------------------------------------------------------
(* MS4, the dependency worker: one transaction per event.                  *)

\* Mutant for TypeOK: a status no node has.
MutModelDeleted(m) ==
    [n \in Nodes |-> IF nodes[n].model = m THEN [nodes[n] EXCEPT !.status = "deleted"] ELSE nodes[n]]

\* Every node of a deleted model becomes inactive.
ModelDeleted(m) ==
    [n \in Nodes |-> IF nodes[n].model = m THEN [nodes[n] EXCEPT !.status = "inactive"] ELSE nodes[n]]

\* The configuration is rebuilt on the new template, and the node active again.
CapabilitiesUpdated(m, caps) ==
    [n \in Nodes |->
        IF nodes[n].model = m
        THEN Migrated(nodes[n], m, caps)
        ELSE nodes[n]]

\* Only active and altered nodes are healed.
Healed(d) ==
    [n \in Nodes |-> IF Usable(n) /\ d \in nodes[n].refs
                     THEN [nodes[n] EXCEPT !.refs = @ \ {d}, !.status = "altered"]
                     ELSE nodes[n]]

\* Mutant for NoDangling: an altered node is not looked at.
MutToolDeleted(d) ==
    [n \in Nodes |-> IF nodes[n].status = "active" /\ d \in nodes[n].refs
                     THEN [nodes[n] EXCEPT !.refs = @ \ {d}, !.status = "altered"]
                     ELSE nodes[n]]

ToolDeleted(d) == Healed(d)
BucketDeleted(d) == Healed(d)
CollectionDeleted(d) == Healed(d)

Effect(e) ==
    CASE e.about \in Models /\ e.caps = Gone -> ModelDeleted(e.about)
      [] e.about \in Models /\ e.caps # Gone -> CapabilitiesUpdated(e.about, e.caps)
      [] e.about \in Deps /\ Kind[e.about] = "tool" -> ToolDeleted(e.about)
      [] e.about \in Deps /\ Kind[e.about] = "bucket" -> BucketDeleted(e.about)
      [] OTHER -> CollectionDeleted(e.about)

\* An exception rolls the transaction back and acknowledges the event; a crash before
\* the acknowledgement has it handled again.
HandleEvent ==
    LET e == Head(events) IN
    /\ events # <<>>
    /\ \/ /\ nodes' = Effect(e)
          /\ events' = Tail(events)
          /\ UNCHANGED <<failures, lost>>
       \/ /\ Failure
          /\ nodes' = Effect(e)
          /\ UNCHANGED <<events, lost>>
       \/ /\ Failure
          /\ lost' = lost \cup {e.about}
          /\ events' = Tail(events)
          /\ UNCHANGED nodes
    /\ revived' = revived \cup {n \in Nodes : nodes[n].status = "inactive" /\ nodes'[n].status = "active"}
    /\ UNCHANGED <<models, alive, request, update, announcing, changes, born, late, outdated, crossed>>

-----------------------------------------------------------------------------
Init ==
    /\ nodes = [n \in Nodes |-> NoConfig]
    /\ models \in [Models -> AIModel]
    /\ alive \in Starts
    /\ request = [q \in Requests |-> NoRequest]
    /\ update = [u \in Updates |-> NoUpdate]
    /\ announcing = {}
    /\ events = <<>>
    /\ changes = 0
    /\ failures = 0
    /\ born = alive \cup {m \in Models : ModelFound(m)}
    /\ lost = {} /\ late = {} /\ revived = {} /\ outdated = {} /\ crossed = {}

OwnerNext ==
    \/ \E m \in Models : DeleteModel(m)
    \/ \E m \in Models, caps \in Capabilities : CreateModel(m, caps)
    \/ \E d \in Deps :
        \/ CreateTool(d) \/ CreateBucket(d) \/ CreateKnowledge(d)
        \/ DeleteTool(d) \/ DeleteBucket(d) \/ DeleteCollection(d)
        \/ SweepBuckets(d) \/ SweepCollections(d)
    \/ AnnounceModel \/ AnnounceTool \/ AnnounceBucket \/ AnnounceCollection

UpdateNext(u) ==
    \/ \E m \in Models : ReadCapabilities(u, m)
    \/ LoadModel(u) \/ RefuseUpdate(u)
    \/ \E caps \in Capabilities : SaveModel(u, caps)

RequestNext(q) ==
    \/ \E n \in Nodes : LoadToConfigure(q, n) \/ LoadToUpdate(q, n)
    \/ \E m \in Models : ConfigureModel(q, m)
    \/ ValidateModel(q) \/ ValidateTools(q) \/ ValidateBuckets(q) \/ ValidateCollections(q)
    \/ Save(q)

Next ==
    \/ OwnerNext
    \/ \E u \in Updates : UpdateNext(u)
    \/ \E n \in Nodes : CreateDraft(n) \/ DeleteNode(n)
    \/ \E q \in Requests : RequestNext(q)
    \/ SweepNodes
    \/ HandleEvent

Spec == Init /\ [][Next]_vars

-----------------------------------------------------------------------------
(* Properties.                                                             *)

Announced(r) ==
    \/ \E e \in announcing : e.about = r
    \/ \E i \in 1..Len(events) : events[i].about = r

\* What a node that can be used refers to exists, or its deletion is still to be
\* handled, unless the event was lost, the reference was saved when the resource was gone
\* already (checked too early, or carried over by configure-model unchecked), or an
\* update of the model has made an inactive node active again with what it had.
NoDangling ==
    \A n \in Nodes : Usable(n) =>
        \A r \in nodes[n].refs \cup {nodes[n].model} :
            Exists(r) \/ Announced(r) \/ r \in lost \/ <<n, r>> \in late \/ n \in revived

\* The configuration has the sections its model's capabilities allow, or an update is
\* still to be handled, unless an update was lost, two updates of the model overlapped (the
\* later one saved before the earlier was announced, or it compared with capabilities from
\* before the earlier and announced nothing), or a request saved what it had read before the
\* update.
TemplateFits ==
    \A n \in Nodes : Usable(n) =>
        LET m == nodes[n].model IN
        \/ models[m] = Gone
        \/ nodes[n].sections = Sections(models[m])
        \/ Announced(m) \/ m \in lost \cup crossed \/ n \in outdated

\* A node that was deleted is not brought back by a request or an event that is late.
NoResurrection ==
    [][\A n \in Nodes : nodes[n].status = "absent" => nodes'[n].status \in {"absent", "draft"}]_vars
=============================================================================
