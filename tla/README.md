# Formal model of the Dolb platform

Dolb lets users build graphs of LLM agents and run them. It is fifteen services (MS1 to
MS15) that share RabbitMQ, Redis and per-service databases. This directory models what they
do to each other: the graph execution engine MS15 in the greatest detail, and around it the
authoring of graphs, the inference pipeline, the resources agents refer to, retrieval, the
local model runtime and the two deletion sagas. Model checking is done with TLC, proofs with
TLAPS.

    tlc -config engine_faults.cfg MCGraphEngine.tla     # one run
    tlapm GraphEngine_proofs.tla                        # the proofs of one module

`PROJECT.json` lists the components with their status, the runs, the mutants each property
was tried against, the lines of code each definition stands for, the findings, the hazards
and the theorems.

## 1. The system

| Part | State it keeps | Operations | Hard behaviour |
|---|---|---|---|
| MS1 accounts | users, user sagas and steps | login, profile, delete account; saga finaliser | saga event published before commit; confirmations |
| MS2 projects | projects, project sagas and steps | CRUD, delete project; user-cleanup initiator, saga finaliser | two sagas, one started by the other; lost confirmations |
| MS3 models | model catalogue | CRUD, capability and deletion events | events to MS4 |
| MS4 agent nodes | node status (draft, active, altered, inactive), configuration, `is_used_in_graph` | create, configure, update, delete; dependency worker | read-validate-save against deletion events |
| MS5 orchestration | job owner keys, tickets | submit, cancel; graph request worker | requests lost on exceptions; cancel before start |
| MS6 executor | running jobs | execute, cancel, publish result and memory update | cancel between result and memory update; redelivery |
| MS7 tools | tools, terminal containers | execute, terminal sessions | unsynchronised container table |
| MS8 streaming | cached results, websockets | replay, live delivery | replay overtaken by live messages |
| MS9 memory | buckets, messages | idempotent append, edits by hand, cleanup | duplicate updates |
| MS10 files | rows and blobs | upload, delete, cleanup | row and blob out of step |
| MS11/12 retrieval | collections, links, vectors | link, ingest, unlink, clear, delete | ingestion racing removal |
| MS13 runtime | local models, instances, routes | download, deploy, stop, health check | checker against deploy and stop |
| MS14 graphs | nodes, edges, buffers, rules, projections | authoring, export of the snapshot, claims of MS4 nodes | concurrent edge creation; derived projections |
| **MS15 engine** | Redis keys of a run, three queues | start, evaluate, propagate, close, cancel | everything in 2.1 |

How they interact: MS14 exports a graph; MS15 stores it as the run's blueprint, seeds the
start nodes and sends **eval checks** to itself. An evaluator that finds a rule ready sends
an inference request to MS5, which assembles the job for MS6; MS6 publishes a result, which
a propagator of MS15 turns into data and further eval checks, and which MS8 shows to a
client when the job is a user's own. What was said goes to MS9. Deleting a user or a project
is a saga over MS1, MS2 and the services that own resources; deleting a model, tool, bucket
or collection sends an event to MS4.

What makes each part correct, in a line: a graph run sends a rule only on data it waited
for, sends it once, and closes when its terminal rules have ended (MS15); edges classified
FORWARD never form a cycle, and derived projections follow the rules' outputs (MS14); a saga
ends exactly when every participant has cleaned up (MS1, MS2); an ACTIVE node refers to
nothing deleted (MS4); a job has one final result and its messages are appended once (MS5,
MS6, MS8, MS9); every vector belongs to a link and every completed link has its vectors
(MS11, MS12); every container and route is one of a recorded instance (MS13). Most of these
hold only up to named exceptions, which are what the models found out: an exception is a
history variable that records the one thing that can break the property.

## 2. Modules

| Modules | What they model |
|---|---|
| `GraphTopology`, `GraphRun`, `GraphEngine`, `MCGraphEngine` | MS15: the blueprint and the pure functions over it, what a run promises, the engine with its queues, four small graphs for TLC. |
| `GraphAuthoring`, `GraphSnapshot` | MS14: every edit of nodes, edges and rules; the snapshot, and the table of routes `ms14_client.rs` makes of it. |
| `NodeClaims` | MS14 and MS4: the links of graph nodes to agent nodes, claimed and released over HTTP. |
| `MCAuthoring` | One instance of the three above. |
| `InferenceChannels` | What the inference services share: tickets, results and turns on their way. |
| `InferenceJobs` | MS5 and MS6: a job from its request to its result, cancellations, crashes and redelivery. |
| `ResultStream`, `MemoryFeed` | MS8: cache, replay, live results. MS9: one bucket and the workers that append to it. |
| `Inference` | The three composed, with the fairness of the pipeline. |
| `ToolSessions`, `ModelRuntime` | MS7 with the agent loop of MS6: a terminal session. MS13: one local model. |
| `MCInference` | One instance of the four above. |
| `NodeDependencies`, `Retrieval`, `MCResources` | MS3, MS4, MS7, MS9, MS11: nodes and the resources they refer to. MS10, MS11, MS12: files, collections, ingestion. |
| `DeletionSaga`, `MCDeletionSaga` | MS1, MS2 and the participants: both sagas. |
| `*_proofs` | Section 4. |

### 2.1 The engine: `GraphTopology`, `GraphRun`, `GraphEngine`

`runStatus`, `snapshot`, `status`, `lock`, `attempts`, `filled`, `anchored` and `iteration`
are the keys `ms15:run:{id}:*` of one run (`redis_facade.rs`). An absent run status reads as
Seeding and an absent rule status as Idle, as in the code. A projection is a Redis list that
is only appended to and of which only the first packet is read, so the model keeps whether
it holds data. `evals` and `results` are `ms15_eval_queue` and `inference_result_queue` as
bags; RabbitMQ's order is not kept, because every delivery becomes a concurrent task.
`requests` is what MS5 and MS6 have not answered. `ev` and `pr` are the tasks: the program
counter and the local variables of `process_check` and `process_result`. `Contract` is the
refinement mapping to `GraphRun`.

**Atomicity.** Workers spawn one task per delivery, so any two calls of different tasks
interleave. One action is one Redis or RabbitMQ call with the local computation around it.
These calls are joined, because nothing can observe the difference: a status read with the
read of the immutable snapshot behind it; a push with the eval checks that follow (a check
published later is a check delivered later); the DELs of a rule's lock and attempts; the
KEYS and DEL of `cleanup_run` (a key written in between is a key written after it); the
status and the iteration of a rule in the completion scan, which only errs towards holding
the run open. The scan itself, fan-out, home-run resets and the retry are one step per call.
Fan-out and scan go in any order, since the code iterates over hash maps and unordered
routes.

**Environment.** `Events` are what may go wrong: an inference error, a lost request, a
duplicate answer, a crash of an evaluator or propagator between any two steps, an expired
lock, a cancellation. `Budget` bounds each of them and `MaxEvents` all of them together. A
crash redelivers the message; a handler that returns, with an error or without, acknowledges
it. `Pace` says how fast inference is. `"racing"` puts no bound on it and is what the safety
of `engine_faults` and the proofs allow. Two facts of the code need an assumption: the
evaluator marks a rule Dispatched, the trigger marks the run Running and the propagator
anchors a node only *after* publishing the message that leads to the next result. A result
faster than one Redis write finds the state unready, and the run may hang or close early.
`"paced"` says inference (seconds) takes longer than those writes (milliseconds). A loop needs
more: its resets let an eval check that is still queued from the last iteration refire a
body rule with the old data. `"drained"` says the queues are empty when a result arrives.
The completion scan, retries, redeliveries and resets interleave freely under all three.

### 2.2 Authoring: `GraphAuthoring`, `GraphSnapshot`, `NodeClaims`

`forward` and `feedback` are the edges, each of which stands for its pair of buffers;
`projections` have an owner, the node they read from and the rule that made them, if any. Each
view is one transaction on sqlite, so one action, but for the creation of an edge: the search
for a path back (`edge_service.py:73`) and the insertion are two steps of a *creator*, and two
creators may be between them at once. The exceptions of the properties:

- two creations of edges that overlap can close a forward cycle (`raced`);
- a PATCH of a rule's outputs does not keep the projections derived from them (`rewired`);
  an empty list with feed-forward ids clears all outputs;
- deleting a node is a cascade of the database that leaves prompts alone, whereas deleting
  an edge or a rule recurses through the service (`cut`);
- a node made a start node while it has a feedback projection gets no seed (`seedless`).

`RulesCanFire` joins the two programs: of every rule of an authored graph, as the snapshot
and the route table of MS15 give it, each input can be filled by a seed or by a rule that
can fire, except downstream of rules that were `rewired` or `cut`. The other two exceptions
do not touch it: a cycle of edges is not a cycle of rules, and who reads from a node without
a seed reads what a rule made.

In `NodeClaims` an operation of MS14 is a transaction that calls MS4 before it saves; a
rollback does not undo the calls, a failed release is ignored, and the deletion of an agent
asks for the removal of its links only when the agent is marked. The mark is a flag and does
not count: of two links, releasing one clears it (`shared`).

### 2.3 Inference: `InferenceChannels`, `InferenceJobs`, `ResultStream`, `MemoryFeed`

Each job has a queue of its own in every channel, since nothing compares the order of two
jobs. A task of MS6 takes a step from one `await` to the next; a cancellation takes effect
there. What the model found and the properties name: a request of a graph run that raises
in MS5 is acknowledged without a result, so the rule waits for ever; the owner key is set
after the job is published and never deleted at its end; cancelling a queued job is lost;
a cancellation between result and memory update reports success and then an error; a result
that breaks a stream carries no metadata and its turn is stored empty; an executor that dies
twice leaves the message unacknowledged until a restart; live results overtake a replay; a
client that was disconnected cannot get another ticket. The gateway reports an error in the
middle of a stream as a piece of JSON in a 200 answer, which the client of `ChatLRS` skips.

`MemoryFeed`: a turn is two messages, the first with the job's id as its unique key. That
keeps a repeated update out as long as the message is there; clearing the bucket or deleting
the message by hand takes the key away, and the message count is not lowered. A PUT or PATCH
of the bucket reads the row (`LoadBucket`) and later saves every field of it (`SaveBucket`),
without a transaction: a turn stored in between has its count written over by the one that
was read (`miscounted`), and a bucket deleted in between comes back. A bucket of type summary
is counted and never read back. `import_bucket_data` does nothing.

### 2.4 Tools and local models: `ToolSessions`, `ModelRuntime`

`ToolSessions`: the calls of a round run in threads, which look for the session's container
in a dictionary, then start one, then write the dictionary; Docker's names are unique until
a container is removed. A new session is forced by stopping the tracked container
(`ForceStop`), and a call that does so while another one looks for a container takes it away
from it: `muddled` records two calls at once in either of these phases. Only the agent loop
for LRS models is modelled (LangChain's is not in this repository). `ModelRuntime`: deployment, stop and the periodic checker work on the
same row, instances and routes without a lock. Both keep what a mishap leaves: a process
that dies with a container in its hands (`leaked`), a stop that meets a deployment or a
cycle of the checker (`raced`). The routes hold the URL of the health check while the
checker adds and removes the internal endpoint (`services.py:246-251`), so an instance that
turns unhealthy stays routed, and one may be routed twice: a route is a pair of an
instance and one of the two addresses.

### 2.5 Resources: `NodeDependencies`, `Retrieval`

`NodeDependencies`: a request to MS4 reads the node, asks the owners one call at a time and
saves a whole configuration; the dependency worker handles one event in one transaction.
The references of a node are the enabled ones. A node may keep what is gone when the event
is lost (an exception acknowledges it), when it was saved after the deletion (checked too
early, or carried over by configure-model, which checks nothing: `late`), or when an update
of its model makes an inactive node active again (`revived`). The cleanups of projects
announce none of the buckets and collections they delete.

An update of a model in MS3 runs in no transaction and takes a step for each of its parts: it
reads the capabilities to compare with (`ReadCapabilities`), loads the row (`LoadModel`), saves
it with capabilities built anew (`SaveModel`), and announces the change if they differ from
those it read first (`AnnounceModel`). Two updates of one model that overlap may announce in
the wrong order, or not at all (the second was compared with capabilities from before the
first); its nodes then keep sections that do not fit (`crossed`). A request of MS4 that saves
what it read before an update leaves its node `outdated`. An update that overlaps a deletion
saves the row again, which brings the model back.

`Retrieval`: no handler holds a lock, and each write is visible at once, so a request is one
step per write or remote call (upload: row and blob; unlink: load, chunks, row; clear: drop,
create, rows). The worker of MS12 takes one message at a time and is one step per remote call.
Chunks are a set of triples (link, collection, file): the code deletes them by file, whatever
link they came from. The store of a collection is there from its first ingestion on; a store
that is dropped turns an open handle stale. Found and named in the properties: chunks added
after the removal of their link began stay for good (`overtaken`); the removal of a link takes
the chunks of a newer link to the same file (`wiped`); a clear whose second step fails leaves
completed links without chunks (`halfway`); unlinking and clearing fail when nothing was
ingested yet; `link.save()` re-inserts a row that is gone; MS2 authorises uploads while the
project is being deleted, so that things are made after the cleanup (`after`); when a
confirmation is lost, the rows are gone and the saga never ends.

### 2.6 Deletion: `DeletionSaga`

`sagas` are the rows of both services, `asked` and `confirmed` the messages. The API writes
soft delete, saga, steps and event without a transaction, so it is one step per write; the
initiator that MS1's event starts writes in one transaction and publishes inside it. Named
in the properties: two initiations that overlap (`overlapped`) leave two sagas in progress,
after which the finaliser can end neither; a confirmation that comes before the steps are
all written, or for a saga that was rolled back, is counted for another (`mixed`) or dropped
(`missed`); the account is deleted when its project sagas have only been *started*; a
`project.save()` re-inserts a project that was deleted meanwhile.

## 3. What TLC checks

| Run | Instance and bounds | Checks |
|---|---|---|
| `engine_faults` | chain; 2 evaluators, 1 propagator; racing; any 2 of the 7 events | `TypeOK`, `SingleFlight`, `ContractSpec` |
| `engine_retries` | chain; 2+2 tasks; paced; 3 errors; fair | `RetryBudget`, `NothingStranded`, `RunCloses` |
| `engine_join` | AND join; 2+2 tasks; paced; 1 error | `NothingStranded`, `ClosedIsFinal` |
| `engine_loop` | loop bound to 3; drained; 3 errors; fair | `NothingStranded`, `LoopRunsToBound`, `RunCloses` |
| `claim_close` | fork, one branch terminal | `ClosedOverSettled` is violated |
| `claim_or` | OR join; fair | `OrRuleFires` is violated |
| `claim_cancel` | chain, one cancellation | `CanceledNeverCompletes` is violated |
| `claim_anchor` | loop bound to 1, racing | `HeldRuleFires` is violated |
| `authoring` | 3 nodes, 2 rules, 2 creators, 2 removals, 1 patch; 3 slots in 2 graphs, 2 agents, 2 tasks, 3 operations, 1 loss | `ForwardAcyclic`, `RoutesKept`, `InputsKept`, `StartIsRoot`, `RulesCanFire`, `LinkedIsUsed`, `NoDanglingLink`, types |
| `inference` | one job in motion, 2 tasks, 1 chunk, 1 fault, 1 cancellation; 2 turns, 2 consumers, 2 edits, 1 update of the bucket at a time; 3 calls, 3 containers, 3 rounds, 1 mishap; 2 instances, 1 trouble; fair | `VerdictsSettle`, `StreamInOrder`, `MemoryWhole`, `SessionKept`, `RuntimeRecorded`, `JobAnswered`, types |
| `resources` | 1 node, 2 models, a tool, a bucket and a collection, 1 request, 2 changes, 1 failure, 2 updates of models at once; 1 file, 1 collection, 2 links, 2 handlers, 2 jobs, 1 mishap | `NoDangling`, `TemplateFits`, `NoResurrection`, `NoStrayVectors`, `CompletedIsIndexed`, `IngestionInHand`, `ProjectSwept`, types |
| `deletion` | 1 project, 1 deleter, 2 sagas, 2 services that clean up projects, 2 that clean up users, 1 mishap | `OneSaga`, `GoneIsCleaned`, `NoSagaStranded`, `AccountTakesAll`, types |

**The engine.** Two tasks of a kind are enough for every race between two handlers: a third
is never the partner of a step that two do not already offer in these graphs, where at most
two checks or results matter at a time. One event is enough to start each failure scenario
and two let one failure fall into the handling of another; three errors are the retry bound.
A loop of three iterations has a first, a middle and a last home run. Deadlock is not
checked: a run that is over has nothing left to do, and `NothingStranded` says what must
hold there.

**Scenes.** `authoring`, `inference` and `resources` each check several protocols that do not
touch each other: the `MC*` module chooses one at the start and lets the others stand still,
which costs the sum of their states and not the product.

- `authoring`: in `edges` two creations overlap and there are no rules, in `rules` edges are
  created one at a time and rules are made, patched and deleted, in `claims` slots are linked
  to agents. Three nodes are the least with an edge, a path round it and a third party whose
  deletion cascades; two rules are the least of which one feeds the other; three slots in two
  graphs give an agent a second link in its own graph and one in another.
- `inference`: in `job` a job meets its faults, its cancellation and its client, in `memory`
  two finished jobs are remembered by two consumers while the bucket is edited by hand twice,
  an update being one edit that may stand between its read and its save, in `session` an agent uses its terminal,
  in `runtime` a model is deployed. The nine requests of `MCRequests` cover each way through
  the builders: provider, capability, memory, tools, files, streaming, an unusable node, and
  who asked. Three rounds and three calls reach the last round of the agent loop, a call that
  must start a container again and two calls at once. To stay small nobody cancels the one
  job that streams to a user; jobs that do not stream, and streams of graph runs, are
  cancelled.
- `resources`: in `nodes` one request and two changes of the resources put a change before,
  between and after the request's reads, with an event still to be handled, and models are
  created and deleted but not updated; in `models` two updates, of one model or of two, overlap
  each other, the request and the deletion of a model or a tool, and an update begins only if
  the bound on changes lets it be saved; in `retrieval`
  the second link is what makes a removal meet a newer link to the same file, and the second
  handler what makes two requests meet each other and the worker. To stay small, files are
  deleted one by one only when it is MS10 that is to clean up a project, and collections only
  when it is MS11.
- `deletion`: two sagas of a project are needed for an overlap and for a confirmation that
  belongs to the other one, and the API and the initiator are the two that start them.

One mishap (a crash, a lost message, a failed call) starts every failure the code handles;
several in a row are left to the proofs, which
hold for every bound. `mishaps`, `faults` and the other
counters only bound the environment. Symmetry is used for identifiers that nothing compares
but with equality, and only in runs without liveness. Deadlock is not checked in these runs
either, because their bounds let everything come to an end.

**Fairness.** `FairSpec` lets every task of the engine proceed, every message be taken and
every request be answered (weak fairness): tokio runs every spawned task, RabbitMQ delivers
what is not acknowledged, and MS6 answers jobs whether they succeed or not. Under
`InferenceFairness` a queued job is taken, a task comes to its next `await` (a model answers,
fails or runs into its timeout), and the stream forwards what it has. Nothing obliges a user
to cancel, to connect or to delete, a worker to crash or an error to happen.

**What the claims show.** The four `claim_*` runs state a sentence of the repository and TLC
refutes it; `findings` quotes the sentences. They are: the run closes over non-terminal rules
that were never run; an OR rule with a missing input blocks itself; a cancelled run can be
reported completed; a rule held at the anchor gate is dropped rather than delayed. The third
needs no key to be wiped: the propagator reads the status of the run, the cancellation is
written, and the propagator, having found the rules completed, writes Completed without looking
again. That two updates of a model overlap unannounced and that an update of a bucket writes
back an old count contradict no sentence of the repository, so they are exceptions of
`TemplateFits` and `MemoryWhole` and not claims.

`NothingStranded` and `RunCloses` exclude one more case, `Blocked`: a rule that others wait
for failed for good. Its successors stay Idle, and a run that waits for one of them never
closes; the engine never sets the run status Failed. A loop whose last rule is given up after
the others were completed is closed as completed, short of its bound: `LoopRunsToBound` leaves
out the runs in which a rule was given up.

## 4. What is proved

A theorem holds for all values of the constants that satisfy the named assumptions of its
modules: any graph, any number of tasks, links, jobs and requests, any bound on failures. The
assumptions are the types of the parameters, and a few facts that the code depends on:

- identifiers such as `NoRule` stand for nothing that exists;
- graphs of MS14, tasks of MS6 and rows of sagas are finitely many (the engine's own
  theorems do not even need that of its graph, nor do those of MS4 and MS10 to MS13);
- the list of services in MS2 (`views.py:103`) names each service once, or the second step of
  the same name would end the request that writes it; and the initiator waits for at least one
  service (`run_user_cleanup_initiator.py:29`), or no confirmation would ever come to end its
  project sagas (`SagaAssumption`).

| Theorem | Module | Says |
|---|---|---|
| `TypeCorrect`, `EngineImplementsContract`, `LineageInvariance` | `GraphEngine_proofs` | `TypeOK`; `ContractSpec`: the engine implements `GraphRun`; the invariant behind it |
| `OneFlight`, `ThreeAttempts` | `GraphEngineFlight_proofs` | `SingleFlight`, `RetryBudget` |
| `NothingLeftBehind`, `ClosedStaysClosed` | `GraphEngineFlight_proofs` | `NothingStranded`, `ClosedIsFinal` (an action property), for the graphs and runs named below |
| `LoopExact`, `LoopLeavesNothing`, `LoopStaysClosed` | `GraphEngine_proofs` | `LoopRunsToBound`, `NothingStranded`, `ClosedIsFinal`, for loops with one thread of control |
| `AuthoringTypeCorrect`, `ForwardStaysAcyclic`, `RoutesAreKept`, `InputsAreKept`, `StartsStayRoots` | `Authoring_proofs` | the types and the invariants of `GraphAuthoring` |
| `RulesAlwaysCanFire` | `Authoring_proofs` | `RulesCanFire`, across MS14 and MS15 |
| `ClaimsTypeCorrect`, `LinkedAlwaysUsed`, `DanglingLinksExcused` | `Authoring_proofs` | the types, `LinkedIsUsed`, `NoDanglingLink` |
| `ScenesAreAuthoring`, `ScenesTypeCorrect` | `Authoring_proofs` | the scenes of `authoring` are behaviours of `GraphAuthoring` and `NodeClaims`; `MCTypeOK` |
| `InferenceTypeCorrect`, `VerdictsAlwaysSettle`, `StreamsStayInOrder`, `MemoryStaysWhole` | `Inference_proofs` | the types, `VerdictsSettle`, `StreamInOrder`, `MemoryWhole` of the composition |
| `ToolTypeCorrect`, `SessionStaysKept` | `Inference_proofs` | the types, `SessionKept` |
| `RuntimeTypeCorrect`, `RuntimeAlwaysRecorded` | `ModelRuntime_proofs` | `RuntimeTypeOK`, `RuntimeRecorded` |
| `ScenesTypeCorrect`, `ScenesKeepPromises` | `ModelRuntime_proofs` | `MCTypeOK` and the five invariants of the run `inference`, from the states its scenes begin with |
| `DependencyTypeCorrect`, `DeletedStaysDeleted`, `DanglingExcused`, `TemplatesAlwaysFit` | `NodeDependencies_proofs` | `TypeOK`, `NoResurrection` (an action property), `NoDangling`, `TemplateFits` |
| `RetrievalTypeCorrect`, `IngestionAlwaysInHand`, `NoStrayAlways`, `CompletedAlwaysIndexed`, `ProjectAlwaysSwept` | `Retrieval_proofs` | the five invariants of `Retrieval` |
| `SagaTypeCorrect`, `OneSagaAlways`, `GoneIsCleanedAlways`, `NobodyStranded`, `AccountTakesEverything` | `DeletionSaga_proofs` | the five invariants of `DeletionSaga` |

Hardly any of the invariants is inductive. What each proof adds:

**Engine, types.** A handler indexes Redis with the rule it works for, and `NoRule` is in the
type of that local. `TypeInv` adds that no busy task is without a rule and that a task in a
reset has a controller (`EvWell`, `PrWell`). There is one lemma per group of actions;
`EvalChange` and `PropChange` say when moving one task preserves both.

**Engine, contract.** `GraphRun` speaks of successes, the engine of data, marks and locals. A
step is allowed by the contract because of something that happened many steps before it: an
evaluator publishes on inputs it read before the lock; a propagator closes the run on statuses
it read one by one. `Lineage` records that past. Filled projections and everything an
evaluator has read stem from seeds and successes; anchored nodes from a success of a forward
rule; requests, results and busy propagators belong to rules that were sent; the propagator's
targets are those of its rule; and the rules a completion scan has passed have ended. All of
these are monotone in the history (`AvailableGrows`, `EvGrows`, `PrGrows`), which is why
interleaved steps, cancellations and a wiped Redis cannot invalidate them. `ContractNext` then
maps `EvalPublish` to `Send`, the accepting `PropCheck` to `Accept`, `PropFail` to `Abandon`,
`PropFinish` to `Close`, the writes of the trigger and of the cancellation to `Reopen`, and
everything else to a stutter.

**Engine, attempts.** `SingleFlight` follows from the lock alone. `Calm` says that each permit
to execute a rule (an evaluator between lock and publish, a request, a result, a propagator
that has not recorded the outcome) is unique and under the rule's lock; `PropOrder` gives the
order of the propagator's steps, so that only `PropUnlock` gives up a permit with its lock.
`BudgetKept` ties `Undisturbed` to the steps that break it: duplicates, propagator crashes,
lost locks, cancellations and loop resets. That premise is needed: each of those really can
make two attempts at a rule, since neither the lock nor the status is checked against a stale
result. `RetryBudget` needs, in addition, that every request but the one under way has been
counted as a failure (`Tried`).

**Engine, nothing stranded.** An invariant that says something like liveness: whatever has to
happen still has somebody who will do it. `Awake` says, of each rule, that its lock, its
permit and its status agree (`Phase`); that what it wrote is written (`Written`); and that,
once all of its inputs are there, it is locked or a check is queued for it, is read by an
evaluator that has missed no input so far, or is about to be sent by a propagator (`Woken`).
And when every rule has ended, somebody is on the way to closing the run, with nothing in its
scan that speaks against it (`ClosedInTheEnd`). In a quiet run all these somebodies are gone;
`AllOver` then goes up the graph from the seeds. The theorem assumes

- `ForwardGraph`: no feedback edge (a loop resets locks and statuses, so that its rules are
  looked at again);
- `WholeRules`: each rule needs all of its inputs, by AND or because it has one. `claim_or`
  shows why;
- `Supplied`: each input is seeded, or written by a rule further up that is not terminal,
  which is what `RulesCanFire` says of authored graphs;
- a `Pace` other than racing: inference is not faster than one Redis write (2.1), or the run
  may hang;

and it speaks of runs in which inference errors are the only mishap (`OnlyErrors`), since a
lost request, a crash that keeps the lock or a cancellation leaves a rule for ever as it is.

**Engine, closed is final.** For the same graphs and runs, `Supplied` or not. A run is closed
over the terminal rules, so the others must not have anything left to do: `Gathered` says that each of them leads to a terminal rule, or that
none is terminal, and that a projection has one source (`claim_close` is the graph where this
fails). `Causal` is the invariant: by the time a rule is answered, every rule it reads from is
`Completed`, because it was dispatched on what they wrote and an answer takes longer than their
last write. From there `AllEnded` goes up from the terminal rules; who has ended holds no
permit, and without a permit nothing is published.

**Engine, loops.** A loop resets statuses, locks and the record of what was done, so nothing
above survives a home run. What does is that the loop has one thread of control, and `Thread`
says where it is: with the evaluators and inference as a check, a request or a result of one
rule (`Carry`); with a propagator that has not yet woken the next rule (`Judge`) or has, and
finishes its own (`Finishing`); on the way home through the resets (`Turn`); or it has ended,
because the bound is reached or a rule was given up (`LoopOver`). Whatever else is queued is a
check of a rule whose inputs are not there (`Stale`), which comes to nothing. From this follow
the bound and that a closed loop stays closed. `ThreadAlive` adds, place by place, that the
thread goes on: the rules before it are completed and anchored (`DoneBefore`), those after it
unlocked (`Ahead`), its inputs are filled (`Fed`), and a check that misses none of them, a
request or a result is on its way (`Live`). The theorems assume

- `OneThread`, for `LoopExact` and `LoopStaysClosed`: one controller, no terminal rule, and
  each success either comes home or wakes one rule, later in some rank. With a side branch,
  the completion scan of another rule can close the run after the homing rule is completed
  and before the reset, short of the bound;
- `OneRound`, for `LoopLeavesNothing`: besides, the thread comes by every rule, and a rule
  has its inputs, and its node an anchor, when the thread gets there;
- `Pace = "drained"`: inference answers when the handlers have nothing left to do, so that no
  reset meets a check sent before it;
- `OnlyErrors`, as above.

TLC evaluates that the graph of `engine_loop` has this shape (`LoopAssumption`), and checked
`Thread` and `ThreadAlive` there and on a loop of five rules in which a stale check goes round
with the thread (406993 states) before they were proved.

**Authoring.** `ForwardAcyclic` and `RulesCanFire` speak of paths, that is, of what repeating
a step comes to. The step is a set-valued function on finite sets, and `NatSetInduction` (an
induction over a set of naturals, from the well-founded subset ordering of the library) shows
that it has come to rest after as many rounds as there are nodes or rules; so the set that a
search reaches is the least closed one. `Searched` says that what a creator's search found is
still true while no other edge was made meanwhile. `Anchored` ties edges, outputs and
projections to nodes that are there and to the rules that made them; `SeedsConsumed` says that
an input nobody makes is a seed; and `Founded`, that among any rules there is one that consumes
nothing the others make: a rule consumes what is there when it is made, and no later edit of
outputs or edges gives older rules new inputs. So of the rules that could not fire, one would
have all of its inputs from seeds and from rules that can.

**Scenes.** `MCSpec` of `authoring` implements the two specifications it plays, so what is proved
of them holds in its scenes. That of `inference` does not: its scenes begin with jobs that
are done, and `memory` with turns on their way to the memory. `Started` describes these states
as well as the beginning of `InferenceSpec`; the invariants are shown to hold in all of them.

**Claims.** `LinkedIsUsed` looks at saved links; `ClaimHeld` says the same of the link that an
operation is about to save. `LinksExcused` follows the deletion of an agent through its steps.

**Jobs.** `VerdictsSettle` counts answers. `Counted` adds to them the tasks that will still
publish one (`Owes`): together they are at most the deliveries and the late interruptions.
With one delivery there is one task (`Single`), and while it has published nothing there is no
answer (`Unanswered`). What reaches the memory was settled when it was sent, and stays so while
it is queued, in a worker's hands and stored (`Fed`).

**Stream.** What was sent and what is still to be replayed make up the cache (`RowInOrder`), as
long as no live result overtook the replay; a ticket is used once, so nobody else replays.

**Memory.** `TurnsWhole` and `Alternates`: turns are stored as pairs, at the end, and taken away
as pairs, unless a single message was deleted by hand. A turn that is stored counts the messages
anew, so the count is right until messages are removed or a save writes back a count other than
the one it replaces: `miscounted` is set by these steps and by no other, and cleared by the next
turn and by the deletion of the bucket. The theorem holds for any number of updates at once.

**Sessions.** One container at most carries the session's name (`OneNamed`). Unless two calls
hunted for it at once, a call that looks for a container finds the session untracked, one that
stops it has the only one that runs, and commands run in the tracked one (`SessionCore`). The
first attempt at this proof failed at a forced stop that meets another call's search, a case the
bounds of the run do not reach; it is real, and `muddled` covers it.

**Deletion.** `OneSaga` needs `OneInv`: as long as no initiations overlapped, an initiation
that is under way is the only one and has no saga beside it, wherever it stands between its
check and its last write. `GoneIsCleaned` needs `CleanInv`: a confirmation in a queue is true
(the service has cleaned up), and so is a step marked completed, unless two sagas were mixed.
The types rest on `Addressed` (who writes a saga owns an existing one) and `Answerable`.
`NoSagaStranded` is of the kind of `NothingStranded`: `Served` says that the steps of a saga
are still being written by the one request that owns it (`WriterInv`), or that each pending
step has a question or a confirmation on its way, and `GoesOn` that this holds of one saga of
every project. `AccountTakesAll` needs `ListInv`, by which each project the initiator has listed
has a saga or is still to get one, and `AccountInv`, by which a service ticked off has cleaned up.

**Nodes.** `NoDangling` looks at active nodes, but a request that has checked a reference and
not yet saved it is as good as a node: `DanglingInv` says the same of what requests hold. For
a model it must be its *deletion* that is still to be handled and not just some event about
it, or an update that is handled later would seem to excuse it. `DraftsBare` and `SavesActive`
say which states of a node hold a configuration. For `TemplateFits` it is the *last* event about
a model that counts: it carries what the model has become (`FitsAt`), and whatever refers to a
model came after it (`BornInv`). A model that is not `crossed` has had at most one change
waiting to be announced at a time, and every save that changed it announced that change; this
is what makes the last event carry what the model has become, for any number of updates at once.

**Runtime.** Two halves, each under its own exception. While no stop has met a deployment or a
cycle of the checker (`raced`), a stop is at work alone (`Alone`), the endpoints a deployment
has read and the rows the checker has loaded are still recorded (`HoldsRecorded`), so are the
instances routed to (`RoutesRecorded`), and every recorded or held instance has its container
(`HasContainer`). While no container was left behind (`leaked`), each one is recorded or held
by the deployment (`Accounted`). `InStep` ties the steps of a process to its locals.

**Retrieval.** `Base` holds throughout: the types; whoever mentions a link (the row, a job, a
handler, the worker, a chunk) means the same file and collection (`Agree`); what is mentioned
was created (`Known`); a file has one link to a collection (`OneLink`), which exists
(`InCollection`). `HandInv` says that a pending link is queued, about to be published, in the
hands of the worker, or was left by a mishap. `StrayInv` says that chunks belong to links that
nobody is removing, which is stronger than that the link exists and is what survives the end of
a removal. `IndexInv` and `IndexedInv` say what a completed link and a worker about to complete
one can count on, across a clear in two steps. `SweepInv` says that after a confirmed cleanup
only rows and blobs that are new, left by a mishap or in the hands of a request are there, and
that every blob has a row or such a request. These five were checked by TLC on an instance of
`Retrieval` alone (4.2 million states) before they were proved, as `Lineage`, `Flight` and
`Retries` of the engine were on the chain and the loop.

**Only model-checked.** `RunCloses` and `JobAnswered` are liveness under fairness, which is out
of the prover's reach.
`NothingStranded` and `ClosedIsFinal` outside the hypotheses above are either false (the claims)
or not examined. The four `claim_*` properties are refuted, by a counterexample each.

## 5. Not modelled, and why

- Payloads, prompts, parameter values, the loop baseline, the clipped packet, names, buffers'
  contents, firing modes: data that no step of a protocol branches on.
- Time: the one-hour TTL of a run's keys, the 300 s of MS8's cache. The TTL of a lock is
  modelled, as an event.
- Single Redis or RabbitMQ calls of the engine that fail: a failed call ends the handler and
  its message is acknowledged, a crash without redelivery; what is left is a run that hangs,
  as with a lost request.
- HTTP, JWT and permission checks, the front end, settings, generated gRPC code, listings and
  other reads. MS2's `authorize` ignores the soft delete, which `Retrieval` uses.
- MS1: registration, login, profile. MS3: the construction of schemas. MS7: the catalogue and
  the tools that call outside services; `transfer_and_run_script`. MS9: export, import (which
  does nothing) and its project cleanup. MS11: the search.
- MS6: LangChain's chains and agents, the prompt builders, `custom_lrs_llm.py` but for the
  reading of its stream.
- MS8: several instances of the service, which would each fill the cache.
- MS13: the fetch of the blueprint before a deployment; a deployment of a second model.
- Concurrency that is taken to be impossible: transactions of sqlite are serial, a row lock
  locks a row. `get_graph_snapshot` reads several tables without a transaction; a snapshot of
  a graph that is edited meanwhile is not modelled. Nor is a message redelivered because the
  connection was lost while the task it was given to still runs, nor jobs that read a bucket
  before the turn of an earlier one was stored.
- An acknowledgement that fails. In MS6 `message.ack()` stands inside the `try` that turns any
  exception into an error result (`worker.py:65`), so one that raises after a success has an
  error published after it; `VerdictsSettle` does not count that error.
- Parameters of nodes: the dependency worker of MS4 copies its template only at the top level, so
  the parameters of one node reach the next ones that have none of their own
  (`run_dependency_update_worker.py:130-134`). No guard reads them.

## 6. What could come next

1. Proofs: `Gathered`, `Supplied` and `OneRound` of the engine from what `Authoring_proofs` knows
   of snapshots; loops with several threads of control, nested loops, and loops in graphs
   that have terminal rules.
2. One composition of `GraphEngine` with `InferenceJobs`, whose `from = "graph"` requests are
   what the `Infer*` actions of the engine stand for.
3. Snapshots of a graph that is being edited, and a second instance of MS8.
