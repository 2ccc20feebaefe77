--------------------------- MODULE InferenceJobs ---------------------------
(***************************************************************************)
(* One inference job from its request to its last result: the orchestrator *)
(* (MS5) that collects what the node refers to and queues the job, and the *)
(* executor (MS6) whose tasks build a chain, run it, publish results and   *)
(* the turn for the memory, and can be interrupted by a cancellation.      *)
(*                                                                         *)
(* The tasks of the executor share one thread: what one does between two   *)
(* awaits is one step.                                                     *)
(***************************************************************************)
EXTENDS MemoryFeed

CONSTANTS
    Requests,       \* the requests that may be made
    Tasks,          \* tasks of the executor
    NoTask,         \* no task
    MaxCancels      \* the bound on cancellations of one job in the hands of MS5

VARIABLES
    request,        \* what each job was asked to do
    phase,          \* how far MS5 is with it
    owner,          \* jobs whose owner key is set, which lets them be cancelled
    cancelling,     \* cancellations of a job that have read its key
    queue,          \* copies of the job on their way to MS6
    broadcasts,     \* cancellations on their way to MS6
    task,           \* what each task is doing
    registry,       \* RUNNING_JOBS: the task a cancellation of the job would interrupt
    stuck,          \* copies of a job whose task is gone and that were never acknowledged
    answers,        \* history: the final results MS6 published, or tried to
    deliveries,     \* history: how often MS6 was given the job
    late            \* history: interruptions of a task that had published its final result

jobVars == <<request, phase, owner, cancelling, queue, broadcasts, task, registry, stuck,
             answers, deliveries, late>>
executorVars == <<task, registry, stuck, answers, deliveries, late>>
restVars == <<request, cancelling, broadcasts, executorVars>>

Request == [from: {"user", "graph"}, node: {"usable", "draft"},
            model: {"google", "ollama", "lrs", "other", "none"},
            capabilities: SUBSET {"text", "image"}, files: SUBSET {"text", "image", "other"},
            wants: SUBSET {"tools", "memory", "rag"}, streaming: BOOLEAN]

ASSUME JobsAssumption ==
    /\ Requests \subseteq Request
    /\ NoTask \notin Tasks /\ IsFiniteSet(Tasks)
    /\ MaxCancels \in Nat

Phases == {"new", "checked", "collected", "ticketed", "queued", "done", "rejected", "abandoned"}
Task == [at: {"idle", "building", "working", "breaking", "answering", "remembering",
              "acking", "interrupted", "erring", "erred"},
         job: Jobs \cup {Nobody}, chunks: 0..MaxChunks]
Idle == [at |-> "idle", job |-> Nobody, chunks |-> 0]

JobsTypeOK ==
    /\ request \in [Jobs -> Request]
    /\ phase \in [Jobs -> Phases]
    /\ owner \subseteq Jobs
    /\ cancelling \in [Jobs -> 0..MaxCancels]
    /\ queue \in [Jobs -> Nat] /\ broadcasts \in [Jobs -> Nat] /\ stuck \in [Jobs -> Nat]
    /\ task \in [Tasks -> Task]
    /\ registry \in [Jobs -> Tasks \cup {NoTask}]
    /\ \A j \in Jobs : registry[j] # NoTask => task[registry[j]].job = j
    /\ answers \in [Jobs -> Seq({"success", "error"})]
    /\ deliveries \in [Jobs -> Nat] /\ late \in [Jobs -> Nat]

-----------------------------------------------------------------------------
(* MS5: a request becomes a job.                                           *)

Moves(j, from, to) == phase[j] = from /\ phase' = [phase EXCEPT ![j] = to]

\* MS3 knows the model, and the user may use it.
ModelKnown(r) == r.model # "none"

\* What keeps a node from being used.  For a graph run its status does not matter.
Refused(r) == (r.from = "user" /\ r.node = "draft") \/ ~ModelKnown(r)

\* A file the model cannot read; a kind of file nobody knows is let through.
Unsupported(r) == (r.files \cap {"text", "image"}) \ r.capabilities # {}

Accept(j) ==
    /\ Moves(j, "new", IF Refused(request[j]) \/ Unsupported(request[j]) THEN "rejected" ELSE "checked")
    /\ UNCHANGED <<channelVars, owner, queue, restVars>>

\* What the node wants is collected in parallel, and all of it must be there.
Collect(j) ==
    /\ "memory" \in request[j].wants => HistoryReadable
    /\ Moves(j, "checked", "collected")
    /\ UNCHANGED <<channelVars, owner, queue, restVars>>

\* A service does not answer, or what is asked for is gone.  The user is told; the request
\* of a graph run is acknowledged and forgotten.
CollectFails(j, from) ==
    /\ Moves(j, from, "rejected")
    /\ UNCHANGED <<channelVars, owner, queue, restVars>>

NodeFails(j) == CollectFails(j, "new")
FilesFail(j) == request[j].files # {} /\ CollectFails(j, "new")
ToolsFail(j) == "tools" \in request[j].wants /\ CollectFails(j, "checked")
MemoryFails(j) == "memory" \in request[j].wants /\ CollectFails(j, "checked")
ChunksFail(j) == "rag" \in request[j].wants /\ CollectFails(j, "checked")

GenerateTicket(j) ==
    /\ request[j].from = "user"
    /\ Moves(j, "collected", "ticketed")
    /\ tickets' = [tickets EXCEPT ![j] = "minted"]
    /\ UNCHANGED <<wire, lost, updates, faults, owner, queue, restVars>>

\* A graph run watches its job without a ticket.
ToPublish(j) == IF request[j].from = "user" THEN "ticketed" ELSE "collected"

\* A publication that failed is tried again, although the first may have arrived.
PublishJob(j) ==
    /\ Moves(j, ToPublish(j), "queued")
    /\ \/ queue' = [queue EXCEPT ![j] = @ + 1] /\ UNCHANGED faults
       \/ Fault /\ queue' = [queue EXCEPT ![j] = @ + 2]
    /\ UNCHANGED <<tickets, wire, lost, updates, owner, restVars>>

PublishJobFails(j) ==
    /\ Fault
    /\ Moves(j, ToPublish(j), "rejected")
    /\ UNCHANGED <<tickets, wire, lost, updates, owner, queue, restVars>>

\* Only now can a user's job be cancelled, and does the user get its ticket; the request of
\* a graph run is acknowledged.
Respond(j) ==
    /\ Moves(j, "queued", "done")
    /\ IF request[j].from = "user"
       THEN /\ owner' = owner \cup {j}
            /\ tickets' = [tickets EXCEPT ![j] = IF @ = "minted" THEN "issued" ELSE @]
       ELSE UNCHANGED <<owner, tickets>>
    /\ UNCHANGED <<wire, lost, updates, faults, queue, restVars>>

\* The process dies.  A user's request dies with it; a graph's is delivered again.
OrchestratorDies(j) ==
    /\ Fault
    /\ phase[j] \in {"checked", "collected", "ticketed", "queued"}
    /\ phase' = [phase EXCEPT ![j] = IF request[j].from = "user" THEN "abandoned" ELSE "new"]
    /\ UNCHANGED <<tickets, wire, lost, updates, owner, queue, restVars>>

-----------------------------------------------------------------------------
(* MS5: a cancellation.                                                    *)

ReadOwner(j) ==
    /\ j \in owner /\ cancelling[j] < MaxCancels
    /\ cancelling' = [cancelling EXCEPT ![j] = @ + 1]
    /\ UNCHANGED <<channelVars, request, phase, owner, queue, broadcasts, executorVars>>

\* The broadcast is out before the key goes: a second cancellation may have read it.
Broadcast(j) ==
    /\ cancelling[j] > 0
    /\ cancelling' = [cancelling EXCEPT ![j] = @ - 1]
    /\ \/ broadcasts' = [broadcasts EXCEPT ![j] = @ + 1] /\ owner' = owner \ {j} /\ UNCHANGED faults
       \/ Fault /\ broadcasts' = [broadcasts EXCEPT ![j] = @ + 2] /\ owner' = owner \ {j}
       \/ Fault /\ UNCHANGED <<broadcasts, owner>>
    /\ UNCHANGED <<tickets, wire, lost, updates, request, phase, queue, executorVars>>

-----------------------------------------------------------------------------
(* MS6: a task.                                                            *)

orchestratorVars == <<request, phase, owner, cancelling>>

Steps(t, from, to) == task[t].at = from /\ task' = [task EXCEPT ![t].at = to]

Deliver(t, j) ==
    /\ task[t] = Idle /\ queue[j] > 0
    /\ queue' = [queue EXCEPT ![j] = @ - 1]
    /\ task' = [task EXCEPT ![t] = [at |-> "building", job |-> j, chunks |-> 0]]
    /\ registry' = [registry EXCEPT ![j] = t]
    /\ deliveries' = [deliveries EXCEPT ![j] = @ + 1]
    /\ UNCHANGED <<channelVars, orchestratorVars, broadcasts, stuck, answers, late>>

\* Content that cannot be fetched becomes an error text in the prompt; only the model can
\* be impossible to build.
Unbuildable(r) == r.model \notin {"google", "ollama", "lrs"}

Assembled(t) == Steps(t, "building", "working") /\ ~Unbuildable(request[task[t].job])

\* A tool, too, whose definition is not what it should be.
BuildFails(t) == Steps(t, "building", "erring")

Build(t) ==
    /\ Assembled(t) \/ BuildFails(t)
    /\ UNCHANGED <<channelVars, orchestratorVars, queue, broadcasts, registry, stuck, answers, deliveries, late>>

Chain(r) == IF "tools" \notin r.wants THEN "simple" ELSE IF r.model = "lrs" THEN "lrs agent" ELSE "agent"

ModelAnswers(t) == Steps(t, "working", "answering")

\* A local model raises when the gateway has no instance to send the request to, when the
\* instance it chose is gone, or when that one fails.
ModelRaises(t) == Steps(t, "working", "erring")

Invoke(t) ==
    /\ ModelAnswers(t) \/ ModelRaises(t)
    /\ ~request[task[t].job].streaming
    /\ UNCHANGED <<channelVars, orchestratorVars, queue, broadcasts, registry, stuck, answers, deliveries, late>>

\* A publication that fails is logged and forgotten.
Sends(j, r) ==
    \/ wire' = [wire EXCEPT ![j] = Append(@, r)] /\ UNCHANGED <<lost, faults>>
    \/ Fault /\ lost' = lost \cup {j} /\ UNCHANGED wire

\* The agent for LRS models cannot stream at all.
Streams(r) == r.streaming /\ Chain(r) # "lrs agent"

Chunk(t) == [kind |-> "chunk", n |-> task[t].chunks + 1, graph |-> FALSE]

StreamChunk(t) ==
    LET j == task[t].job IN
    /\ task[t].at = "working" /\ Streams(request[j])
    /\ task[t].chunks < MaxChunks
    /\ task' = [task EXCEPT ![t].chunks = @ + 1]
    /\ Sends(j, Chunk(t))
    /\ UNCHANGED <<tickets, updates, orchestratorVars, queue, broadcasts, registry, stuck, answers, deliveries, late>>

StreamEnds(t) ==
    /\ task[t].at = "working" /\ request[task[t].job].streaming
    /\ \/ Streams(request[task[t].job]) /\ Steps(t, "working", "answering")
       \/ Steps(t, "working", "breaking")
    /\ UNCHANGED <<channelVars, orchestratorVars, queue, broadcasts, registry, stuck, answers, deliveries, late>>

Publishes(t, kind, graph) ==
    LET j == task[t].job IN
    /\ Sends(j, [kind |-> kind, n |-> 0, graph |-> graph])
    /\ answers' = [answers EXCEPT ![j] = Append(@, kind)]
    /\ UNCHANGED <<tickets, updates, orchestratorVars, queue, broadcasts, registry, stuck, deliveries, late>>

OfGraph(t) == request[task[t].job].from = "graph"

\* Mutant for VerdictsSettle: a broken stream goes on to publish what it has as the result.
MutBreak(t) == Steps(t, "breaking", "answering") /\ Publishes(t, "error", FALSE)

\* The error of a broken stream does not carry the metadata; the turn is remembered all the
\* same, with an empty answer.
Break(t) == Steps(t, "breaking", "remembering") /\ Publishes(t, "error", FALSE)

Answer(t) == Steps(t, "answering", "remembering") /\ Publishes(t, "success", OfGraph(t))

Remember(t) ==
    LET j == task[t].job IN
    /\ Steps(t, "remembering", "acking")
    /\ IF "memory" \in request[j].wants
       THEN \/ updates' = [updates EXCEPT ![j] = @ + 1] /\ UNCHANGED faults
            \/ Fault /\ UNCHANGED updates
       ELSE UNCHANGED <<updates, faults>>
    /\ UNCHANGED <<tickets, wire, lost, orchestratorVars, queue, broadcasts, registry, stuck, answers, deliveries, late>>

\* Mutant for MCTypeOK: the registry keeps the task of a finished job.
MutDeregister(j) == registry' = registry

\* Whichever task of the job is registered.
Deregister(j) == registry' = [registry EXCEPT ![j] = NoTask]

Ack(t) ==
    /\ task[t].at \in {"acking", "erred"}
    /\ task' = [task EXCEPT ![t] = Idle]
    /\ Deregister(task[t].job)
    /\ UNCHANGED <<channelVars, orchestratorVars, queue, broadcasts, stuck, answers, deliveries, late>>

\* The exception of an interruption reaches the task at its next await.
Interrupted(t) ==
    /\ Steps(t, "interrupted", "erring")
    /\ UNCHANGED <<channelVars, orchestratorVars, queue, broadcasts, registry, stuck, answers, deliveries, late>>

\* Mutant for JobAnswered: the error of a failed job is only logged.
MutErr(t) ==
    /\ Steps(t, "erring", "erred")
    /\ UNCHANGED <<channelVars, orchestratorVars, queue, broadcasts, registry, stuck, answers, deliveries, late>>
Err(t) == Steps(t, "erring", "erred") /\ Publishes(t, "error", OfGraph(t))

-----------------------------------------------------------------------------
(* MS6: cancellations and crashes.                                         *)

\* A task that is being interrupted already is not interrupted again; one that handles an
\* interruption or an error leaves its message unacknowledged.
OnCancellation(j) ==
    LET t == registry[j] IN
    /\ broadcasts[j] > 0
    /\ broadcasts' = [broadcasts EXCEPT ![j] = @ - 1]
    /\ IF t = NoTask \/ task[t].at = "interrupted"
       THEN UNCHANGED <<task, registry, stuck, late>>
       ELSE IF task[t].at \in {"erring", "erred"}
       THEN /\ task' = [task EXCEPT ![t] = Idle]
            /\ Deregister(j)
            /\ stuck' = [stuck EXCEPT ![j] = @ + 1]
            /\ UNCHANGED late
       ELSE /\ task' = [task EXCEPT ![t].at = "interrupted"]
            /\ late' = [late EXCEPT ![j] = @ + IF task[t].at \in {"remembering", "acking"} THEN 1 ELSE 0]
            /\ UNCHANGED <<registry, stuck>>
    /\ UNCHANGED <<channelVars, orchestratorVars, queue, answers, deliveries>>

\* What was not acknowledged is delivered again; cancellations are gone.
ExecutorDies ==
    /\ Fault
    /\ \E j \in Jobs : stuck[j] > 0 \/ \E t \in Tasks : task[t].job = j
    /\ queue' = [j \in Jobs |-> queue[j] + stuck[j] + Cardinality({t \in Tasks : task[t].job = j})]
    /\ task' = [t \in Tasks |-> Idle]
    /\ registry' = [j \in Jobs |-> NoTask]
    /\ stuck' = [j \in Jobs |-> 0]
    /\ broadcasts' = [j \in Jobs |-> 0]
    /\ UNCHANGED <<tickets, wire, lost, updates, orchestratorVars, answers, deliveries, late>>

-----------------------------------------------------------------------------
\* The jobs of over have been answered before.
JobsStart(over) ==
    /\ request \in [Jobs -> Requests]
    /\ phase = [j \in Jobs |-> IF j \in over THEN "done" ELSE "new"]
    /\ owner = {} /\ cancelling = [j \in Jobs |-> 0]
    /\ queue = [j \in Jobs |-> 0] /\ broadcasts = [j \in Jobs |-> 0]
    /\ task = [t \in Tasks |-> Idle]
    /\ registry = [j \in Jobs |-> NoTask] /\ stuck = [j \in Jobs |-> 0]
    /\ answers = [j \in Jobs |-> IF j \in over THEN <<"success">> ELSE <<>>]
    /\ deliveries = [j \in Jobs |-> IF j \in over THEN 1 ELSE 0]
    /\ late = [j \in Jobs |-> 0]

Orchestrate(j) ==
    \/ Accept(j) \/ NodeFails(j) \/ FilesFail(j)
    \/ Collect(j) \/ ToolsFail(j) \/ MemoryFails(j) \/ ChunksFail(j) \/ GenerateTicket(j)
    \/ PublishJob(j) \/ PublishJobFails(j) \/ Respond(j) \/ OrchestratorDies(j)

Cancel(j) == ReadOwner(j) \/ Broadcast(j) \/ OnCancellation(j)

Process(t) ==
    \/ Build(t) \/ Invoke(t) \/ StreamChunk(t) \/ StreamEnds(t) \/ Break(t) \/ Answer(t)
    \/ Remember(t) \/ Ack(t) \/ Interrupted(t) \/ Err(t)

JobsNext ==
    \/ \E j \in Jobs : Orchestrate(j) \/ Cancel(j) \/ \E t \in Tasks : Deliver(t, j)
    \/ \E t \in Tasks : Process(t)
    \/ ExecutorDies

-----------------------------------------------------------------------------
Answered(j) == answers[j] # <<>>
Succeeded(j) == \E i \in DOMAIN answers[j] : answers[j][i] = "success"

\* A job that MS6 is given once has one final result, and nothing but an error follows it:
\* one for each interruption that came after it (between the result and the memory, or the
\* acknowledgement).  A job that is given more often has at most one more each time.  A
\* turn is remembered only of a job that succeeded, except that a stream that broke is
\* remembered with an empty answer.
VerdictsSettle ==
    \A j \in Jobs :
        /\ Len(answers[j]) <= deliveries[j] + late[j]
        /\ deliveries[j] = 1 => \A i \in DOMAIN answers[j] : i > 1 => answers[j][i] = "error"
        /\ updates[j] > 0 \/ MessagesOf(j) # {} =>
               Succeeded(j) \/ (request[j].streaming /\ Answered(j))
=============================================================================
