--------------------------- MODULE Inference_proofs ---------------------------
(***************************************************************************)
(* Proofs about an inference and what it touches, for any jobs, tasks,     *)
(* consumers and calls: the verdicts of the jobs (MS5 and MS6), the stream *)
(* of their results (MS8), the memory of their turns (MS9), and the        *)
(* terminal sessions of their agents (MS7).                                *)
(***************************************************************************)
EXTENDS Inference, ToolSessions, FiniteSetTheorems, SequenceTheorems, TLAPS

-----------------------------------------------------------------------------
(* Types of the jobs and of what they share.                               *)

\* A task that is not idle works for a job.
TaskWell == \A t \in Tasks : task[t].at # "idle" <=> task[t].job \in Jobs

JobsRows ==
    /\ task \in [Tasks -> Task]
    /\ registry \in [Jobs -> Tasks \cup {NoTask}]
    /\ \A j \in Jobs : registry[j] # NoTask => task[registry[j]].job = j
    /\ TaskWell

JobsCounts ==
    /\ queue \in [Jobs -> Nat] /\ broadcasts \in [Jobs -> Nat] /\ stuck \in [Jobs -> Nat]
    /\ deliveries \in [Jobs -> Nat] /\ late \in [Jobs -> Nat]

RequestRows ==
    /\ request \in [Jobs -> Request] /\ phase \in [Jobs -> Phases]
    /\ owner \subseteq Jobs /\ cancelling \in [Jobs -> 0..MaxCancels]

AnswerRows == answers \in [Jobs -> Seq({"success", "error"})]

JobsTyped == ChannelsTypeOK /\ JobsRows /\ JobsCounts /\ RequestRows /\ AnswerRows

LEMMA JobsTypedEnough == JobsTyped => ChannelsTypeOK /\ JobsTypeOK
  BY DEF JobsTyped, JobsRows, JobsCounts, RequestRows, AnswerRows, JobsTypeOK

LEMMA FaultType == ASSUME faults \in 0..MaxFaults, Fault \/ UNCHANGED faults PROVE faults' \in 0..MaxFaults
  BY ChannelsAssumption DEF Fault

LEMMA SendsType ==
    ASSUME ChannelsTypeOK, NEW j \in Jobs, NEW r \in Result, Sends(j, r)
    PROVE  wire' \in [Jobs -> Seq(Result)] /\ lost' \subseteq Jobs /\ faults' \in 0..MaxFaults
<1>1. wire' \in [Jobs -> Seq(Result)]
  <2>1. wire \in [Jobs -> Seq(Result)] /\ wire[j] \in Seq(Result)
    BY DEF ChannelsTypeOK
  <2>2. Append(wire[j], r) \in Seq(Result)
    BY <2>1, AppendProperties
  <2> QED BY <2>1, <2>2 DEF Sends
<1>2. lost' \subseteq Jobs /\ faults' \in 0..MaxFaults
  BY FaultType DEF ChannelsTypeOK, Sends
<1> QED BY <1>1, <1>2

\* One task goes on with its job, or gives it up.
LEMMA TaskGoesOn ==
    ASSUME JobsRows, NEW t \in Tasks, NEW row \in Task, task' = [task EXCEPT ![t] = row],
           row.job = task[t].job, row.at = "idle" <=> task[t].at = "idle", UNCHANGED registry
    PROVE  JobsRows'
<1>1. task' \in [Tasks -> Task] /\ \A u \in Tasks : task'[u] = IF u = t THEN row ELSE task[u]
  BY DEF JobsRows
<1> QED BY <1>1, JobsAssumption DEF JobsRows, TaskWell

LEMMA TaskIsFreed ==
    ASSUME JobsRows, NEW t \in Tasks, task' = [task EXCEPT ![t] = Idle], Deregister(task[t].job)
    PROVE  JobsRows'
<1>1. Idle \in Task /\ Idle.at = "idle" /\ Idle.job \notin Jobs
  BY ChannelsAssumption, MemoryAssumption DEF Idle, Task
<1>2. task' \in [Tasks -> Task] /\ \A u \in Tasks : task'[u] = IF u = t THEN Idle ELSE task[u]
  BY <1>1 DEF JobsRows
<1>3. registry' \in [Jobs -> Tasks \cup {NoTask}]
      /\ \A j \in Jobs : registry'[j] = IF j = task[t].job THEN NoTask ELSE registry[j]
  BY DEF JobsRows, Deregister
<1> HIDE DEF Idle
<1> QED BY <1>1, <1>2, <1>3, JobsAssumption DEF JobsRows, TaskWell

\* What a step of the executor may do to the row of one task.
TaskStep(t, from, to) ==
    \E row \in Task :
        /\ task' = [task EXCEPT ![t] = row]
        /\ task[t].at \in from /\ row.at \in to
        /\ row.job = task[t].job

Busy == {"building", "working", "breaking", "answering", "remembering", "acking", "interrupted", "erring", "erred"}

LEMMA StepsRow ==
    ASSUME JobsRows, NEW t \in Tasks, NEW from \in Busy, NEW to \in Busy, Steps(t, from, to)
    PROVE  TaskStep(t, {from}, {to})
<1> DEFINE row == [task[t] EXCEPT !.at = to]
<1>1. row \in Task /\ row.at = to /\ row.job = task[t].job
  BY DEF JobsRows, Task, Busy
<1>2. task' = [task EXCEPT ![t] = row] /\ task[t].at = from
  BY DEF Steps, JobsRows
<1> HIDE DEF row
<1> QED BY <1>1, <1>2 DEF TaskStep

LEMMA TaskStepRows ==
    ASSUME JobsRows, NEW t \in Tasks, NEW from \in SUBSET Busy, NEW to \in SUBSET Busy,
           TaskStep(t, from, to), UNCHANGED registry
    PROVE  JobsRows'
<1>1. PICK row \in Task : /\ task' = [task EXCEPT ![t] = row] /\ row.at \in to
                          /\ task[t].at \in from /\ row.job = task[t].job
  BY DEF TaskStep
<1>2. row.at # "idle" /\ task[t].at # "idle"
  BY <1>1 DEF Busy
<1> QED BY <1>1, <1>2, TaskGoesOn

LEMMA OrchestrateTyped == ASSUME JobsTyped, NEW j \in Jobs, Orchestrate(j) PROVE JobsTyped'
<1> DEFINE same == UNCHANGED restVars
<1>0. UNCHANGED <<request, cancelling, broadcasts, task, registry, stuck, answers, deliveries, late>>
  BY DEF Orchestrate, Accept, Collect, CollectFails, NodeFails, FilesFail, ToolsFail, MemoryFails, ChunksFail,
         GenerateTicket, PublishJob, PublishJobFails, Respond, OrchestratorDies, restVars, executorVars
<1>1. JobsRows' /\ AnswerRows'
  BY <1>0 DEF JobsTyped, JobsRows, TaskWell, AnswerRows
<1>2. phase' \in [Jobs -> Phases]
  BY DEF JobsTyped, RequestRows, Phases, Moves, ToPublish,
         Orchestrate, Accept, Collect, CollectFails, NodeFails, FilesFail, ToolsFail, MemoryFails, ChunksFail,
         GenerateTicket, PublishJob, PublishJobFails, Respond, OrchestratorDies
<1>3. owner' \subseteq Jobs /\ queue' \in [Jobs -> Nat]
  BY DEF JobsTyped, RequestRows, JobsCounts,
         Orchestrate, Accept, Collect, CollectFails, NodeFails, FilesFail, ToolsFail, MemoryFails, ChunksFail,
         GenerateTicket, PublishJob, PublishJobFails, Respond, OrchestratorDies
<1>4. RequestRows' /\ JobsCounts'
  BY <1>0, <1>2, <1>3 DEF JobsTyped, RequestRows, JobsCounts
<1>5. UNCHANGED <<wire, lost, updates>> /\ (Fault \/ UNCHANGED faults)
  BY DEF Orchestrate, Accept, Collect, CollectFails, NodeFails, FilesFail, ToolsFail, MemoryFails, ChunksFail,
         GenerateTicket, PublishJob, PublishJobFails, Respond, OrchestratorDies, channelVars
<1>6. tickets' \in [Jobs -> {"none", "minted", "issued", "gone"}]
  BY DEF JobsTyped, ChannelsTypeOK, channelVars,
         Orchestrate, Accept, Collect, CollectFails, NodeFails, FilesFail, ToolsFail, MemoryFails, ChunksFail,
         GenerateTicket, PublishJob, PublishJobFails, Respond, OrchestratorDies
<1>7. ChannelsTypeOK'
  BY <1>5, <1>6, FaultType DEF JobsTyped, ChannelsTypeOK
<1> QED BY <1>1, <1>4, <1>7 DEF JobsTyped

LEMMA CancelTyped == ASSUME JobsTyped, NEW j \in Jobs, ReadOwner(j) \/ Broadcast(j) PROVE JobsTyped'
<1>1. JobsRows' /\ AnswerRows'
  BY DEF JobsTyped, JobsRows, TaskWell, AnswerRows, ReadOwner, Broadcast, executorVars
<1>2. RequestRows'
  <2>1. cancelling' \in [Jobs -> 0..MaxCancels]
    BY JobsAssumption DEF JobsTyped, RequestRows, ReadOwner, Broadcast
  <2>2. owner' \subseteq Jobs /\ UNCHANGED <<request, phase>>
    BY DEF JobsTyped, RequestRows, ReadOwner, Broadcast
  <2> QED BY <2>1, <2>2 DEF JobsTyped, RequestRows
<1>3. JobsCounts'
  BY DEF JobsTyped, JobsCounts, ReadOwner, Broadcast, executorVars
<1>4. UNCHANGED <<tickets, wire, lost, updates>> /\ (Fault \/ UNCHANGED faults)
  BY DEF ReadOwner, Broadcast, channelVars
<1>5. ChannelsTypeOK'
  BY <1>4, FaultType DEF JobsTyped, ChannelsTypeOK
<1> QED BY <1>1, <1>2, <1>3, <1>5 DEF JobsTyped

LEMMA TaskSteps ==
    ASSUME JobsRows, NEW t \in Tasks
    PROVE  /\ Build(t) => TaskStep(t, {"building"}, {"working", "erring"})
           /\ Invoke(t) => TaskStep(t, {"working"}, {"answering", "erring"})
           /\ StreamChunk(t) => TaskStep(t, {"working"}, {"working"})
           /\ StreamEnds(t) => TaskStep(t, {"working"}, {"answering", "breaking"})
           /\ Break(t) => TaskStep(t, {"breaking"}, {"remembering"})
           /\ Answer(t) => TaskStep(t, {"answering"}, {"remembering"})
           /\ Remember(t) => TaskStep(t, {"remembering"}, {"acking"})
           /\ Interrupted(t) => TaskStep(t, {"interrupted"}, {"erring"})
           /\ Err(t) => TaskStep(t, {"erring"}, {"erred"})
<1>1. ASSUME NEW from, NEW to, NEW more, to \subseteq more, TaskStep(t, from, to) PROVE TaskStep(t, from, more)
  BY <1>1 DEF TaskStep
<1>2. Build(t) => TaskStep(t, {"building"}, {"working", "erring"})
  <2>1. Build(t) => Steps(t, "building", "working") \/ Steps(t, "building", "erring")
    BY DEF Build, Assembled, BuildFails
  <2> QED BY <1>1, <2>1, StepsRow DEF Busy
<1>3. Invoke(t) => TaskStep(t, {"working"}, {"answering", "erring"})
  <2>1. Invoke(t) => Steps(t, "working", "answering") \/ Steps(t, "working", "erring")
    BY DEF Invoke, ModelAnswers, ModelRaises
  <2> QED BY <1>1, <2>1, StepsRow DEF Busy
<1>4. StreamEnds(t) => TaskStep(t, {"working"}, {"answering", "breaking"})
  <2>1. StreamEnds(t) => Steps(t, "working", "answering") \/ Steps(t, "working", "breaking")
    BY DEF StreamEnds
  <2> QED BY <1>1, <2>1, StepsRow DEF Busy
<1>5. StreamChunk(t) => TaskStep(t, {"working"}, {"working"})
  <2> DEFINE row == [task[t] EXCEPT !.chunks = @ + 1]
  <2> SUFFICES ASSUME StreamChunk(t) PROVE TaskStep(t, {"working"}, {"working"})
    OBVIOUS
  <2>1. task[t] \in Task /\ task[t].chunks < MaxChunks /\ task[t].at = "working"
    BY DEF JobsRows, StreamChunk
  <2>2. task[t].chunks + 1 \in 0..MaxChunks
    BY <2>1, ChannelsAssumption DEF Task
  <2>3. row \in Task /\ row.at = "working" /\ row.job = task[t].job
    BY <2>1, <2>2 DEF Task
  <2>4. task' = [task EXCEPT ![t] = row]
    BY DEF StreamChunk, JobsRows
  <2> HIDE DEF row
  <2> QED BY <2>1, <2>3, <2>4 DEF TaskStep
<1>6. /\ Break(t) => TaskStep(t, {"breaking"}, {"remembering"})
      /\ Answer(t) => TaskStep(t, {"answering"}, {"remembering"})
      /\ Remember(t) => TaskStep(t, {"remembering"}, {"acking"})
      /\ Interrupted(t) => TaskStep(t, {"interrupted"}, {"erring"})
      /\ Err(t) => TaskStep(t, {"erring"}, {"erred"})
  BY StepsRow DEF Break, Answer, Remember, Interrupted, Err, Busy
<1> QED BY <1>2, <1>3, <1>4, <1>5, <1>6

\* The job of a task that is not idle.
LEMMA JobOf == ASSUME JobsRows, NEW t \in Tasks, task[t].at # "idle" PROVE task[t].job \in Jobs
  BY DEF JobsRows, TaskWell

LEMMA PublishesTyped ==
    ASSUME JobsTyped, NEW t \in Tasks, NEW kind \in {"success", "error"}, NEW graph \in BOOLEAN,
           task[t].at # "idle", Publishes(t, kind, graph), JobsRows'
    PROVE  JobsTyped'
<1> DEFINE j == task[t].job
           r == [kind |-> kind, n |-> 0, graph |-> graph]
<1>1. j \in Jobs /\ r \in Result
  BY JobOf DEF JobsTyped, Result
<1>2. /\ Sends(j, r) /\ answers' = [answers EXCEPT ![j] = Append(@, kind)]
      /\ UNCHANGED <<tickets, updates, orchestratorVars, queue, broadcasts, registry, stuck, deliveries, late>>
  BY DEF Publishes
<1>3. ChannelsTypeOK'
  <2> HIDE DEF j, r
  <2> QED BY <1>1, <1>2, SendsType DEF JobsTyped, ChannelsTypeOK
<1>4. AnswerRows'
  <2>1. answers \in [Jobs -> Seq({"success", "error"})] /\ answers[j] \in Seq({"success", "error"})
    BY <1>1 DEF JobsTyped, AnswerRows
  <2>2. Append(answers[j], kind) \in Seq({"success", "error"})
    <3> HIDE DEF j
    <3> QED BY <2>1, AppendProperties
  <2> HIDE DEF j
  <2> QED BY <1>1, <1>2, <2>1, <2>2 DEF AnswerRows
<1>5. JobsCounts' /\ RequestRows'
  BY <1>2 DEF JobsTyped, JobsCounts, RequestRows, orchestratorVars
<1> QED BY <1>3, <1>4, <1>5 DEF JobsTyped

LEMMA ProcessTyped == ASSUME JobsTyped, NEW t \in Tasks, Process(t) PROVE JobsTyped'
<1>0. JobsRows /\ task[t] \in Task
  BY DEF JobsTyped, JobsRows
<1>1. UNCHANGED <<channelVars, orchestratorVars, queue, broadcasts, stuck, answers, deliveries, late>>
      /\ JobsRows' => JobsTyped'
  BY DEF JobsTyped, ChannelsTypeOK, channelVars, orchestratorVars, JobsCounts, RequestRows, AnswerRows
<1>2. CASE Build(t)
  <2>1. JobsRows'
    BY <1>0, <1>2, TaskSteps, TaskStepRows DEF Build, Busy
  <2> QED BY <1>1, <1>2, <2>1 DEF Build
<1>3. CASE Invoke(t)
  <2>1. JobsRows'
    BY <1>0, <1>3, TaskSteps, TaskStepRows DEF Invoke, Busy
  <2> QED BY <1>1, <1>3, <2>1 DEF Invoke
<1>4. CASE StreamEnds(t)
  <2>1. JobsRows'
    BY <1>0, <1>4, TaskSteps, TaskStepRows DEF StreamEnds, Busy
  <2> QED BY <1>1, <1>4, <2>1 DEF StreamEnds
<1>5. CASE Interrupted(t)
  <2>1. JobsRows'
    BY <1>0, <1>5, TaskSteps, TaskStepRows DEF Interrupted, Busy
  <2> QED BY <1>1, <1>5, <2>1 DEF Interrupted
<1>6. CASE Ack(t)
  <2>1. JobsRows'
    BY <1>0, <1>6, TaskIsFreed DEF Ack
  <2> QED BY <1>1, <1>6, <2>1 DEF Ack
<1>7. CASE Break(t) \/ Answer(t) \/ Err(t)
  <2>1. JobsRows'
    BY <1>0, <1>7, TaskSteps, TaskStepRows DEF Break, Answer, Err, Publishes, Busy
  <2>2. task[t].at # "idle"
    BY <1>7 DEF Break, Answer, Err, Steps
  <2>3. FALSE \in BOOLEAN /\ OfGraph(t) \in BOOLEAN
    BY DEF OfGraph
  <2> QED BY <1>7, <2>1, <2>2, <2>3, PublishesTyped DEF Break, Answer, Err
<1>8. CASE StreamChunk(t)
  <2>1. JobsRows'
    BY <1>0, <1>8, TaskSteps, TaskStepRows DEF StreamChunk, Busy
  <2> DEFINE j == task[t].job
  <2>2. j \in Jobs /\ task[t].chunks < MaxChunks /\ Sends(j, Chunk(t))
        /\ UNCHANGED <<tickets, updates, orchestratorVars, queue, broadcasts, registry, stuck, answers, deliveries, late>>
    BY <1>0, <1>8, JobOf DEF StreamChunk
  <2>3. Chunk(t) \in Result
    <3>1. task[t].chunks + 1 \in 1..MaxChunks
      BY <1>0, <2>2, ChannelsAssumption DEF Task
    <3> QED BY <3>1 DEF Chunk, Result
  <2> HIDE DEF j
  <2>4. ChannelsTypeOK'
    BY <2>2, <2>3, SendsType DEF JobsTyped, ChannelsTypeOK
  <2> QED BY <2>1, <2>2, <2>4 DEF JobsTyped, JobsCounts, RequestRows, AnswerRows, orchestratorVars
<1>9. CASE Remember(t)
  <2>1. JobsRows'
    BY <1>0, <1>9, TaskSteps, TaskStepRows DEF Remember, Busy
  <2>2. /\ UNCHANGED <<tickets, wire, lost, orchestratorVars, queue, broadcasts, stuck, answers, deliveries, late>>
        /\ Fault \/ UNCHANGED faults
        /\ UNCHANGED updates \/ updates' = [updates EXCEPT ![task[t].job] = @ + 1]
    BY <1>9 DEF Remember
  <2>3. updates' \in [Jobs -> Nat]
    BY <2>2 DEF JobsTyped, ChannelsTypeOK
  <2>4. faults' \in 0..MaxFaults
    BY <2>2, FaultType DEF JobsTyped, ChannelsTypeOK
  <2>5. ChannelsTypeOK'
    BY <2>2, <2>3, <2>4 DEF JobsTyped, ChannelsTypeOK
  <2> QED BY <2>1, <2>2, <2>5 DEF JobsTyped, JobsCounts, RequestRows, AnswerRows, orchestratorVars
<1> QED BY <1>2, <1>3, <1>4, <1>5, <1>6, <1>7, <1>8, <1>9 DEF Process

LEMMA DeliverTyped == ASSUME JobsTyped, NEW t \in Tasks, NEW j \in Jobs, Deliver(t, j) PROVE JobsTyped'
<1> DEFINE row == [at |-> "building", job |-> j, chunks |-> 0]
<1>1. /\ task[t] = Idle /\ queue[j] > 0
      /\ task' = [task EXCEPT ![t] = row] /\ registry' = [registry EXCEPT ![j] = t]
      /\ queue' = [queue EXCEPT ![j] = @ - 1] /\ deliveries' = [deliveries EXCEPT ![j] = @ + 1]
      /\ UNCHANGED <<channelVars, orchestratorVars, broadcasts, stuck, answers, late>>
  BY DEF Deliver
<1>2. row \in Task /\ row.at = "building" /\ row.job = j
  BY ChannelsAssumption DEF Task
<1>3. task[t].job \notin Jobs
  BY <1>1, MemoryAssumption DEF Idle
<1> HIDE DEF row
<1>4. JobsRows'
  <2>1. task' \in [Tasks -> Task] /\ \A u \in Tasks : task'[u] = IF u = t THEN row ELSE task[u]
    BY <1>1, <1>2 DEF JobsTyped, JobsRows
  <2>2. registry' \in [Jobs -> Tasks \cup {NoTask}] /\ \A k \in Jobs : registry'[k] = IF k = j THEN t ELSE registry[k]
    BY <1>1 DEF JobsTyped, JobsRows
  <2>3. TaskWell'
    BY <1>2, <2>1 DEF JobsTyped, JobsRows, TaskWell
  <2>4. \A k \in Jobs : registry'[k] # NoTask => task'[registry'[k]].job = k
    BY <1>2, <1>3, <2>1, <2>2 DEF JobsTyped, JobsRows
  <2> QED BY <2>1, <2>2, <2>3, <2>4 DEF JobsRows
<1>5. JobsCounts'
  BY <1>1 DEF JobsTyped, JobsCounts
<1> QED BY <1>1, <1>4, <1>5 DEF JobsTyped, ChannelsTypeOK, channelVars, RequestRows, AnswerRows, orchestratorVars

LEMMA OnCancellationTyped == ASSUME JobsTyped, NEW j \in Jobs, OnCancellation(j) PROVE JobsTyped'
<1> DEFINE t == registry[j]
<1>1. /\ broadcasts[j] > 0 /\ broadcasts' = [broadcasts EXCEPT ![j] = @ - 1]
      /\ UNCHANGED <<channelVars, orchestratorVars, queue, answers, deliveries>>
  BY DEF OnCancellation
<1>2. late' \in [Jobs -> Nat] /\ stuck' \in [Jobs -> Nat] /\ broadcasts' \in [Jobs -> Nat]
  <2>1. late \in [Jobs -> Nat] /\ stuck \in [Jobs -> Nat] /\ broadcasts \in [Jobs -> Nat]
    BY DEF JobsTyped, JobsCounts
  <2> QED BY <1>1, <2>1 DEF OnCancellation
<1>3. JobsCounts' /\ ChannelsTypeOK' /\ RequestRows' /\ AnswerRows'
  BY <1>1, <1>2 DEF JobsTyped, JobsCounts, ChannelsTypeOK, channelVars, RequestRows, AnswerRows, orchestratorVars
<1>4. JobsRows'
  <2>0. JobsRows /\ (t # NoTask => t \in Tasks /\ task[t].job = j /\ task[t].at # "idle")
    BY DEF JobsTyped, JobsRows, TaskWell
  <2>1. CASE t = NoTask \/ task[t].at = "interrupted"
    <3>1. UNCHANGED <<task, registry>>
      BY <2>1 DEF OnCancellation
    <3> QED BY <2>0, <3>1 DEF JobsRows, TaskWell
  <2>2. CASE t # NoTask /\ task[t].at \in {"erring", "erred"}
    <3>1. task' = [task EXCEPT ![t] = Idle] /\ Deregister(task[t].job)
      BY <2>0, <2>2 DEF OnCancellation
    <3> HIDE DEF t
    <3> QED BY <2>0, <2>2, <3>1, TaskIsFreed
  <2>3. CASE t # NoTask /\ task[t].at \notin {"interrupted", "erring", "erred"}
    <3> DEFINE row == [task[t] EXCEPT !.at = "interrupted"]
    <3>1. task' = [task EXCEPT ![t] = row] /\ UNCHANGED registry
      BY <2>0, <2>3 DEF OnCancellation, JobsRows
    <3>2. row \in Task /\ row.job = task[t].job /\ row.at = "interrupted"
      BY <2>0, <2>3 DEF JobsRows, Task
    <3> HIDE DEF row, t
    <3> QED BY <2>0, <2>3, <3>1, <3>2, TaskGoesOn
  <2> QED BY <2>1, <2>2, <2>3
<1> QED BY <1>3, <1>4 DEF JobsTyped

LEMMA ExecutorDiesTyped == ASSUME JobsTyped, ExecutorDies PROVE JobsTyped'
<1>1. /\ Fault
      /\ queue' = [j \in Jobs |-> queue[j] + stuck[j] + Cardinality({t \in Tasks : task[t].job = j})]
      /\ task' = [t \in Tasks |-> Idle] /\ registry' = [j \in Jobs |-> NoTask]
      /\ stuck' = [j \in Jobs |-> 0] /\ broadcasts' = [j \in Jobs |-> 0]
      /\ UNCHANGED <<tickets, wire, lost, updates, orchestratorVars, answers, deliveries, late>>
  BY DEF ExecutorDies
<1>2. Idle \in Task /\ Idle.at = "idle" /\ Idle.job \notin Jobs
  BY ChannelsAssumption, MemoryAssumption DEF Idle, Task
<1>3. ASSUME NEW j \in Jobs PROVE Cardinality({t \in Tasks : task[t].job = j}) \in Nat
  BY JobsAssumption, FS_Subset, FS_CardinalityType
<1>4. queue' \in [Jobs -> Nat]
  BY <1>1, <1>3 DEF JobsTyped, JobsCounts
<1>5. JobsRows'
  BY <1>1, <1>2 DEF JobsRows, TaskWell
<1>6. JobsCounts'
  BY <1>1, <1>4 DEF JobsTyped, JobsCounts
<1>7. ChannelsTypeOK'
  BY <1>1, FaultType DEF JobsTyped, ChannelsTypeOK
<1> QED BY <1>1, <1>5, <1>6, <1>7 DEF JobsTyped, RequestRows, AnswerRows, orchestratorVars

LEMMA JobsStepTyped == ASSUME JobsTyped, JobsNext PROVE JobsTyped'
  BY OrchestrateTyped, CancelTyped, OnCancellationTyped, DeliverTyped, ProcessTyped, ExecutorDiesTyped
  DEF JobsNext, Cancel

-----------------------------------------------------------------------------
(* Types of the stream of results.                                         *)

\* One connection is given a new row.
LEMMA ConnTyped ==
    ASSUME StreamTypeOK, NEW j \in Jobs, NEW row \in Connection, conn' = [conn EXCEPT ![j] = row]
    PROVE  conn' \in [Jobs -> Connection] /\ conn'[j] = row /\ \A k \in Jobs \ {j} : conn'[k] = conn[k]
  BY DEF StreamTypeOK

\* What the steps of the client do to the row of its connection.
AcceptedRow(c) == [c EXCEPT !.at = "accepting"]
RegisteredRow(c, s) == [c EXCEPT !.at = "replaying", !.todo = s]
ReplayedRow(c) == [c EXCEPT !.todo = Tail(c.todo), !.sent = Append(c.sent, Head(c.todo)), !.over = c.over \/ Final(Head(c.todo))]
DoneRow(c) == [c EXCEPT !.at = IF c.over THEN "closed" ELSE "live"]
ToldRow(c, r) == [c EXCEPT !.sent = Append(c.sent, r), !.at = IF Final(r) THEN "closed" ELSE c.at,
                           !.todo = IF Final(r) THEN <<>> ELSE c.todo]

LEMMA ConnRows ==
    ASSUME StreamTypeOK, NEW j \in Jobs
    PROVE  /\ Connect(j) => conn' = [conn EXCEPT ![j] = AcceptedRow(conn[j])]
           /\ Register(j) => conn' = [conn EXCEPT ![j] = RegisteredRow(conn[j], cache[j])]
           /\ ReplayOne(j) => conn' = [conn EXCEPT ![j] = ReplayedRow(conn[j])]
           /\ ReplayEnds(j) => conn' = [conn EXCEPT ![j] = DoneRow(conn[j])]
           /\ OnMessage(j) /\ Active(j) /\ ~Head(wire[j]).graph =>
                  conn' = [conn EXCEPT ![j] = ToldRow(conn[j], Head(wire[j]))]
<1>1. conn \in [Jobs -> Connection] /\ conn[j] \in Connection
  BY DEF StreamTypeOK
<1>2. Connect(j) => conn' = [conn EXCEPT ![j] = AcceptedRow(conn[j])]
  BY <1>1 DEF Connect, AcceptedRow
<1>3. Register(j) => conn' = [conn EXCEPT ![j] = RegisteredRow(conn[j], cache[j])]
  BY <1>1 DEF Register, RegisteredRow
<1>4. ReplayOne(j) => conn' = [conn EXCEPT ![j] = ReplayedRow(conn[j])]
  BY <1>1 DEF ReplayOne, ReplayedRow
<1>5. ReplayEnds(j) => conn' = [conn EXCEPT ![j] = DoneRow(conn[j])]
  BY <1>1 DEF ReplayEnds, DoneRow
<1>6. OnMessage(j) /\ Active(j) /\ ~Head(wire[j]).graph => conn' = [conn EXCEPT ![j] = ToldRow(conn[j], Head(wire[j]))]
  BY <1>1 DEF OnMessage, ToldRow
<1> QED BY <1>2, <1>3, <1>4, <1>5, <1>6

LEMMA UnwatchedTyped == Unwatched \in Connection /\ Departed \in Connection
<1>1. <<>> \in Seq(Result)
  BY EmptySeq
<1> QED BY <1>1 DEF Unwatched, Departed, Connection

LEMMA RowsTyped ==
    ASSUME NEW c \in Connection
    PROVE  /\ AcceptedRow(c) \in Connection /\ DoneRow(c) \in Connection
           /\ \A s \in Seq(Result) : RegisteredRow(c, s) \in Connection
           /\ c.todo # <<>> => ReplayedRow(c) \in Connection
           /\ \A r \in Result : ToldRow(c, r) \in Connection
<1>1. c.todo \in Seq(Result) /\ c.sent \in Seq(Result) /\ <<>> \in Seq(Result)
  BY EmptySeq DEF Connection
<1>2. AcceptedRow(c) \in Connection /\ DoneRow(c) \in Connection
  BY DEF AcceptedRow, DoneRow, Connection
<1>3. ASSUME NEW s \in Seq(Result) PROVE RegisteredRow(c, s) \in Connection
  BY DEF RegisteredRow, Connection
<1>4. ASSUME c.todo # <<>> PROVE ReplayedRow(c) \in Connection
  <2>1. Tail(c.todo) \in Seq(Result) /\ Head(c.todo) \in Result
    BY <1>1, <1>4, HeadTailProperties
  <2>2. Append(c.sent, Head(c.todo)) \in Seq(Result)
    BY <1>1, <2>1, AppendProperties
  <2>3. (c.over \/ Final(Head(c.todo))) \in BOOLEAN
    BY DEF Final
  <2> QED BY <2>1, <2>2, <2>3 DEF ReplayedRow, Connection
<1>5. ASSUME NEW r \in Result PROVE ToldRow(c, r) \in Connection
  <2>1. Append(c.sent, r) \in Seq(Result)
    BY <1>1, AppendProperties
  <2> QED BY <1>1, <2>1 DEF ToldRow, Connection
<1> QED BY <1>2, <1>3, <1>4, <1>5

LEMMA StreamStepTyped ==
    ASSUME ChannelsTypeOK, StreamTypeOK, StreamNext
    PROVE  ChannelsTypeOK' /\ StreamTypeOK'
<1>0. /\ cache \in [Jobs -> Seq(Result)] /\ conn \in [Jobs -> Connection] /\ overtaken \subseteq Jobs
      /\ wire \in [Jobs -> Seq(Result)] /\ tickets \in [Jobs -> {"none", "minted", "issued", "gone"}]
      /\ lost \subseteq Jobs /\ updates \in [Jobs -> Nat] /\ faults \in 0..MaxFaults
  BY DEF ChannelsTypeOK, StreamTypeOK
<1>1. ASSUME NEW j \in Jobs, Connect(j) \/ ExpireTicket(j) PROVE ChannelsTypeOK' /\ StreamTypeOK'
  <2>1. tickets' \in [Jobs -> {"none", "minted", "issued", "gone"}] /\ UNCHANGED <<wire, lost, updates, faults, cache, overtaken>>
    BY <1>0, <1>1 DEF Connect, ExpireTicket, streamVars
  <2>2. conn' \in [Jobs -> Connection]
    <3>1. CASE Connect(j)
      BY <1>0, <3>1, ConnRows, RowsTyped, ConnTyped
    <3>2. CASE ExpireTicket(j)
      BY <1>0, <3>2 DEF ExpireTicket, streamVars
    <3> QED BY <1>1, <3>1, <3>2
  <2> QED BY <1>0, <2>1, <2>2 DEF ChannelsTypeOK, StreamTypeOK
<1>2. ASSUME NEW j \in Jobs, Replay(j) \/ ClientLeaves(j) PROVE ChannelsTypeOK' /\ StreamTypeOK'
  <2>1. UNCHANGED <<channelVars, cache, overtaken>>
    BY <1>2 DEF Replay, Register, ReplayOne, ReplayEnds, ClientLeaves
  <2>2. conn[j] \in Connection /\ cache[j] \in Seq(Result)
    BY <1>0
  <2>3. conn' \in [Jobs -> Connection]
    <3>1. CASE Register(j)
      BY <2>2, <3>1, ConnRows, RowsTyped, ConnTyped
    <3>2. CASE ReplayOne(j)
      <4>1. conn[j].todo # <<>>
        BY <3>2 DEF ReplayOne
      <4> QED BY <2>2, <3>2, <4>1, ConnRows, RowsTyped, ConnTyped
    <3>3. CASE ReplayEnds(j)
      BY <2>2, <3>3, ConnRows, RowsTyped, ConnTyped
    <3>4. CASE ClientLeaves(j)
      BY <3>4, UnwatchedTyped, ConnTyped DEF ClientLeaves
    <3> QED BY <1>2, <3>1, <3>2, <3>3, <3>4 DEF Replay
  <2> QED BY <1>0, <2>1, <2>3 DEF ChannelsTypeOK, StreamTypeOK, channelVars
<1>3. ASSUME NEW j \in Jobs, OnMessage(j) PROVE ChannelsTypeOK' /\ StreamTypeOK'
  <2> DEFINE r == Head(wire[j])
  <2>1. wire[j] \in Seq(Result) /\ wire[j] # <<>>
    BY <1>0, <1>3 DEF OnMessage
  <2>2. r \in Result /\ Tail(wire[j]) \in Seq(Result)
    BY <2>1, HeadTailProperties
  <2>3. ChannelsTypeOK'
    <3>1. wire' = [wire EXCEPT ![j] = Tail(@)] /\ UNCHANGED <<tickets, lost, updates, faults>>
      BY <1>3 DEF OnMessage
    <3> QED BY <1>0, <2>2, <3>1 DEF ChannelsTypeOK
  <2>4. CASE r.graph
    BY <1>3, <2>3, <2>4 DEF OnMessage, streamVars, StreamTypeOK
  <2>5. CASE ~r.graph
    <3>1. /\ cache' = [cache EXCEPT ![j] = Append(@, r)]
          /\ overtaken' = overtaken \/ overtaken' = overtaken \cup {j}
          /\ ~Active(j) => conn' = conn
      BY <1>3, <2>5 DEF OnMessage
    <3>2. cache' \in [Jobs -> Seq(Result)] /\ overtaken' \subseteq Jobs
      <4>1. cache[j] \in Seq(Result)
        BY <1>0
      <4>2. Append(cache[j], r) \in Seq(Result)
        <5> HIDE DEF r
        <5> QED BY <2>2, <4>1, AppendProperties
      <4> HIDE DEF r
      <4> QED BY <1>0, <3>1, <4>2
    <3>3. conn' \in [Jobs -> Connection]
      <4>1. CASE Active(j)
        <5>1. conn[j] \in Connection /\ ToldRow(conn[j], r) \in Connection
          <6>1. conn[j] \in Connection
            BY <1>0
          <6> HIDE DEF r
          <6> QED BY <2>2, <6>1, RowsTyped
        <5>2. conn' = [conn EXCEPT ![j] = ToldRow(conn[j], r)]
          BY <1>3, <2>5, <4>1, ConnRows
        <5> HIDE DEF r
        <5> QED BY <5>1, <5>2, ConnTyped
      <4>2. CASE ~Active(j)
        BY <1>0, <3>1, <4>2
      <4> QED BY <4>1, <4>2
    <3> QED BY <2>3, <3>2, <3>3 DEF StreamTypeOK
  <2> QED BY <2>4, <2>5
<1>4. ASSUME StreamRestarts PROVE ChannelsTypeOK' /\ StreamTypeOK'
  <2>1. /\ Fault /\ UNCHANGED <<tickets, updates, cache, overtaken>>
        /\ lost' = lost \cup {j \in Jobs : wire[j] # <<>>} /\ wire' = [j \in Jobs |-> <<>>]
        /\ conn' = [j \in Jobs |-> IF conn[j].at = "accepting" \/ Active(j) THEN Departed ELSE conn[j]]
    BY <1>4 DEF StreamRestarts
  <2>2. wire' \in [Jobs -> Seq(Result)] /\ faults' \in 0..MaxFaults /\ lost' \subseteq Jobs
    BY <1>0, <2>1, FaultType, EmptySeq
  <2>3. conn' \in [Jobs -> Connection]
    BY <1>0, <2>1, UnwatchedTyped
  <2> QED BY <1>0, <2>1, <2>2, <2>3 DEF ChannelsTypeOK, StreamTypeOK
<1> QED BY <1>1, <1>2, <1>3, <1>4 DEF StreamNext

-----------------------------------------------------------------------------
(* Types of the memory.                                                    *)

\* A worker has an update in hand, or none.
ConsumerWell == \A c \in Consumers : consumer[c].at # "idle" <=> consumer[c].job \in Jobs

MemoryTyped == MemoryTypeOK /\ ConsumerWell

LEMMA TurnType ==
    ASSUME NEW j \in Jobs
    PROVE  /\ Turn(j) \in Seq(Message) /\ Len(Turn(j)) = 2
           /\ Turn(j)[1] = [job |-> j, role |-> "user", keyed |-> TRUE]
           /\ Turn(j)[2] = [job |-> j, role |-> "assistant", keyed |-> FALSE]
<1> DEFINE a == [job |-> j, role |-> "user", keyed |-> TRUE]
           b == [job |-> j, role |-> "assistant", keyed |-> FALSE]
<1>1. a \in Message /\ b \in Message
  BY DEF Message
<1>2. Turn(j) = <<a, b>>
  BY DEF Turn
<1> HIDE DEF a, b
<1>3. <<a, b>> \in Seq(Message) /\ Len(<<a, b>>) = 2 /\ <<a, b>>[1] = a /\ <<a, b>>[2] = b
  BY <1>1
<1> QED BY <1>2, <1>3 DEF a, b

\* The conversation without one of its messages.
LEMMA Removal ==
    ASSUME NEW s \in Seq(Message), NEW i \in 1..Len(s),
           NEW r, r = SubSeq(s, 1, i - 1) \o SubSeq(s, i + 1, Len(s))
    PROVE  /\ r \in Seq(Message) /\ Len(r) = Len(s) - 1
           /\ \A k \in 1..(Len(s) - 1) : k < i => r[k] = s[k]
           /\ \A k \in 1..(Len(s) - 1) : k >= i => r[k] = s[k + 1]
<1> DEFINE n == Len(s)
           a == SubSeq(s, 1, i - 1)
           b == SubSeq(s, i + 1, n)
<1>1. n \in Nat /\ i \in 1..n /\ \A k \in 1..n : s[k] \in Message
  BY LenProperties
<1> HIDE DEF n
<1>2. a \in Seq(Message) /\ Len(a) = i - 1 /\ \A k \in 1..(i-1) : a[k] = s[k]
  <2>1. \A k \in 1..(i-1) : s[k] \in Message
    BY <1>1
  <2>2. 1 \in Int /\ i - 1 \in Int
    BY <1>1
  <2>3. /\ SubSeq(s, 1, i-1) \in Seq(Message) /\ Len(SubSeq(s, 1, i-1)) = IF 1 <= i-1 THEN (i-1)-1+1 ELSE 0
        /\ \A k \in 1..((i-1)-1+1) : SubSeq(s, 1, i-1)[k] = s[1+k-1]
    BY <2>1, <2>2, SubSeqProperties
  <2> QED BY <1>1, <2>3
<1>3. b \in Seq(Message) /\ Len(b) = n - i /\ \A k \in 1..(n-i) : b[k] = s[k+i]
  <2>1. \A k \in (i+1)..n : s[k] \in Message
    BY <1>1
  <2>2. i+1 \in Int /\ n \in Int
    BY <1>1
  <2>3. /\ SubSeq(s, i+1, n) \in Seq(Message) /\ Len(SubSeq(s, i+1, n)) = IF i+1 <= n THEN n-(i+1)+1 ELSE 0
        /\ \A k \in 1..(n-(i+1)+1) : SubSeq(s, i+1, n)[k] = s[(i+1)+k-1]
    BY <2>1, <2>2, SubSeqProperties
  <2>4. ASSUME NEW k \in 1..(n-i) PROVE b[k] = s[k+i]
    <3>1. k \in 1..(n-(i+1)+1) /\ (i+1)+k-1 = k+i
      BY <1>1
    <3> QED BY <2>3, <3>1
  <2> QED BY <1>1, <2>3, <2>4
<1>4. r = a \o b
  BY DEF n
<1> HIDE DEF a, b
<1>5. /\ r \in Seq(Message) /\ Len(r) = n - 1
      /\ \A k \in 1..(n - 1) : k < i => r[k] = a[k]
      /\ \A k \in 1..(n - 1) : k >= i => r[k] = b[k - i + 1]
  <2>1. a \in Seq(Message) /\ b \in Seq(Message) /\ n \in Nat /\ i \in 1..n /\ Len(a) = i - 1 /\ Len(b) = n - i
    BY <1>1, <1>2, <1>3
  <2>2. /\ a \o b \in Seq(Message) /\ Len(a \o b) = Len(a) + Len(b)
        /\ \A k \in 1..Len(a) + Len(b) : (a \o b)[k] = IF k <= Len(a) THEN a[k] ELSE b[k - Len(a)]
    BY <2>1, ConcatProperties
  <2>3. Len(a) + Len(b) = n - 1
    BY <2>1
  <2>4. ASSUME NEW k \in 1..(n - 1), k < i PROVE r[k] = a[k]
    <3>1. k <= Len(a) /\ k \in 1..Len(a) + Len(b)
      BY <2>1, <2>3, <2>4
    <3> QED BY <1>4, <2>2, <3>1
  <2>5. ASSUME NEW k \in 1..(n - 1), k >= i PROVE r[k] = b[k - i + 1]
    <3>1. ~(k <= Len(a)) /\ k \in 1..Len(a) + Len(b) /\ k - Len(a) = k - i + 1
      BY <2>1, <2>3, <2>5
    <3> QED BY <1>4, <2>2, <3>1
  <2> QED BY <1>4, <2>2, <2>3, <2>4, <2>5
<1>6. ASSUME NEW k \in 1..(n - 1), k < i PROVE r[k] = s[k]
  <2>1. k \in 1..(i-1)
    BY <1>1, <1>6
  <2> QED BY <1>2, <1>5, <1>6, <2>1
<1>7. ASSUME NEW k \in 1..(n - 1), k >= i PROVE r[k] = s[k + 1]
  <2>1. k - i + 1 \in 1..(n - i) /\ (k - i + 1) + i = k + 1
    BY <1>1, <1>7
  <2>2. b[k - i + 1] = s[k + 1]
    BY <1>3, <2>1
  <2> QED BY <1>5, <1>7, <2>2
<1> QED BY <1>5, <1>6, <1>7 DEF n

LEMMA StoredSeq ==
    ASSUME MemoryTypeOK, NEW j \in Jobs
    PROVE  conversation \o Turn(j) \in Seq(Message) /\ Len(conversation \o Turn(j)) = Len(conversation) + 2
<1>1. conversation \in Seq(Message) /\ Turn(j) \in Seq(Message) /\ Len(Turn(j)) = 2
  BY TurnType DEF MemoryTypeOK
<1> DEFINE t == Turn(j)
<1>2. t \in Seq(Message) /\ Len(t) = 2
  BY <1>1
<1> HIDE DEF t
<1>3. conversation \o t \in Seq(Message) /\ Len(conversation \o t) = Len(conversation) + Len(t)
  BY <1>1, <1>2, ConcatProperties
<1> QED BY <1>2, <1>3 DEF t

LEMMA MemoryStepTyped ==
    ASSUME ChannelsTypeOK, MemoryTyped, MemoryNext
    PROVE  ChannelsTypeOK' /\ MemoryTyped'
<1>0. /\ bucket \in MemoryBucket /\ conversation \in Seq(Message) /\ edits \in 0..MaxEdits
      /\ consumer \in [Consumers -> [at: {"idle", "checked", "stored"}, job: Jobs \cup {Nobody}]]
      /\ editor \in [Editors -> Editing]
      /\ handled \subseteq Jobs /\ miscounted \in BOOLEAN /\ ConsumerWell
      /\ updates \in [Jobs -> Nat] /\ faults \in 0..MaxFaults
  BY DEF MemoryTyped, MemoryTypeOK, ChannelsTypeOK
<1>1. Free \in [at: {"idle", "checked", "stored"}, job: Jobs \cup {Nobody}] /\ Free.at = "idle" /\ Free.job \notin Jobs
  BY MemoryAssumption DEF Free
<1>2. UNCHANGED <<tickets, wire, lost>>
  BY DEF MemoryNext, ConsumerNext, TakeUpdate, StoreUpdate, StoreFails, AckUpdate, ConsumerDies,
         ClearBucket, DeleteBucket, DeleteMessage, EditorNext, LoadBucket, SaveBucket, channelVars
<1>3. ASSUME NEW c \in Consumers, ConsumerNext(c) PROVE ChannelsTypeOK' /\ MemoryTyped'
  <2>1. UNCHANGED <<editor, edits, handled>> /\ (Fault \/ UNCHANGED faults)
    BY <1>3 DEF ConsumerNext, TakeUpdate, StoreUpdate, StoreFails, AckUpdate, ConsumerDies, channelVars
  <2>2. faults' \in 0..MaxFaults
    BY <1>0, <2>1, FaultType
  <2>3. consumer[c].at # "idle" => consumer[c].job \in Jobs
    BY <1>0 DEF ConsumerWell
  <2>4. consumer[c] # Free => consumer[c].at # "idle" /\ consumer[c].job \in Jobs
    <3>1. consumer[c].at = "idle" => consumer[c].job = Nobody
      BY <1>0 DEF ConsumerWell
    <3>2. consumer[c] = [at |-> consumer[c].at, job |-> consumer[c].job]
      BY <1>0
    <3> QED BY <2>3, <3>1, <3>2 DEF Free
  <2>5. updates' \in [Jobs -> Nat]
    BY <1>0, <1>3, <2>4 DEF ConsumerNext, TakeUpdate, StoreUpdate, StoreFails, AckUpdate, ConsumerDies, channelVars
  <2>6. consumer' \in [Consumers -> [at: {"idle", "checked", "stored"}, job: Jobs \cup {Nobody}]] /\ ConsumerWell'
    <3>1. ASSUME NEW row \in [at: {"idle", "checked", "stored"}, job: Jobs \cup {Nobody}],
                 consumer' = [consumer EXCEPT ![c] = row], row.at # "idle" <=> row.job \in Jobs
          PROVE  consumer' \in [Consumers -> [at: {"idle", "checked", "stored"}, job: Jobs \cup {Nobody}]] /\ ConsumerWell'
      BY <1>0, <3>1 DEF ConsumerWell
    <3>2. ASSUME NEW j \in Jobs, TakeUpdate(c, j)
          PROVE  consumer' \in [Consumers -> [at: {"idle", "checked", "stored"}, job: Jobs \cup {Nobody}]] /\ ConsumerWell'
      <4> DEFINE row == [at |-> IF Stored(j) THEN "stored" ELSE "checked", job |-> j]
      <4>1. /\ row \in [at: {"idle", "checked", "stored"}, job: Jobs \cup {Nobody}]
            /\ row.at # "idle" /\ row.job = j /\ consumer' = [consumer EXCEPT ![c] = row]
        BY <3>2 DEF TakeUpdate
      <4> HIDE DEF row
      <4> QED BY <3>1, <4>1
    <3>3. CASE StoreUpdate(c) \/ StoreFails(c)
      <4> DEFINE row == [consumer[c] EXCEPT !.at = "stored"]
      <4>1. consumer[c].at = "checked" /\ consumer' = [consumer EXCEPT ![c] = row]
        BY <1>0, <3>3 DEF StoreUpdate, StoreFails
      <4>2. /\ row \in [at: {"idle", "checked", "stored"}, job: Jobs \cup {Nobody}]
            /\ row.at # "idle" /\ row.job \in Jobs
        BY <1>0, <2>3, <4>1
      <4> HIDE DEF row
      <4> QED BY <3>1, <4>1, <4>2
    <3>4. CASE AckUpdate(c) \/ ConsumerDies(c)
      <4>1. consumer' = [consumer EXCEPT ![c] = Free]
        BY <3>4 DEF AckUpdate, ConsumerDies
      <4> QED BY <1>1, <3>1, <4>1
    <3> QED BY <1>3, <3>2, <3>3, <3>4 DEF ConsumerNext
  <2>7. conversation' \in Seq(Message) /\ bucket' \in MemoryBucket /\ miscounted' \in BOOLEAN
    <3>1. CASE StoreUpdate(c) /\ bucket.open /\ ~Stored(consumer[c].job)
      <4> DEFINE s == conversation \o Turn(consumer[c].job)
      <4>1. conversation' = s /\ bucket' = [bucket EXCEPT !.count = Len(s)] /\ miscounted' = FALSE /\ consumer[c].at = "checked"
        BY <3>1 DEF StoreUpdate
      <4>2. s \in Seq(Message)
        BY <2>3, <4>1, StoredSeq DEF MemoryTyped
      <4>3. Len(s) \in Nat
        <5> HIDE DEF s
        <5> QED BY <4>2, LenProperties
      <4> HIDE DEF s
      <4> QED BY <1>0, <4>1, <4>2, <4>3 DEF MemoryBucket
    <3>2. CASE ~(StoreUpdate(c) /\ bucket.open /\ ~Stored(consumer[c].job))
      BY <1>0, <1>3, <3>2 DEF ConsumerNext, TakeUpdate, StoreUpdate, StoreFails, AckUpdate, ConsumerDies
    <3> QED BY <3>1, <3>2
  <2>8. ChannelsTypeOK'
    BY <1>2, <2>2, <2>5 DEF ChannelsTypeOK
  <2>9. editor' \in [Editors -> Editing] /\ edits' \in 0..MaxEdits /\ handled' \subseteq Jobs
    BY <1>0, <2>1
  <2> QED BY <2>6, <2>7, <2>8, <2>9 DEF MemoryTyped, MemoryTypeOK
<1>4. ASSUME ~(\E c \in Consumers : ConsumerNext(c)) PROVE ChannelsTypeOK' /\ MemoryTyped'
  <2>1. (Edit \/ UNCHANGED edits) /\ UNCHANGED <<channelVars, consumer>>
    BY <1>4 DEF MemoryNext, ClearBucket, DeleteBucket, DeleteMessage, EditorNext, LoadBucket, SaveBucket
  <2>2. edits' \in 0..MaxEdits
    BY <1>0, <2>1, MemoryAssumption DEF Edit
  <2>3. <<>> \in Seq(Message)
    BY EmptySeq
  <2>4. ASSUME NEW i \in DOMAIN conversation, DeleteMessage(i)
        PROVE  conversation' \in Seq(Message) /\ handled' \subseteq Jobs /\ bucket' = bucket /\ miscounted' = TRUE
    <3>1. conversation[i] \in Message
      BY <1>0, LenProperties
    <3>2. handled' \subseteq Jobs /\ bucket' = bucket /\ miscounted' = TRUE
      BY <1>0, <2>4, <3>1 DEF DeleteMessage, Message
    <3>3. conversation' = SubSeq(conversation, 1, i - 1) \o SubSeq(conversation, i + 1, Len(conversation))
      BY <2>4 DEF DeleteMessage
    <3>4. conversation' \in Seq(Message)
      <4>1. i \in 1..Len(conversation)
        BY <1>0, LenProperties
      <4> QED BY <1>0, <3>3, <4>1, Removal
    <3> QED BY <3>2, <3>4
  <2>5. ASSUME ClearBucket \/ DeleteBucket
        PROVE  conversation' \in Seq(Message) /\ handled' \subseteq Jobs /\ bucket' \in MemoryBucket /\ miscounted' \in BOOLEAN
    <3>1. conversation' = <<>> /\ miscounted' \in BOOLEAN /\ handled' = handled
          /\ (bucket' = bucket \/ bucket' = [bucket EXCEPT !.open = FALSE, !.count = 0])
      BY <2>5 DEF ClearBucket, DeleteBucket
    <3>2. bucket' \in MemoryBucket
      <4>1. [bucket EXCEPT !.open = FALSE, !.count = 0] \in MemoryBucket
        BY <1>0 DEF MemoryBucket
      <4> QED BY <1>0, <3>1, <4>1
    <3> QED BY <1>0, <2>3, <3>1, <3>2
  <2>6. ASSUME NEW e \in Editors, EditorNext(e)
        PROVE  /\ conversation' \in Seq(Message) /\ handled' \subseteq Jobs /\ bucket' \in MemoryBucket
               /\ miscounted' \in BOOLEAN /\ editor' \in [Editors -> Editing]
    <3>1. ASSUME NEW type \in {"window", "summary"}, LoadBucket(e, type)
          PROVE  editor' \in [Editors -> Editing] /\ UNCHANGED <<bucket, miscounted, conversation, handled>>
      BY <1>0, <3>1 DEF LoadBucket, MemoryBucket, Editing
    <3>2. ASSUME SaveBucket(e)
          PROVE  /\ bucket' \in MemoryBucket /\ editor' \in [Editors -> Editing]
                 /\ miscounted' \in BOOLEAN /\ UNCHANGED <<conversation, handled>>
      <4>1. Done \in Editing /\ editor[e] \in Editing
        BY <1>0 DEF Done, Editing
      <4>2. bucket' \in MemoryBucket
        BY <3>2, <4>1 DEF SaveBucket, MemoryBucket, Editing
      <4>3. editor' \in [Editors -> Editing]
        BY <1>0, <3>2, <4>1 DEF SaveBucket
      <4>4. miscounted' \in BOOLEAN /\ UNCHANGED <<conversation, handled>>
        BY <3>2 DEF SaveBucket
      <4> QED BY <4>2, <4>3, <4>4
    <3> QED BY <1>0, <2>6, <3>1, <3>2 DEF EditorNext
  <2>7. conversation' \in Seq(Message) /\ handled' \subseteq Jobs /\ bucket' \in MemoryBucket /\ miscounted' \in BOOLEAN
    BY <1>0, <1>4, <2>4, <2>5, <2>6 DEF MemoryNext
  <2>a. editor' \in [Editors -> Editing]
    <3>1. ClearBucket \/ DeleteBucket \/ (\E i \in DOMAIN conversation : DeleteMessage(i)) => UNCHANGED editor
      BY DEF ClearBucket, DeleteBucket, DeleteMessage
    <3> QED BY <1>0, <1>4, <2>6, <3>1 DEF MemoryNext
  <2>8. MemoryTyped'
    BY <1>0, <2>1, <2>2, <2>7, <2>a DEF MemoryTyped, MemoryTypeOK, ConsumerWell
  <2> QED BY <2>1, <2>8 DEF ChannelsTypeOK, channelVars
<1> QED BY <1>3, <1>4 DEF MemoryNext

InferenceTyped == JobsTyped /\ StreamTypeOK /\ MemoryTyped

LEMMA InferenceTypedEnough == InferenceTyped => InferenceTypeOK
  BY JobsTypedEnough DEF InferenceTyped, InferenceTypeOK, MemoryTyped

\* The jobs of over are done, and the turns of no others are on their way.
Started(over) ==
    /\ ChannelsInit /\ JobsStart(over) /\ StreamInit /\ MemoryInit
    /\ updates \in [Jobs -> Nat] /\ \A j \in Jobs : updates[j] > 0 => j \in over

LEMMA InferenceStarted == InferenceInit => Started({})
BY DEF InferenceInit, Started

LEMMA StartTyped == ASSUME NEW over, Started(over) PROVE InferenceTyped
<1> USE DEF Started
<1>1. Idle \in Task /\ Idle.at = "idle" /\ Idle.job \notin Jobs
  BY ChannelsAssumption, MemoryAssumption DEF Idle, Task
<1>2. <<>> \in Seq(Result) /\ <<>> \in Seq({"success", "error"}) /\ <<>> \in Seq(Message)
  BY EmptySeq
<1>3. ChannelsTypeOK
  BY <1>2, ChannelsAssumption DEF ChannelsInit, ChannelsTypeOK
<1>4. JobsRows
  BY <1>1 DEF JobsStart, JobsRows, TaskWell
<1>5. JobsCounts /\ AnswerRows
  <2>1. <<"success">> \in Seq({"success", "error"})
    OBVIOUS
  <2>2. JobsCounts
    BY DEF JobsStart, JobsCounts
  <2> QED BY <1>2, <2>1, <2>2 DEF JobsStart, AnswerRows
<1>6. RequestRows
  BY JobsAssumption DEF JobsStart, RequestRows, Phases
<1>7. StreamTypeOK
  BY <1>2, UnwatchedTyped DEF StreamInit, StreamTypeOK
<1>8. MemoryTyped
  <2>1. MemoryTypeOK
    <3>1. bucket \in MemoryBucket
      BY DEF MemoryInit, MemoryBucket
    <3>2. consumer \in [Consumers -> [at: {"idle", "checked", "stored"}, job: Jobs \cup {Nobody}]]
      BY DEF MemoryInit, Free
    <3>3. conversation \in Seq(Message) /\ edits \in 0..MaxEdits /\ handled \subseteq Jobs /\ miscounted \in BOOLEAN
      <4>1. conversation = <<>> /\ edits = 0 /\ handled = {} /\ miscounted = FALSE
        BY DEF MemoryInit
      <4>2. 0 \in 0..MaxEdits
        BY MemoryAssumption
      <4> QED BY <1>2, <4>1, <4>2
    <3>4. editor \in [Editors -> Editing]
      BY DEF MemoryInit, Done, Editing
    <3> QED BY <3>1, <3>2, <3>3, <3>4 DEF MemoryTypeOK
  <2>2. ConsumerWell
    BY MemoryAssumption DEF MemoryInit, ConsumerWell, Free
  <2> QED BY <2>1, <2>2 DEF MemoryTyped
<1> QED BY <1>3, <1>4, <1>5, <1>6, <1>7, <1>8 DEF InferenceTyped, JobsTyped

LEMMA InferenceStepTyped == ASSUME InferenceTyped, [InferenceNext]_inferenceVars PROVE InferenceTyped'
<1>1. CASE JobsNext /\ UNCHANGED <<streamVars, memoryVars>>
  <2>1. JobsTyped'
    BY <1>1, JobsStepTyped DEF InferenceTyped
  <2> QED BY <1>1, <2>1 DEF InferenceTyped, streamVars, memoryVars, StreamTypeOK, MemoryTyped, MemoryTypeOK, ConsumerWell
<1>2. CASE StreamNext /\ UNCHANGED <<jobVars, memoryVars>>
  <2>1. ChannelsTypeOK' /\ StreamTypeOK'
    BY <1>2, StreamStepTyped DEF InferenceTyped, JobsTyped
  <2>2. JobsRows' /\ JobsCounts' /\ RequestRows' /\ AnswerRows'
    BY <1>2 DEF InferenceTyped, JobsTyped, jobVars, JobsRows, TaskWell, JobsCounts, RequestRows, AnswerRows
  <2>3. MemoryTyped'
    BY <1>2 DEF InferenceTyped, memoryVars, MemoryTyped, MemoryTypeOK, ConsumerWell
  <2> QED BY <2>1, <2>2, <2>3 DEF InferenceTyped, JobsTyped
<1>3. CASE MemoryNext /\ UNCHANGED <<jobVars, streamVars>>
  <2>1. ChannelsTypeOK' /\ MemoryTyped'
    BY <1>3, MemoryStepTyped DEF InferenceTyped, JobsTyped
  <2>2. JobsRows' /\ JobsCounts' /\ RequestRows' /\ AnswerRows'
    BY <1>3 DEF InferenceTyped, JobsTyped, jobVars, JobsRows, TaskWell, JobsCounts, RequestRows, AnswerRows
  <2>3. StreamTypeOK'
    BY <1>3 DEF InferenceTyped, streamVars, StreamTypeOK
  <2> QED BY <2>1, <2>2, <2>3 DEF InferenceTyped, JobsTyped
<1>4. CASE UNCHANGED inferenceVars
  BY <1>4 DEF InferenceTyped, JobsTyped, inferenceVars, channelVars, jobVars, streamVars, memoryVars, ChannelsTypeOK,
     JobsRows, TaskWell, JobsCounts, RequestRows, AnswerRows, StreamTypeOK, MemoryTyped, MemoryTypeOK, ConsumerWell
<1> QED BY <1>1, <1>2, <1>3, <1>4 DEF InferenceNext

\* The jobs, their results and the memory keep their types.
THEOREM InferenceTypeCorrect == InferenceSpec => []InferenceTypeOK
<1>0. InferenceInit => InferenceTyped
  BY InferenceStarted, StartTyped
<1>1. InferenceTyped /\ [InferenceNext]_inferenceVars => InferenceTyped'
  BY InferenceStepTyped
<1>2. InferenceSpec => []InferenceTyped
  BY <1>0, <1>1, PTL DEF InferenceSpec
<1> QED BY <1>2, InferenceTypedEnough, PTL

-----------------------------------------------------------------------------
(* VerdictsSettle.                                                         *)

\* A task that will still publish a final result, if nothing stops it.
Owing == {"building", "working", "breaking", "answering", "interrupted", "erring"}
Owe(row, j) == row.job = j /\ row.at \in Owing
Owes(j) == {t \in Tasks : Owe(task[t], j)}

\* A task that has published nothing yet.
Early == {"building", "working", "breaking", "answering"}

Settled(j) == Succeeded(j) \/ (request[j].streaming /\ Answered(j))

Counted == \A j \in Jobs : Len(answers[j]) + Cardinality(Owes(j)) <= deliveries[j] + late[j]
Undelivered == \A j \in Jobs : deliveries[j] = 0 => answers[j] = <<>> /\ \A t \in Tasks : task[t].job # j
Single == \A j \in Jobs : deliveries[j] = 1 => \A t, u \in Tasks : task[t].job = j /\ task[u].job = j => t = u
Unanswered == \A j \in Jobs : deliveries[j] = 1 =>
                  \A t \in Tasks : task[t].job = j /\ task[t].at \in Early => answers[j] = <<>>
OneVerdict == \A j \in Jobs : deliveries[j] = 1 => \A i \in DOMAIN answers[j] : i > 1 => answers[j][i] = "error"
BreakingStreams == \A t \in Tasks : task[t].at = "breaking" => request[task[t].job].streaming
RememberedSettled == \A t \in Tasks : task[t].at = "remembering" => Settled(task[t].job)

VerdictCore == /\ Counted /\ Undelivered /\ Single /\ Unanswered /\ OneVerdict
               /\ BreakingStreams /\ RememberedSettled

\* What was sent to the memory was settled.
UpdatesSettled == \A j \in Jobs : updates[j] > 0 => Settled(j)
HandsSettled == \A c \in Consumers : consumer[c].at # "idle" => Settled(consumer[c].job)
MessagesSettled == \A j \in Jobs : MessagesOf(j) # {} => Settled(j)
Fed == UpdatesSettled /\ HandsSettled /\ MessagesSettled

LEMMA VerdictsFollow == ASSUME InferenceTyped, VerdictCore, Fed PROVE VerdictsSettle
<1>1. ASSUME NEW j \in Jobs PROVE Len(answers[j]) <= deliveries[j] + late[j]
  <2>1. Cardinality(Owes(j)) \in Nat
    BY JobsAssumption, FS_Subset, FS_CardinalityType DEF Owes
  <2>2. Len(answers[j]) \in Nat /\ deliveries[j] \in Nat /\ late[j] \in Nat
    BY LenProperties DEF InferenceTyped, JobsTyped, AnswerRows, JobsCounts
  <2> QED BY <2>1, <2>2 DEF VerdictCore, Counted
<1> QED BY <1>1 DEF VerdictsSettle, VerdictCore, OneVerdict, Fed, UpdatesSettled, MessagesSettled, Settled

\* What a step of one task does to the number of results it owes.
LEMMA OwesMoves ==
    ASSUME JobsRows, NEW t \in Tasks, NEW row \in Task, task' = [task EXCEPT ![t] = row], NEW j \in Jobs
    PROVE  /\ Cardinality(Owes(j)) \in Nat /\ Cardinality(Owes(j)') \in Nat
           /\ Owe(task[t], j) /\ ~Owe(row, j) => Cardinality(Owes(j)') = Cardinality(Owes(j)) - 1
           /\ ~Owe(task[t], j) /\ Owe(row, j) => Cardinality(Owes(j)') = Cardinality(Owes(j)) + 1
           /\ (Owe(task[t], j) <=> Owe(row, j)) => Cardinality(Owes(j)') = Cardinality(Owes(j))
<1>1. \A u \in Tasks : task'[u] = IF u = t THEN row ELSE task[u]
  BY DEF JobsRows
<1>2. Owes(j)' = {u \in Tasks : Owe(IF u = t THEN row ELSE task[u], j)}
  BY <1>1 DEF Owes, Owe
<1>3. IsFiniteSet(Owes(j)) /\ IsFiniteSet(Owes(j)') /\ Cardinality(Owes(j)) \in Nat /\ Cardinality(Owes(j)') \in Nat
  BY <1>2, JobsAssumption, FS_Subset, FS_CardinalityType DEF Owes
<1>4. ASSUME Owe(task[t], j), ~Owe(row, j) PROVE Cardinality(Owes(j)') = Cardinality(Owes(j)) - 1
  <2>1. t \in Owes(j) /\ Owes(j)' = Owes(j) \ {t}
    BY <1>2, <1>4 DEF Owes
  <2> QED BY <1>3, <2>1, FS_RemoveElement
<1>5. ASSUME ~Owe(task[t], j), Owe(row, j) PROVE Cardinality(Owes(j)') = Cardinality(Owes(j)) + 1
  <2>1. t \notin Owes(j) /\ Owes(j)' = Owes(j) \cup {t}
    BY <1>2, <1>5 DEF Owes
  <2> QED BY <1>3, <2>1, FS_AddElement
<1>6. ASSUME Owe(task[t], j) <=> Owe(row, j) PROVE Cardinality(Owes(j)') = Cardinality(Owes(j))
  <2>1. Owes(j)' = Owes(j)
    BY <1>2, <1>6 DEF Owes
  <2> QED BY <2>1
<1> QED BY <1>3, <1>4, <1>5, <1>6

LEMMA AnswerNumbers ==
    ASSUME JobsTyped, NEW j \in Jobs
    PROVE  /\ answers[j] \in Seq({"success", "error"}) /\ Len(answers[j]) \in Nat
           /\ DOMAIN answers[j] = 1..Len(answers[j])
           /\ deliveries[j] \in Nat /\ late[j] \in Nat
<1>1. answers[j] \in Seq({"success", "error"}) /\ deliveries[j] \in Nat /\ late[j] \in Nat
  BY DEF JobsTyped, AnswerRows, JobsCounts
<1> QED BY <1>1, LenProperties

\* Nothing of the tasks and the results changes.
LEMMA IdleVerdicts ==
    ASSUME VerdictCore, UNCHANGED <<task, answers, deliveries, late, request>>
    PROVE  VerdictCore'
  BY DEF VerdictCore, Counted, Undelivered, Single, Unanswered, OneVerdict, BreakingStreams, RememberedSettled,
         Owes, Owe, Settled, Succeeded, Answered

\* A task goes on, and publishes nothing.
LEMMA SilentVerdicts ==
    ASSUME JobsTyped, VerdictCore, NEW t \in Tasks, NEW row \in Task,
           task' = [task EXCEPT ![t] = row],
           row.job \in Jobs => row.job = task[t].job,
           row.job \in Jobs /\ row.at \in Owing => task[t].at \in Owing,
           row.job \in Jobs /\ row.at \in Early => task[t].at \in Early,
           row.at = "breaking" => request[row.job].streaming,
           row.at # "remembering",
           UNCHANGED <<answers, deliveries, late, request>>
    PROVE  VerdictCore'
<1>1. \A u \in Tasks : task'[u] = IF u = t THEN row ELSE task[u]
  BY DEF JobsTyped, JobsRows
<1>2. ASSUME NEW j \in Jobs PROVE Cardinality(Owes(j)') <= Cardinality(Owes(j)) /\ Cardinality(Owes(j)') \in Nat /\ Cardinality(Owes(j)) \in Nat
  <2>1. Owe(row, j) => Owe(task[t], j)
    BY DEF Owe
  <2>2. /\ Cardinality(Owes(j)) \in Nat /\ Cardinality(Owes(j)') \in Nat
        /\ Cardinality(Owes(j)') = Cardinality(Owes(j)) \/ Cardinality(Owes(j)') = Cardinality(Owes(j)) - 1
    BY <2>1, OwesMoves DEF JobsTyped
  <2> QED BY <2>2
<1>3. Counted'
  <2>1. ASSUME NEW j \in Jobs PROVE Len(answers[j]) + Cardinality(Owes(j)') <= deliveries[j] + late[j]
    <3>1. Len(answers[j]) + Cardinality(Owes(j)) <= deliveries[j] + late[j]
      BY DEF VerdictCore, Counted
    <3> QED BY <1>2, <3>1, AnswerNumbers
  <2> QED BY <2>1 DEF Counted
<1>4. Undelivered' /\ OneVerdict' /\ Single'
  BY <1>1 DEF VerdictCore, Undelivered, OneVerdict, Single
<1>5. Unanswered'
  BY <1>1 DEF VerdictCore, Unanswered
<1>6. BreakingStreams' /\ RememberedSettled'
  BY <1>1 DEF VerdictCore, BreakingStreams, RememberedSettled, Settled, Succeeded, Answered
<1> QED BY <1>3, <1>4, <1>5, <1>6 DEF VerdictCore

\* What is settled stays settled.
LEMMA SettledStays ==
    ASSUME JobsTyped, NEW j \in Jobs, NEW k \in Jobs, NEW kind \in {"success", "error"},
           answers' = [answers EXCEPT ![j] = Append(@, kind)], UNCHANGED request, Settled(k)
    PROVE  Settled(k)'
<1>1. CASE k # j
  <2>1. answers'[k] = answers[k]
    BY <1>1 DEF JobsTyped, AnswerRows
  <2> QED BY <2>1 DEF Settled, Succeeded, Answered
<1>2. CASE k = j
  <2> DEFINE s == answers[j]
  <2>1. answers'[j] = Append(s, kind) /\ s \in Seq({"success", "error"})
    BY DEF JobsTyped, AnswerRows
  <2> HIDE DEF s
  <2>2. /\ Append(s, kind) # <<>> /\ Append(s, kind) \in Seq({"success", "error"}) /\ Len(Append(s, kind)) = Len(s) + 1
        /\ \A i \in 1..Len(s) : Append(s, kind)[i] = s[i]
    BY <2>1, AppendProperties
  <2>3. DOMAIN s = 1..Len(s) /\ DOMAIN Append(s, kind) = 1..Len(Append(s, kind)) /\ Len(s) \in Nat
    BY <2>1, <2>2, LenProperties
  <2>4. ASSUME NEW i \in DOMAIN s, s[i] = "success" PROVE i \in DOMAIN Append(s, kind) /\ Append(s, kind)[i] = "success"
    BY <2>2, <2>3, <2>4
  <2>5. Succeeded(j) => Succeeded(j)'
    BY <2>1, <2>4 DEF Succeeded, s
  <2> QED BY <1>2, <2>1, <2>2, <2>5 DEF Settled, Answered
<1> QED BY <1>1, <1>2

\* A task publishes a final result.
LEMMA PublishedVerdicts ==
    ASSUME JobsTyped, VerdictCore, NEW t \in Tasks, NEW row \in Task, NEW kind \in {"success", "error"},
           task' = [task EXCEPT ![t] = row],
           task[t].job \in Jobs, row.job = task[t].job,
           task[t].at \in Owing, row.at \notin Owing,
           row.at = "remembering" => kind = "success" \/ request[row.job].streaming,
           kind = "success" => task[t].at \in Early,
           answers' = [answers EXCEPT ![task[t].job] = Append(@, kind)],
           UNCHANGED <<deliveries, late, request>>
    PROVE  VerdictCore'
<1> DEFINE j == task[t].job
           s == answers[j]
<1>1. \A u \in Tasks : task'[u] = IF u = t THEN row ELSE task[u]
  BY DEF JobsTyped, JobsRows
<1>2. j \in Jobs /\ answers'[j] = Append(s, kind) /\ s \in Seq({"success", "error"})
      /\ \A k \in Jobs \ {j} : answers'[k] = answers[k]
  BY DEF JobsTyped, AnswerRows
<1> HIDE DEF s
<1>3. /\ Append(s, kind) # <<>> /\ Append(s, kind) \in Seq({"success", "error"}) /\ Len(Append(s, kind)) = Len(s) + 1
      /\ \A i \in 1..Len(s) : Append(s, kind)[i] = s[i]
      /\ Append(s, kind)[Len(s) + 1] = kind
  BY <1>2, AppendProperties
<1>4. DOMAIN s = 1..Len(s) /\ DOMAIN Append(s, kind) = 1..Len(Append(s, kind)) /\ Len(s) \in Nat
  BY <1>2, <1>3, LenProperties
<1>5. Counted'
  <2>1. ASSUME NEW k \in Jobs PROVE Len(answers'[k]) + Cardinality(Owes(k)') <= deliveries[k] + late[k]
    <3>1. Len(answers[k]) + Cardinality(Owes(k)) <= deliveries[k] + late[k]
      BY DEF VerdictCore, Counted
    <3>2. CASE k = j
      <4>1. Cardinality(Owes(k)') = Cardinality(Owes(k)) - 1 /\ Cardinality(Owes(k)) \in Nat
        BY <3>2, OwesMoves DEF JobsTyped, Owe
      <4>2. Len(answers'[k]) = Len(s) + 1 /\ s = answers[k]
        BY <1>2, <1>3, <3>2 DEF s
      <4> QED BY <1>4, <3>1, <4>1, <4>2, AnswerNumbers
    <3>3. CASE k # j
      <4>1. Cardinality(Owes(k)') = Cardinality(Owes(k))
        BY <3>3, OwesMoves DEF JobsTyped, Owe
      <4> QED BY <1>2, <3>1, <3>3, <4>1
    <3> QED BY <3>2, <3>3
  <2> QED BY <2>1 DEF Counted
<1>6. Undelivered' /\ Single'
  <2>1. deliveries[j] # 0
    BY <1>2 DEF VerdictCore, Undelivered
  <2>2. Undelivered'
    BY <1>1, <1>2, <2>1 DEF VerdictCore, Undelivered
  <2>3. Single'
    BY <1>1 DEF VerdictCore, Single
  <2> QED BY <2>2, <2>3
<1>7. Unanswered'
  <2> SUFFICES ASSUME NEW k \in Jobs, deliveries[k] = 1, NEW u \in Tasks, task'[u].job = k, task'[u].at \in Early
               PROVE  answers'[k] = <<>>
    BY DEF Unanswered
  <2>1. u # t
    BY <1>1 DEF Early, Owing
  <2>2. task[u].job = k /\ task[u].at \in Early /\ answers[k] = <<>>
    BY <1>1, <2>1 DEF VerdictCore, Unanswered
  <2>3. k # j
    BY <2>1, <2>2 DEF VerdictCore, Single
  <2> QED BY <1>2, <2>2, <2>3
<1>8. OneVerdict'
  <2> SUFFICES ASSUME NEW k \in Jobs, deliveries[k] = 1, NEW i \in DOMAIN answers'[k], i > 1
               PROVE  answers'[k][i] = "error"
    BY DEF OneVerdict
  <2>1. CASE k # j
    BY <1>2, <2>1 DEF VerdictCore, OneVerdict
  <2>2. CASE k = j /\ i \in 1..Len(s)
    <3>1. s[i] = "error"
      BY <1>4, <2>2 DEF VerdictCore, OneVerdict, s
    <3> QED BY <1>2, <1>3, <2>2, <3>1
  <2>3. CASE k = j /\ i \notin 1..Len(s)
    <3>1. i = Len(s) + 1 /\ s # <<>>
      <4>1. i \in 1..(Len(s) + 1)
        BY <1>2, <1>3, <1>4, <2>3
      <4>2. i = Len(s) + 1
        BY <1>4, <2>3, <4>1
      <4>3. Len(s) # 0
        BY <1>4, <4>2
      <4> QED BY <4>2, <4>3, EmptySeq
    <3>2. kind = "error"
      BY <2>3, <3>1 DEF VerdictCore, Unanswered, s
    <3> QED BY <1>2, <1>3, <2>3, <3>1, <3>2
  <2> QED BY <2>1, <2>2, <2>3
<1>9. BreakingStreams'
  BY <1>1 DEF VerdictCore, BreakingStreams, Owing
<1>10. RememberedSettled'
  <2> SUFFICES ASSUME NEW u \in Tasks, task'[u].at = "remembering", NEW k \in Jobs, k = task'[u].job PROVE Settled(k)'
    <3>1. \A u \in Tasks : task'[u].at = "remembering" => task'[u].job \in Jobs
      BY <1>1, <1>2, JobOf DEF JobsTyped
    <3> QED BY <3>1 DEF RememberedSettled, Settled, Succeeded, Answered
  <2>1. CASE u # t
    <3>1. Settled(k)
      BY <1>1, <2>1 DEF VerdictCore, RememberedSettled
    <3> QED BY <1>2, <3>1, SettledStays
  <2>2. CASE u = t
    <3>1. k = j /\ (kind = "success" \/ request[k].streaming)
      BY <1>1, <2>2
    <3>2. answers'[k] = Append(s, kind) /\ Len(s) + 1 \in DOMAIN Append(s, kind)
      BY <1>2, <1>3, <1>4, <3>1
    <3>3. Answered(k)' /\ (kind = "success" => Succeeded(k)')
      BY <1>3, <3>2 DEF Answered, Succeeded
    <3> QED BY <3>1, <3>3 DEF Settled
  <2> QED BY <2>1, <2>2
<1> QED BY <1>5, <1>6, <1>7, <1>8, <1>9, <1>10 DEF VerdictCore

LEMMA RowOfStep ==
    ASSUME JobsRows, NEW t \in Tasks, NEW from, NEW to, TaskStep(t, from, to), "idle" \notin from
    PROVE  \E row \in Task : /\ task' = [task EXCEPT ![t] = row] /\ row.job = task[t].job /\ row.job \in Jobs
                             /\ task[t].at \in from /\ row.at \in to
<1>1. task[t].at # "idle"
  BY DEF TaskStep
<1>2. task[t].job \in Jobs
  BY <1>1, JobOf
<1> QED BY <1>2 DEF TaskStep

LEMMA ProcessVerdicts == ASSUME JobsTyped, VerdictCore, NEW t \in Tasks, Process(t) PROVE VerdictCore'
<1>0. JobsRows
  BY DEF JobsTyped
<1>1. ASSUME NEW row \in Task, task' = [task EXCEPT ![t] = row], row.job = task[t].job, row.job \in Jobs,
             row.at \in Owing => task[t].at \in Owing, row.at \in Early => task[t].at \in Early,
             row.at = "breaking" => request[row.job].streaming, row.at # "remembering",
             UNCHANGED <<answers, deliveries, late, request>>
      PROVE  VerdictCore'
  BY <1>1, SilentVerdicts
<1>2. CASE Build(t)
  <2>1. TaskStep(t, {"building"}, {"working", "erring"}) /\ UNCHANGED <<answers, deliveries, late, request>>
    BY <1>0, <1>2, TaskSteps DEF Build, orchestratorVars
  <2>2. PICK row \in Task : /\ task' = [task EXCEPT ![t] = row] /\ row.job = task[t].job /\ row.job \in Jobs
                            /\ task[t].at \in {"building"} /\ row.at \in {"working", "erring"}
    BY <1>0, <2>1, RowOfStep
  <2> QED BY <1>1, <2>1, <2>2 DEF Owing, Early
<1>3. CASE Invoke(t)
  <2>1. TaskStep(t, {"working"}, {"answering", "erring"}) /\ UNCHANGED <<answers, deliveries, late, request>>
    BY <1>0, <1>3, TaskSteps DEF Invoke, orchestratorVars
  <2>2. PICK row \in Task : /\ task' = [task EXCEPT ![t] = row] /\ row.job = task[t].job /\ row.job \in Jobs
                            /\ task[t].at \in {"working"} /\ row.at \in {"answering", "erring"}
    BY <1>0, <2>1, RowOfStep
  <2> QED BY <1>1, <2>1, <2>2 DEF Owing, Early
<1>4. CASE StreamChunk(t)
  <2>1. TaskStep(t, {"working"}, {"working"}) /\ UNCHANGED <<answers, deliveries, late, request>>
    BY <1>0, <1>4, TaskSteps DEF StreamChunk, orchestratorVars
  <2>2. PICK row \in Task : /\ task' = [task EXCEPT ![t] = row] /\ row.job = task[t].job /\ row.job \in Jobs
                            /\ task[t].at \in {"working"} /\ row.at \in {"working"}
    BY <1>0, <2>1, RowOfStep
  <2> QED BY <1>1, <2>1, <2>2 DEF Owing, Early
<1>5. CASE StreamEnds(t)
  <2>1. TaskStep(t, {"working"}, {"answering", "breaking"}) /\ UNCHANGED <<answers, deliveries, late, request>>
        /\ request[task[t].job].streaming
    BY <1>0, <1>5, TaskSteps DEF StreamEnds, orchestratorVars
  <2>2. PICK row \in Task : /\ task' = [task EXCEPT ![t] = row] /\ row.job = task[t].job /\ row.job \in Jobs
                            /\ task[t].at \in {"working"} /\ row.at \in {"answering", "breaking"}
    BY <1>0, <2>1, RowOfStep
  <2> QED BY <1>1, <2>1, <2>2 DEF Owing, Early
<1>6. CASE Remember(t)
  <2>1. TaskStep(t, {"remembering"}, {"acking"}) /\ UNCHANGED <<answers, deliveries, late, request>>
    BY <1>0, <1>6, TaskSteps DEF Remember, orchestratorVars
  <2>2. PICK row \in Task : /\ task' = [task EXCEPT ![t] = row] /\ row.job = task[t].job /\ row.job \in Jobs
                            /\ task[t].at \in {"remembering"} /\ row.at \in {"acking"}
    BY <1>0, <2>1, RowOfStep
  <2> QED BY <1>1, <2>1, <2>2 DEF Owing, Early
<1>7. CASE Interrupted(t)
  <2>1. TaskStep(t, {"interrupted"}, {"erring"}) /\ UNCHANGED <<answers, deliveries, late, request>>
    BY <1>0, <1>7, TaskSteps DEF Interrupted, orchestratorVars
  <2>2. PICK row \in Task : /\ task' = [task EXCEPT ![t] = row] /\ row.job = task[t].job /\ row.job \in Jobs
                            /\ task[t].at \in {"interrupted"} /\ row.at \in {"erring"}
    BY <1>0, <2>1, RowOfStep
  <2> QED BY <1>1, <2>1, <2>2 DEF Owing, Early
<1>8. CASE Ack(t)
  <2>1. task' = [task EXCEPT ![t] = Idle] /\ UNCHANGED <<answers, deliveries, late, request>>
    BY <1>8 DEF Ack, orchestratorVars
  <2>2. Idle \in Task /\ Idle.at = "idle" /\ Idle.job \notin Jobs
    BY ChannelsAssumption, MemoryAssumption DEF Idle, Task
  <2> HIDE DEF Idle
  <2> QED BY <2>1, <2>2, SilentVerdicts
<1>9. CASE Break(t)
  <2>1. /\ TaskStep(t, {"breaking"}, {"remembering"}) /\ UNCHANGED <<deliveries, late, request>>
        /\ answers' = [answers EXCEPT ![task[t].job] = Append(@, "error")]
    BY <1>0, <1>9, TaskSteps DEF Break, Publishes, orchestratorVars
  <2>2. PICK row \in Task : /\ task' = [task EXCEPT ![t] = row] /\ row.job = task[t].job /\ row.job \in Jobs
                            /\ task[t].at \in {"breaking"} /\ row.at \in {"remembering"}
    BY <1>0, <2>1, RowOfStep
  <2>3. request[row.job].streaming
    BY <2>2 DEF VerdictCore, BreakingStreams
  <2> QED BY <2>1, <2>2, <2>3, PublishedVerdicts DEF Owing, Early
<1>10. CASE Answer(t)
  <2>1. /\ TaskStep(t, {"answering"}, {"remembering"}) /\ UNCHANGED <<deliveries, late, request>>
        /\ answers' = [answers EXCEPT ![task[t].job] = Append(@, "success")]
    BY <1>0, <1>10, TaskSteps DEF Answer, Publishes, orchestratorVars
  <2>2. PICK row \in Task : /\ task' = [task EXCEPT ![t] = row] /\ row.job = task[t].job /\ row.job \in Jobs
                            /\ task[t].at \in {"answering"} /\ row.at \in {"remembering"}
    BY <1>0, <2>1, RowOfStep
  <2> QED BY <2>1, <2>2, PublishedVerdicts DEF Owing, Early
<1>11. CASE Err(t)
  <2>1. /\ TaskStep(t, {"erring"}, {"erred"}) /\ UNCHANGED <<deliveries, late, request>>
        /\ answers' = [answers EXCEPT ![task[t].job] = Append(@, "error")]
    BY <1>0, <1>11, TaskSteps DEF Err, Publishes, orchestratorVars
  <2>2. PICK row \in Task : /\ task' = [task EXCEPT ![t] = row] /\ row.job = task[t].job /\ row.job \in Jobs
                            /\ task[t].at \in {"erring"} /\ row.at \in {"erred"}
    BY <1>0, <2>1, RowOfStep
  <2> QED BY <2>1, <2>2, PublishedVerdicts DEF Owing, Early
<1> QED BY <1>2, <1>3, <1>4, <1>5, <1>6, <1>7, <1>8, <1>9, <1>10, <1>11 DEF Process

LEMMA DeliverVerdicts == ASSUME JobsTyped, VerdictCore, NEW t \in Tasks, NEW j \in Jobs, Deliver(t, j) PROVE VerdictCore'
<1> DEFINE row == [at |-> "building", job |-> j, chunks |-> 0]
<1>1. /\ task[t] = Idle /\ task' = [task EXCEPT ![t] = row] /\ deliveries' = [deliveries EXCEPT ![j] = @ + 1]
      /\ UNCHANGED <<answers, late, request>>
  BY DEF Deliver, orchestratorVars
<1>2. row \in Task /\ row.at = "building" /\ row.job = j
  BY ChannelsAssumption DEF Task
<1>3. task[t].job \notin Jobs
  BY <1>1, MemoryAssumption DEF Idle
<1> HIDE DEF row
<1>4. /\ \A u \in Tasks : task'[u] = IF u = t THEN row ELSE task[u]
      /\ \A k \in Jobs : deliveries'[k] = IF k = j THEN deliveries[k] + 1 ELSE deliveries[k]
  BY <1>1 DEF JobsTyped, JobsRows, JobsCounts
<1>5. Counted'
  <2>1. ASSUME NEW k \in Jobs PROVE Len(answers[k]) + Cardinality(Owes(k)') <= deliveries'[k] + late[k]
    <3>1. Len(answers[k]) + Cardinality(Owes(k)) <= deliveries[k] + late[k]
      BY DEF VerdictCore, Counted
    <3>2. CASE k = j
      <4>1. Cardinality(Owes(k)') = Cardinality(Owes(k)) + 1 /\ Cardinality(Owes(k)) \in Nat
        BY <1>1, <1>2, <1>3, <3>2, OwesMoves DEF JobsTyped, Owe, Owing
      <4> QED BY <1>4, <3>1, <3>2, <4>1, AnswerNumbers
    <3>3. CASE k # j
      <4>1. Cardinality(Owes(k)') = Cardinality(Owes(k))
        BY <1>1, <1>2, <1>3, <3>3, OwesMoves DEF JobsTyped, Owe
      <4> QED BY <1>4, <3>1, <3>3, <4>1
    <3> QED BY <3>2, <3>3
  <2> QED BY <1>1, <2>1 DEF Counted
<1>6. \A k \in Jobs : deliveries[k] \in Nat
  BY AnswerNumbers
<1>7. Undelivered'
  BY <1>1, <1>2, <1>4, <1>6 DEF VerdictCore, Undelivered
<1>8. Single'
  <2> SUFFICES ASSUME NEW k \in Jobs, deliveries'[k] = 1, NEW u \in Tasks, NEW v \in Tasks, task'[u].job = k, task'[v].job = k
               PROVE  u = v
    BY DEF Single
  <2>1. CASE k = j
    <3>1. deliveries[k] = 0
      BY <1>4, <1>6, <2>1
    <3>2. \A w \in Tasks : task[w].job # k
      BY <3>1 DEF VerdictCore, Undelivered
    <3> QED BY <1>4, <3>2
  <2>2. CASE k # j
    BY <1>2, <1>4, <2>2 DEF VerdictCore, Single
  <2> QED BY <2>1, <2>2
<1>9. Unanswered'
  <2> SUFFICES ASSUME NEW k \in Jobs, deliveries'[k] = 1, NEW u \in Tasks, task'[u].job = k, task'[u].at \in Early
               PROVE  answers[k] = <<>>
    BY <1>1 DEF Unanswered
  <2>1. CASE k = j
    <3>1. deliveries[k] = 0
      BY <1>4, <1>6, <2>1
    <3> QED BY <3>1 DEF VerdictCore, Undelivered
  <2>2. CASE k # j
    BY <1>2, <1>4, <2>2 DEF VerdictCore, Unanswered
  <2> QED BY <2>1, <2>2
<1>10. OneVerdict'
  <2> SUFFICES ASSUME NEW k \in Jobs, deliveries'[k] = 1, NEW i \in DOMAIN answers[k], i > 1
               PROVE  answers[k][i] = "error"
    BY <1>1 DEF OneVerdict
  <2>1. CASE k = j
    <3>1. deliveries[k] = 0
      BY <1>4, <1>6, <2>1
    <3>2. answers[k] = <<>>
      BY <3>1 DEF VerdictCore, Undelivered
    <3> QED BY <3>2
  <2>2. CASE k # j
    BY <1>4, <2>2 DEF VerdictCore, OneVerdict
  <2> QED BY <2>1, <2>2
<1>11. BreakingStreams' /\ RememberedSettled'
  BY <1>1, <1>2, <1>4 DEF VerdictCore, BreakingStreams, RememberedSettled, Settled, Succeeded, Answered
<1> QED BY <1>5, <1>7, <1>8, <1>9, <1>10, <1>11 DEF VerdictCore

LEMMA CancellationVerdicts == ASSUME JobsTyped, VerdictCore, NEW j \in Jobs, OnCancellation(j) PROVE VerdictCore'
<1> DEFINE t == registry[j]
<1>0. JobsRows /\ (t # NoTask => t \in Tasks /\ task[t].job = j /\ task[t].at # "idle" /\ task[t] \in Task)
  BY DEF JobsTyped, JobsRows, TaskWell
<1>1. UNCHANGED <<answers, deliveries, request>>
  BY DEF OnCancellation, orchestratorVars
<1>2. CASE t = NoTask \/ task[t].at = "interrupted"
  <2>1. UNCHANGED <<task, late>>
    BY <1>2 DEF OnCancellation
  <2> QED BY <1>1, <2>1, IdleVerdicts
<1>3. CASE t # NoTask /\ task[t].at \in {"erring", "erred"}
  <2>1. task' = [task EXCEPT ![t] = Idle] /\ UNCHANGED late
    BY <1>3 DEF OnCancellation
  <2>2. Idle \in Task /\ Idle.at = "idle" /\ Idle.job \notin Jobs
    BY ChannelsAssumption, MemoryAssumption DEF Idle, Task
  <2> HIDE DEF Idle, t
  <2> QED BY <1>0, <1>1, <1>3, <2>1, <2>2, SilentVerdicts
<1>4. CASE t # NoTask /\ task[t].at \notin {"interrupted", "erring", "erred"}
  <2> DEFINE row == [task[t] EXCEPT !.at = "interrupted"]
             more == IF task[t].at \in {"remembering", "acking"} THEN 1 ELSE 0
  <2>1. task' = [task EXCEPT ![t] = row] /\ late' = [late EXCEPT ![j] = @ + more]
    BY <1>0, <1>4 DEF OnCancellation, JobsRows
  <2>2. row \in Task /\ row.job = j /\ row.at = "interrupted"
    BY <1>0, <1>4 DEF JobsRows, Task
  <2>3. task[t].job = j /\ task[t].at \in Early \cup {"remembering", "acking"}
    BY <1>0, <1>4 DEF Task, Early
  <2>4. t \in Tasks
    BY <1>0, <1>4
  <2> HIDE DEF row, t
  <2>5. /\ \A u \in Tasks : task'[u] = IF u = t THEN row ELSE task[u]
        /\ \A k \in Jobs : late'[k] = IF k = j THEN late[k] + more ELSE late[k]
    BY <2>1 DEF JobsTyped, JobsRows, JobsCounts
  <2>6. Counted'
    <3>1. ASSUME NEW k \in Jobs PROVE Len(answers[k]) + Cardinality(Owes(k)') <= deliveries[k] + late'[k]
      <4>1. Len(answers[k]) + Cardinality(Owes(k)) <= deliveries[k] + late[k]
        BY DEF VerdictCore, Counted
      <4>2. CASE k = j /\ task[t].at \in Early
        <5>1. Cardinality(Owes(k)') = Cardinality(Owes(k)) /\ Cardinality(Owes(k)) \in Nat
          BY <1>0, <2>1, <2>2, <2>3, <2>4, <4>2, OwesMoves DEF Owe, Owing, Early
        <5>2. late'[k] = late[k]
          BY <2>5, <4>2, AnswerNumbers DEF Early
        <5> QED BY <4>1, <5>1, <5>2
      <4>3. CASE k = j /\ task[t].at \in {"remembering", "acking"}
        <5>1. Cardinality(Owes(k)') = Cardinality(Owes(k)) + 1 /\ Cardinality(Owes(k)) \in Nat
          BY <1>0, <2>1, <2>2, <2>3, <2>4, <4>3, OwesMoves DEF Owe, Owing
        <5>2. late'[k] = late[k] + 1
          BY <2>5, <4>3
        <5> QED BY <4>1, <5>1, <5>2, AnswerNumbers
      <4>4. CASE k # j
        <5>1. Cardinality(Owes(k)') = Cardinality(Owes(k))
          BY <1>0, <2>1, <2>2, <2>3, <2>4, <4>4, OwesMoves DEF Owe
        <5> QED BY <2>5, <4>1, <4>4, <5>1
      <4> QED BY <2>3, <4>2, <4>3, <4>4
    <3> QED BY <1>1, <3>1 DEF Counted
  <2>7. Undelivered' /\ Single'
    BY <1>1, <2>2, <2>3, <2>5 DEF VerdictCore, Undelivered, Single
  <2>8. Unanswered' /\ OneVerdict'
    BY <1>1, <2>2, <2>5 DEF VerdictCore, Unanswered, OneVerdict, Early
  <2>9. BreakingStreams' /\ RememberedSettled'
    BY <1>1, <2>2, <2>5 DEF VerdictCore, BreakingStreams, RememberedSettled, Settled, Succeeded, Answered
  <2> QED BY <2>6, <2>7, <2>8, <2>9 DEF VerdictCore
<1> QED BY <1>2, <1>3, <1>4

LEMMA CrashVerdicts == ASSUME JobsTyped, VerdictCore, ExecutorDies PROVE VerdictCore'
<1>1. task' = [t \in Tasks |-> Idle] /\ UNCHANGED <<answers, deliveries, late, request>>
  BY DEF ExecutorDies, orchestratorVars
<1>2. \A t \in Tasks : task'[t].at = "idle" /\ task'[t].job \notin Jobs
  BY <1>1, MemoryAssumption DEF Idle
<1>3. Counted'
  <2>1. ASSUME NEW k \in Jobs PROVE Len(answers[k]) + Cardinality(Owes(k)') <= deliveries[k] + late[k]
    <3>1. Len(answers[k]) + Cardinality(Owes(k)) <= deliveries[k] + late[k]
      BY DEF VerdictCore, Counted
    <3>2. Owes(k)' = {}
      BY <1>2 DEF Owes, Owe
    <3>3. Cardinality(Owes(k)') = 0 /\ Cardinality(Owes(k)) \in Nat
      BY <3>2, JobsAssumption, FS_EmptySet, FS_Subset, FS_CardinalityType DEF Owes
    <3> QED BY <3>1, <3>3, AnswerNumbers
  <2> QED BY <1>1, <2>1 DEF Counted
<1> QED BY <1>1, <1>2, <1>3 DEF VerdictCore, Undelivered, Single, Unanswered, OneVerdict, BreakingStreams,
        RememberedSettled, Early

LEMMA JobsVerdicts == ASSUME JobsTyped, VerdictCore, JobsNext PROVE VerdictCore'
<1>1. ASSUME NEW j \in Jobs, Orchestrate(j) \/ ReadOwner(j) \/ Broadcast(j) PROVE VerdictCore'
  <2>1. UNCHANGED <<task, answers, deliveries, late, request>>
    BY <1>1 DEF Orchestrate, Accept, Collect, CollectFails, NodeFails, FilesFail, ToolsFail, MemoryFails, ChunksFail,
         GenerateTicket, PublishJob, PublishJobFails, Respond, OrchestratorDies, restVars, executorVars, ReadOwner, Broadcast
  <2> QED BY <2>1, IdleVerdicts
<1> QED BY <1>1, ProcessVerdicts, DeliverVerdicts, CancellationVerdicts, CrashVerdicts DEF JobsNext, Cancel

LEMMA FedStays ==
    ASSUME Fed, UNCHANGED <<updates, consumer, conversation>>, \A k \in Jobs : Settled(k) => Settled(k)',
           ConsumerWell
    PROVE  Fed'
<1>1. UpdatesSettled'
  BY DEF Fed, UpdatesSettled
<1>2. HandsSettled'
  <2> SUFFICES ASSUME NEW c \in Consumers, consumer[c].at # "idle", NEW k, k = consumer[c].job PROVE Settled(k)'
    BY DEF HandsSettled, Settled, Succeeded, Answered
  <2>1. k \in Jobs /\ Settled(k)
    BY DEF ConsumerWell, Fed, HandsSettled
  <2> QED BY <2>1
<1>3. MessagesSettled'
  <2>1. \A k \in Jobs : MessagesOf(k)' = MessagesOf(k)
    BY DEF MessagesOf
  <2> QED BY <2>1 DEF Fed, MessagesSettled
<1> QED BY <1>1, <1>2, <1>3 DEF Fed

LEMMA ProcessFed ==
    ASSUME InferenceTyped, VerdictCore, Fed, NEW t \in Tasks, Process(t), UNCHANGED memoryVars
    PROVE  Fed'
<1>0. UNCHANGED <<consumer, conversation>> /\ JobsTyped /\ ConsumerWell
  BY DEF memoryVars, InferenceTyped, MemoryTyped
<1>1. CASE Break(t) \/ Answer(t) \/ Err(t)
  <2>1. PICK kind \in {"success", "error"} : answers' = [answers EXCEPT ![task[t].job] = Append(@, kind)]
    BY <1>1 DEF Break, Answer, Err, Publishes
  <2>2. task[t].job \in Jobs /\ UNCHANGED <<updates, request>>
    <3>1. task[t].at # "idle"
      BY <1>1 DEF Break, Answer, Err, Steps
    <3> QED BY <1>0, <1>1, <3>1, JobOf DEF JobsTyped, Break, Answer, Err, Publishes, orchestratorVars
  <2>3. \A k \in Jobs : Settled(k) => Settled(k)'
    BY <1>0, <2>1, <2>2, SettledStays
  <2> QED BY <1>0, <2>2, <2>3, FedStays
<1>2. CASE Remember(t)
  <2>1. /\ UNCHANGED <<answers, request>> /\ task[t].at = "remembering"
        /\ UNCHANGED updates \/ updates' = [updates EXCEPT ![task[t].job] = @ + 1]
    BY <1>2 DEF Remember, Steps, orchestratorVars
  <2>2. task[t].job \in Jobs /\ Settled(task[t].job)
    BY <1>0, <2>1, JobOf DEF JobsTyped, VerdictCore, RememberedSettled
  <2>3. \A k \in Jobs : Settled(k) => Settled(k)'
    BY <2>1 DEF Settled, Succeeded, Answered
  <2>4. updates \in [Jobs -> Nat]
    BY <1>0 DEF JobsTyped, ChannelsTypeOK
  <2>5. UpdatesSettled'
    <3> SUFFICES ASSUME NEW k \in Jobs, updates'[k] > 0 PROVE Settled(k)'
      BY DEF UpdatesSettled
    <3>1. k = task[t].job \/ updates'[k] = updates[k]
      BY <2>1, <2>4
    <3> QED BY <2>2, <2>3, <3>1 DEF Fed, UpdatesSettled
  <2>6. HandsSettled' /\ MessagesSettled'
    BY <1>0, <2>1 DEF Fed, HandsSettled, MessagesSettled, MessagesOf, Settled, Succeeded, Answered
  <2> QED BY <2>5, <2>6 DEF Fed
<1>3. CASE Build(t) \/ Invoke(t) \/ StreamChunk(t) \/ StreamEnds(t) \/ Ack(t) \/ Interrupted(t)
  <2>1. UNCHANGED <<updates, answers, request>>
    BY <1>3 DEF Build, Invoke, StreamChunk, StreamEnds, Ack, Interrupted, channelVars, orchestratorVars
  <2>2. \A k \in Jobs : Settled(k) => Settled(k)'
    BY <2>1 DEF Settled, Succeeded, Answered
  <2> QED BY <1>0, <2>1, <2>2, FedStays
<1> QED BY <1>1, <1>2, <1>3 DEF Process

LEMMA JobsFed ==
    ASSUME InferenceTyped, VerdictCore, Fed, JobsNext, UNCHANGED memoryVars
    PROVE  Fed'
<1>0. UNCHANGED <<consumer, conversation>> /\ ConsumerWell
  BY DEF memoryVars, InferenceTyped, MemoryTyped
<1>1. ASSUME ~(\E t \in Tasks : Process(t)) PROVE Fed'
  <2>1. UNCHANGED <<updates, answers, request>>
    BY <1>1 DEF JobsNext, Cancel, Orchestrate, Accept, Collect, CollectFails, NodeFails, FilesFail, ToolsFail, MemoryFails,
         ChunksFail, GenerateTicket, PublishJob, PublishJobFails, Respond, OrchestratorDies, restVars, executorVars,
         ReadOwner, Broadcast, OnCancellation, Deliver, ExecutorDies, channelVars, orchestratorVars
  <2>2. \A k \in Jobs : Settled(k) => Settled(k)'
    BY <2>1 DEF Settled, Succeeded, Answered
  <2> QED BY <1>0, <2>1, <2>2, FedStays
<1> QED BY <1>1, ProcessFed

\* Where a job has messages, one of its turns was stored, now or before.
LEMMA MessagesCome ==
    ASSUME MemoryTyped, MemoryNext, NEW k \in Jobs, MessagesOf(k)' # {}
    PROVE  MessagesOf(k) # {} \/ \E c \in Consumers : consumer[c].at = "checked" /\ consumer[c].job = k
<1>0. conversation \in Seq(Message)
  BY DEF MemoryTyped, MemoryTypeOK
<1>1. PICK i \in DOMAIN conversation' : conversation'[i].job = k
  BY DEF MessagesOf
<1>2. ASSUME NEW n \in DOMAIN conversation, DeleteMessage(n) PROVE MessagesOf(k) # {}
  <2>1. conversation' = SubSeq(conversation, 1, n - 1) \o SubSeq(conversation, n + 1, Len(conversation))
    BY <1>2 DEF DeleteMessage
  <2>2. n \in 1..Len(conversation) /\ DOMAIN conversation = 1..Len(conversation) /\ Len(conversation) \in Nat
    BY <1>0, LenProperties
  <2> DEFINE s == conversation
             r == conversation'
  <2>3. /\ r \in Seq(Message) /\ Len(r) = Len(s) - 1
        /\ \A m \in 1..(Len(s) - 1) : m < n => r[m] = s[m]
        /\ \A m \in 1..(Len(s) - 1) : m >= n => r[m] = s[m + 1]
    BY <1>0, <2>1, <2>2, Removal
  <2>4. i \in 1..(Len(s) - 1)
    BY <1>1, <2>3, LenProperties
  <2>5. i \in DOMAIN s /\ i + 1 \in DOMAIN s
    BY <2>2, <2>4
  <2>6. r[i] = s[i] \/ r[i] = s[i + 1]
    BY <2>2, <2>3, <2>4
  <2> QED BY <1>1, <2>5, <2>6 DEF MessagesOf
<1>3. ASSUME NEW c \in Consumers, StoreUpdate(c), conversation' # conversation
      PROVE  MessagesOf(k) # {} \/ (consumer[c].at = "checked" /\ consumer[c].job = k)
  <2> DEFINE j == consumer[c].job
             s == conversation
             u == Turn(j)
  <2>1. consumer[c].at = "checked" /\ conversation' = s \o u
    BY <1>3 DEF StoreUpdate
  <2>2. j \in Jobs
    BY <2>1 DEF MemoryTyped, ConsumerWell
  <2>3. u \in Seq(Message) /\ Len(u) = 2 /\ u[1].job = j /\ u[2].job = j
    <3>1. /\ u \in Seq(Message) /\ Len(u) = 2
          /\ u[1] = [job |-> j, role |-> "user", keyed |-> TRUE] /\ u[2] = [job |-> j, role |-> "assistant", keyed |-> FALSE]
      BY <2>2, TurnType
    <3> HIDE DEF u
    <3> QED BY <3>1
  <2> HIDE DEF u
  <2>4. /\ s \o u \in Seq(Message) /\ Len(s \o u) = Len(s) + Len(u)
        /\ \A m \in 1..Len(s) + Len(u) : (s \o u)[m] = IF m <= Len(s) THEN s[m] ELSE u[m - Len(s)]
    BY <1>0, <2>3, ConcatProperties
  <2>5. Len(s) \in Nat /\ DOMAIN s = 1..Len(s) /\ i \in 1..Len(s) + Len(u)
    BY <1>0, <1>1, <2>1, <2>4, LenProperties
  <2>6. CASE i <= Len(s)
    <3>1. i \in DOMAIN s /\ s[i].job = k
      BY <1>1, <2>1, <2>4, <2>5, <2>6
    <3> QED BY <3>1 DEF MessagesOf
  <2>7. CASE ~(i <= Len(s))
    <3>1. i - Len(s) = 1 \/ i - Len(s) = 2
      BY <2>3, <2>5, <2>7
    <3>2. conversation'[i] = u[i - Len(s)]
      BY <2>1, <2>4, <2>5, <2>7
    <3>3. conversation'[i].job = j
      BY <2>3, <3>1, <3>2
    <3> QED BY <1>1, <2>1, <3>3
  <2> QED BY <2>6, <2>7
<1>4. CASE conversation' = <<>>
  BY <1>1, <1>4, EmptySeq
<1>5. CASE conversation' = conversation
  BY <1>5 DEF MessagesOf
<1>6. \/ \E n \in DOMAIN conversation : DeleteMessage(n)
      \/ \E c \in Consumers : StoreUpdate(c)
      \/ conversation' = <<>> \/ conversation' = conversation
  <2>1. \A c \in Consumers : ConsumerNext(c) => StoreUpdate(c) \/ conversation' = conversation
    BY DEF ConsumerNext, TakeUpdate, StoreFails, AckUpdate, ConsumerDies
  <2>2. ClearBucket \/ DeleteBucket => conversation' = <<>>
    BY DEF ClearBucket, DeleteBucket
  <2>3. \A e : EditorNext(e) => conversation' = conversation
    BY DEF EditorNext, LoadBucket, SaveBucket
  <2> QED BY <2>1, <2>2, <2>3 DEF MemoryNext
<1> QED BY <1>2, <1>3, <1>4, <1>5, <1>6

LEMMA MemoryFed ==
    ASSUME InferenceTyped, Fed, MemoryNext, UNCHANGED jobVars
    PROVE  Fed'
<1>0. /\ updates \in [Jobs -> Nat] /\ ConsumerWell /\ MemoryTyped
      /\ consumer \in [Consumers -> [at: {"idle", "checked", "stored"}, job: Jobs \cup {Nobody}]]
  BY DEF InferenceTyped, JobsTyped, ChannelsTypeOK, MemoryTyped, MemoryTypeOK
<1>1. \A k \in Jobs : Settled(k)' <=> Settled(k)
  BY DEF jobVars, Settled, Succeeded, Answered
<1>2. MessagesSettled'
  <2> SUFFICES ASSUME NEW k \in Jobs, MessagesOf(k)' # {} PROVE Settled(k)
    BY <1>1 DEF MessagesSettled
  <2>1. CASE MessagesOf(k) # {}
    BY <2>1 DEF Fed, MessagesSettled
  <2>2. ASSUME NEW c \in Consumers, consumer[c].at = "checked", consumer[c].job = k PROVE Settled(k)
    BY <2>2 DEF Fed, HandsSettled
  <2> QED BY <1>0, <2>1, <2>2, MessagesCome
<1>3. HandsSettled'
  <2> SUFFICES ASSUME NEW c \in Consumers, consumer'[c].at # "idle", NEW k, k = consumer'[c].job PROVE Settled(k)'
    BY DEF HandsSettled, Settled, Succeeded, Answered
  <2>1. k \in Jobs /\ ((consumer[c].at # "idle" /\ consumer[c].job = k) \/ updates[k] > 0)
    <3>1. ASSUME NEW d \in Consumers, NEW j \in Jobs, TakeUpdate(d, j)
          PROVE  k \in Jobs /\ ((consumer[c].at # "idle" /\ consumer[c].job = k) \/ updates[k] > 0)
      BY <1>0, <3>1 DEF TakeUpdate, ConsumerWell
    <3>2. ASSUME NEW d \in Consumers, StoreUpdate(d) \/ StoreFails(d)
          PROVE  consumer[c].at # "idle" /\ consumer[c].job = k
      BY <1>0, <3>2 DEF StoreUpdate, StoreFails
    <3>3. ASSUME NEW d \in Consumers, AckUpdate(d) \/ ConsumerDies(d)
          PROVE  consumer[c].at # "idle" /\ consumer[c].job = k
      BY <1>0, <3>3 DEF AckUpdate, ConsumerDies, Free
    <3>4. CASE consumer' = consumer
      BY <1>0, <3>4 DEF ConsumerWell
    <3>5. \/ \E d \in Consumers : \/ \E j \in Jobs : TakeUpdate(d, j)
                                  \/ StoreUpdate(d) \/ StoreFails(d) \/ AckUpdate(d) \/ ConsumerDies(d)
          \/ consumer' = consumer
      <4>1. \/ \E d \in Consumers : ConsumerNext(d)
            \/ ClearBucket \/ DeleteBucket
            \/ \E i \in DOMAIN conversation : DeleteMessage(i)
            \/ \E e \in Editors : EditorNext(e)
        BY DEF MemoryNext
      <4>2. ClearBucket \/ DeleteBucket => consumer' = consumer
        BY DEF ClearBucket, DeleteBucket
      <4>3. \A i : DeleteMessage(i) => consumer' = consumer
        BY DEF DeleteMessage
      <4>4. \A e : EditorNext(e) => consumer' = consumer
        BY DEF EditorNext, LoadBucket, SaveBucket
      <4> QED BY <4>1, <4>2, <4>3, <4>4 DEF ConsumerNext
    <3>6. (consumer[c].at # "idle" /\ consumer[c].job = k) => k \in Jobs
      BY <1>0 DEF ConsumerWell
    <3> QED BY <3>1, <3>2, <3>3, <3>4, <3>5, <3>6
  <2> QED BY <1>1, <2>1 DEF Fed, UpdatesSettled, HandsSettled
<1>4. UpdatesSettled'
  <2> SUFFICES ASSUME NEW k \in Jobs, updates'[k] > 0 PROVE Settled(k)
    BY <1>1 DEF UpdatesSettled
  <2>1. updates[k] > 0 \/ \E c \in Consumers : consumer[c].at # "idle" /\ consumer[c].job = k
    <3>1. ASSUME NEW d \in Consumers, NEW j \in Jobs, TakeUpdate(d, j) PROVE updates[k] > 0
      BY <1>0, <3>1 DEF TakeUpdate
    <3>2. ASSUME NEW d \in Consumers, ConsumerDies(d)
          PROVE  updates[k] > 0 \/ (consumer[d].at # "idle" /\ consumer[d].job = k)
      <4>1. consumer[d].at # "idle"
        <5>1. consumer[d].at = "idle" => consumer[d].job = Nobody
          BY <1>0 DEF ConsumerWell
        <5>2. consumer[d] = [at |-> consumer[d].at, job |-> consumer[d].job]
          BY <1>0
        <5> QED BY <3>2, <5>1, <5>2 DEF ConsumerDies, Free
      <4> QED BY <1>0, <3>2, <4>1 DEF ConsumerDies
    <3>3. \/ \E d \in Consumers : (\E j \in Jobs : TakeUpdate(d, j)) \/ ConsumerDies(d)
          \/ updates' = updates
      <4>1. \/ \E d \in Consumers : ConsumerNext(d)
            \/ ClearBucket \/ DeleteBucket
            \/ \E i \in DOMAIN conversation : DeleteMessage(i)
            \/ \E e \in Editors : EditorNext(e)
        BY DEF MemoryNext
      <4>2. ClearBucket \/ DeleteBucket => updates' = updates
        BY DEF ClearBucket, DeleteBucket, channelVars
      <4>3. \A i : DeleteMessage(i) => updates' = updates
        BY DEF DeleteMessage, channelVars
      <4>4. \A e : EditorNext(e) => updates' = updates
        BY DEF EditorNext, LoadBucket, SaveBucket, channelVars
      <4>5. \A d \in Consumers : StoreUpdate(d) \/ StoreFails(d) \/ AckUpdate(d) => updates' = updates
        BY DEF StoreUpdate, StoreFails, AckUpdate, channelVars
      <4> QED BY <4>1, <4>2, <4>3, <4>4, <4>5 DEF ConsumerNext
    <3> QED BY <3>1, <3>2, <3>3
  <2> QED BY <2>1 DEF Fed, UpdatesSettled, HandsSettled
<1> QED BY <1>2, <1>3, <1>4 DEF Fed

VerdictInv == InferenceTyped /\ VerdictCore /\ Fed

LEMMA VerdictInit == ASSUME NEW over, Started(over) PROVE VerdictInv
<1> SUFFICES VerdictCore /\ Fed
  BY StartTyped DEF VerdictInv
<1>1. /\ task = [t \in Tasks |-> Idle] /\ late = [j \in Jobs |-> 0]
      /\ answers = [j \in Jobs |-> IF j \in over THEN <<"success">> ELSE <<>>]
      /\ deliveries = [j \in Jobs |-> IF j \in over THEN 1 ELSE 0]
      /\ conversation = <<>> /\ consumer = [c \in Consumers |-> Free]
  BY DEF Started, JobsStart, MemoryInit
<1>0. Len(<<"success">>) = 1 /\ Len(<<>>) = 0 /\ DOMAIN <<"success">> = 1..1 /\ <<"success">>[1] = "success"
  BY EmptySeq
<1>2. \A t \in Tasks : task[t].at = "idle" /\ task[t].job \notin Jobs
  BY <1>1, MemoryAssumption DEF Idle
<1>3. Counted
  <2>1. ASSUME NEW j \in Jobs PROVE Owes(j) = {}
    BY <1>2 DEF Owes, Owe
  <2>2. ASSUME NEW j \in Jobs PROVE Len(answers[j]) + Cardinality(Owes(j)) <= deliveries[j] + late[j]
    <3>1. Cardinality(Owes(j)) = 0
      BY <2>1, FS_EmptySet
    <3>2. Len(answers[j]) = deliveries[j] /\ late[j] = 0
      BY <1>0, <1>1
    <3>3. deliveries[j] \in Nat
      BY <1>1
    <3> QED BY <3>1, <3>2, <3>3
  <2> QED BY <2>2 DEF Counted
<1>4. VerdictCore
  <2>1. OneVerdict
    <3> SUFFICES ASSUME NEW j \in Jobs, deliveries[j] = 1, NEW i \in DOMAIN answers[j], i > 1 PROVE FALSE
      BY DEF OneVerdict
    <3>1. answers[j] = <<"success">>
      BY <1>1
    <3> QED BY <1>0, <3>1
  <2>2. Undelivered /\ Single /\ Unanswered /\ BreakingStreams /\ RememberedSettled
    BY <1>1, <1>2 DEF Undelivered, Single, Unanswered, BreakingStreams, RememberedSettled
  <2> QED BY <1>3, <2>1, <2>2 DEF VerdictCore
<1>5. MessagesSettled
  BY <1>1 DEF MessagesSettled, MessagesOf
<1>6. HandsSettled
  BY <1>1 DEF HandsSettled, Free
<1>7. UpdatesSettled
  <2> SUFFICES ASSUME NEW j \in Jobs, updates[j] > 0 PROVE Succeeded(j)
    BY DEF UpdatesSettled, Settled
  <2>1. answers[j] = <<"success">>
    BY <1>1 DEF Started
  <2> QED BY <1>0, <2>1 DEF Succeeded
<1> QED BY <1>4, <1>5, <1>6, <1>7 DEF Fed

LEMMA VerdictStep == ASSUME VerdictInv, [InferenceNext]_inferenceVars PROVE VerdictInv'
<1>0. InferenceTyped' /\ InferenceTyped /\ VerdictCore /\ Fed /\ JobsTyped /\ ConsumerWell
  BY InferenceStepTyped DEF VerdictInv, InferenceTyped, MemoryTyped
<1>1. CASE JobsNext /\ UNCHANGED <<streamVars, memoryVars>>
  BY <1>0, <1>1, JobsVerdicts, JobsFed DEF VerdictInv
<1>2. CASE StreamNext /\ UNCHANGED <<jobVars, memoryVars>>
  <2>0. UNCHANGED updates
    <3>1. ASSUME NEW j \in Jobs, Connect(j) \/ ExpireTicket(j) \/ OnMessage(j) PROVE UNCHANGED updates
      BY <3>1 DEF Connect, ExpireTicket, OnMessage
    <3>2. ASSUME NEW j \in Jobs, Replay(j) \/ ClientLeaves(j) PROVE UNCHANGED updates
      BY <3>2 DEF Replay, Register, ReplayOne, ReplayEnds, ClientLeaves, channelVars
    <3>3. StreamRestarts => UNCHANGED updates
      BY DEF StreamRestarts
    <3> QED BY <1>2, <3>1, <3>2, <3>3 DEF StreamNext
  <2>1. UNCHANGED <<updates, consumer, conversation, task, answers, deliveries, late, request>>
    BY <1>2, <2>0 DEF jobVars, memoryVars
  <2>2. \A k \in Jobs : Settled(k) => Settled(k)'
    BY <2>1 DEF Settled, Succeeded, Answered
  <2>3. VerdictCore'
    BY <1>0, <2>1, IdleVerdicts
  <2>4. Fed'
    BY <1>0, <2>1, <2>2, FedStays
  <2> QED BY <1>0, <2>3, <2>4 DEF VerdictInv
<1>3. CASE MemoryNext /\ UNCHANGED <<jobVars, streamVars>>
  <2>1. UNCHANGED <<task, answers, deliveries, late, request>>
    BY <1>3 DEF jobVars
  <2> QED BY <1>0, <1>3, <2>1, IdleVerdicts, MemoryFed DEF VerdictInv
<1>4. CASE UNCHANGED inferenceVars
  <2>1. UNCHANGED <<updates, consumer, conversation, task, answers, deliveries, late, request>>
    BY <1>4 DEF inferenceVars, channelVars, jobVars, memoryVars
  <2>2. \A k \in Jobs : Settled(k) => Settled(k)'
    BY <2>1 DEF Settled, Succeeded, Answered
  <2> QED BY <1>0, <2>1, <2>2, IdleVerdicts, FedStays DEF VerdictInv
<1> QED BY <1>1, <1>2, <1>3, <1>4 DEF InferenceNext

\* However a job is delivered, interrupted and cancelled: it has at most one final result for
\* each delivery and late interruption, a job delivered once no success after another result,
\* and what the memory is sent, or holds, is of a job that was answered.
THEOREM VerdictsAlwaysSettle == InferenceSpec => []VerdictsSettle
<1>0. InferenceInit => VerdictInv
  BY InferenceStarted, VerdictInit
<1>1. VerdictInv /\ [InferenceNext]_inferenceVars => VerdictInv'
  BY VerdictStep
<1>2. InferenceSpec => []VerdictInv
  BY <1>0, <1>1, PTL DEF InferenceSpec
<1>3. VerdictInv => VerdictsSettle
  BY VerdictsFollow DEF VerdictInv
<1> QED BY <1>2, <1>3, PTL

-----------------------------------------------------------------------------
(* StreamInOrder.                                                          *)

HasFinal(s) == \E i \in DOMAIN s : Final(s[i])

\* Some of the replay is left.
Waits(c) == c.todo # <<>>

\* Everything in the cache was sent or will be; it is so in this order; what was sent is the
\* start of the cache.
Complete(c, s) == Len(c.sent) + Len(c.todo) = Len(s)
Ordered(c, s) == c.sent \o c.todo = s
Start(c, s) == Len(c.sent) <= Len(s) /\ c.sent = SubSeq(s, 1, Len(c.sent))

\* The connection c for job j, with what is cached for it and the jobs whose replay was
\* overtaken.
RowInOrder(c, s, j, ov) ==
    /\ c.at = "accepting" => c.sent = <<>>
    /\ c.at \in {"none", "accepting"} => ~c.over
    /\ c.at = "live" => c.todo = <<>>
    /\ c.over => HasFinal(c.sent)
    /\ c.at \in {"replaying", "live"} => Complete(c, s) /\ (j \notin ov => Ordered(c, s))
    /\ c.at = "closed" => HasFinal(c.sent) /\ (j \notin ov => Start(c, s))

LEMMA RowSeqs ==
    ASSUME NEW c \in Connection
    PROVE  /\ c.todo \in Seq(Result) /\ c.sent \in Seq(Result)
           /\ Len(c.todo) \in Nat /\ Len(c.sent) \in Nat
           /\ DOMAIN c.sent = 1..Len(c.sent)
  BY LenProperties DEF Connection

LEMMA FinalStays ==
    ASSUME NEW s \in Seq(Result), NEW r \in Result
    PROVE  /\ HasFinal(s) => HasFinal(Append(s, r))
           /\ Final(r) => HasFinal(Append(s, r))
<1>1. /\ Append(s, r) \in Seq(Result) /\ Len(Append(s, r)) = Len(s) + 1 /\ Append(s, r)[Len(s) + 1] = r
      /\ \A i \in 1..Len(s) : Append(s, r)[i] = s[i]
  BY AppendProperties
<1>2. DOMAIN s = 1..Len(s) /\ DOMAIN Append(s, r) = 1..Len(Append(s, r)) /\ Len(s) \in Nat
  BY <1>1, LenProperties
<1>3. DOMAIN s \subseteq DOMAIN Append(s, r) /\ Len(s) + 1 \in DOMAIN Append(s, r)
  BY <1>1, <1>2
<1>4. HasFinal(s) => HasFinal(Append(s, r))
  BY <1>1, <1>2, <1>3 DEF HasFinal
<1>5. Final(r) => HasFinal(Append(s, r))
  BY <1>1, <1>3 DEF HasFinal
<1> QED BY <1>4, <1>5

\* Of two sequences, the head of the second moves to the end of the first.
LEMMA HeadMoves ==
    ASSUME NEW S, NEW v \in Seq(S), NEW t \in Seq(S), Len(t) # 0
    PROVE  /\ Append(v, Head(t)) \o Tail(t) = v \o t
           /\ Len(Append(v, Head(t))) + Len(Tail(t)) = Len(v) + Len(t)
           /\ Head(t) \in S /\ Tail(t) \in Seq(S)
<1> DEFINE h == Head(t)
           u == Tail(t)
           one == <<h>>
<1>1. Len(t) \in Nat /\ Len(v) \in Nat /\ 1 \in 1..Len(t) /\ Len(t) \in 1..Len(t)
  BY LenProperties
<1>2. t # <<>>
  BY EmptySeq
<1>3. h \in S /\ u \in Seq(S) /\ Len(u) = Len(t) - 1
  BY <1>2, HeadTailProperties
<1>4. t = one \o u
  <2>1. t = SubSeq(t, 1, Len(t))
    BY SubSeqFull
  <2>2. SubSeq(t, 1, Len(t)) = <<t[1]>> \o SubSeq(t, 1 + 1, Len(t))
    BY <1>1, SubSeqRecursiveFirst
  <2>3. u = SubSeq(t, 2, Len(t))
    BY <1>2, TailIsSubSeq
  <2>4. h = t[1]
    BY <1>1
  <2> QED BY <2>1, <2>2, <2>3, <2>4
<1>5. one \in Seq(S)
  BY <1>3
<1>6. Append(v, h) = v \o one
  BY <1>3, AppendIsConcat
<1> HIDE DEF h, u, one
<1>7. (v \o one) \o u = v \o (one \o u)
  BY <1>3, <1>5, ConcatAssociative
<1>8. Len(Append(v, h)) = Len(v) + 1
  BY <1>3, AppendProperties
<1>9. Len(Append(v, h)) + Len(u) = Len(v) + Len(t)
  BY <1>1, <1>3, <1>8
<1>10. Append(v, h) \o u = v \o t
  BY <1>4, <1>6, <1>7
<1> QED BY <1>3, <1>9, <1>10 DEF h, u

LEMMA RegisteredInOrder ==
    ASSUME NEW c \in Connection, NEW s \in Seq(Result), NEW j, NEW ov, RowInOrder(c, s, j, ov), c.at = "accepting"
    PROVE  RowInOrder(RegisteredRow(c, s), s, j, ov)
<1> DEFINE d == RegisteredRow(c, s)
<1>1. d.at = "replaying" /\ d.todo = s /\ d.sent = <<>> /\ d.over = c.over /\ ~c.over
  BY DEF RegisteredRow, Connection, RowInOrder
<1>2. <<>> \o s = s /\ Len(<<>>) + Len(s) = Len(s)
  BY ConcatEmptySeq, EmptySeq, LenProperties
<1> HIDE DEF d
<1>3. Complete(d, s) /\ Ordered(d, s)
  BY <1>1, <1>2 DEF Complete, Ordered
<1>4. RowInOrder(d, s, j, ov)
  BY <1>1, <1>3 DEF RowInOrder
<1> QED BY <1>4 DEF d

LEMMA ReplayedInOrder ==
    ASSUME NEW c \in Connection, NEW s \in Seq(Result), NEW j, NEW ov, RowInOrder(c, s, j, ov),
           c.at = "replaying", Waits(c)
    PROVE  RowInOrder(ReplayedRow(c), s, j, ov)
<1> DEFINE d == ReplayedRow(c)
           t == c.todo
           v == c.sent
           h == Head(t)
           w == Append(v, h)
<1>1. t \in Seq(Result) /\ v \in Seq(Result)
  BY RowSeqs
<1>2. d.at = "replaying" /\ d.todo = Tail(t) /\ d.sent = w /\ (d.over <=> (c.over \/ Final(h)))
  BY DEF ReplayedRow, Connection
<1>3. (c.over => HasFinal(v)) /\ Len(v) + Len(t) = Len(s) /\ (j \notin ov => v \o t = s) /\ t # <<>>
  BY DEF RowInOrder, Complete, Ordered, Waits
<1> HIDE DEF d, t, v
<1>4. Len(t) # 0
  BY <1>1, <1>3, EmptySeq
<1>5. w \o Tail(t) = v \o t /\ Len(w) + Len(Tail(t)) = Len(v) + Len(t) /\ h \in Result
  BY <1>1, <1>4, HeadMoves
<1>6. (HasFinal(v) => HasFinal(w)) /\ (Final(h) => HasFinal(w))
  BY <1>1, <1>5, FinalStays
<1> HIDE DEF h, w
<1>7. Complete(d, s) /\ (j \notin ov => Ordered(d, s))
  BY <1>2, <1>3, <1>5 DEF Complete, Ordered
<1>8. d.over => HasFinal(d.sent)
  BY <1>2, <1>3, <1>6
<1>9. RowInOrder(d, s, j, ov)
  BY <1>2, <1>7, <1>8 DEF RowInOrder
<1> QED BY <1>9 DEF d

LEMMA DoneInOrder ==
    ASSUME NEW c \in Connection, NEW s \in Seq(Result), NEW j, NEW ov, RowInOrder(c, s, j, ov),
           c.at = "replaying", c.todo = <<>>
    PROVE  RowInOrder(DoneRow(c), s, j, ov)
<1> DEFINE d == DoneRow(c)
<1>1. c.sent \in Seq(Result) /\ Len(c.sent) \in Nat /\ Len(s) \in Nat
  BY RowSeqs, LenProperties
<1>2. c.sent \o <<>> = c.sent /\ Len(<<>>) = 0
  BY <1>1, ConcatEmptySeq, EmptySeq
<1>3. Complete(c, s) /\ (j \notin ov => Ordered(c, s)) /\ (c.over => HasFinal(c.sent))
  BY DEF RowInOrder
<1>4. Len(c.sent) = Len(s) /\ (j \notin ov => c.sent = s)
  BY <1>1, <1>2, <1>3 DEF Complete, Ordered
<1>5. j \notin ov => c.sent = SubSeq(s, 1, Len(c.sent))
  BY <1>4, SubSeqFull
<1>6. d.todo = <<>> /\ d.sent = c.sent /\ d.over = c.over /\ d.at = (IF c.over THEN "closed" ELSE "live")
  BY DEF DoneRow, Connection
<1> HIDE DEF d
<1>7. Complete(d, s) /\ (j \notin ov => Ordered(d, s))
  BY <1>3, <1>6 DEF Complete, Ordered
<1>8. j \notin ov => Start(d, s)
  BY <1>1, <1>4, <1>5, <1>6 DEF Start
<1>9. RowInOrder(d, s, j, ov)
  BY <1>3, <1>6, <1>7, <1>8 DEF RowInOrder
<1> QED BY <1>9 DEF d

\* A live result: to the client whose replay is over, and to one whose replay it overtakes.
LEMMA ToldInOrder ==
    ASSUME NEW c \in Connection, NEW s \in Seq(Result), NEW j, NEW ov, RowInOrder(c, s, j, ov),
           c.at \in {"replaying", "live"}, NEW r \in Result,
           NEW more, j \in more <=> (j \in ov \/ Waits(c))
    PROVE  RowInOrder(ToldRow(c, r), Append(s, r), j, more)
<1> DEFINE d == ToldRow(c, r)
           a == Append(c.sent, r)
           b == Append(s, r)
<1>1. c.todo \in Seq(Result) /\ c.sent \in Seq(Result) /\ Len(c.todo) \in Nat /\ Len(c.sent) \in Nat /\ Len(s) \in Nat
  BY RowSeqs, LenProperties
<1>2. d.sent = a /\ d.at = (IF Final(r) THEN "closed" ELSE c.at) /\ d.todo = (IF Final(r) THEN <<>> ELSE c.todo) /\ d.over = c.over
  BY DEF ToldRow, Connection
<1>3. a \in Seq(Result) /\ b \in Seq(Result) /\ Len(a) = Len(c.sent) + 1 /\ Len(b) = Len(s) + 1
  BY <1>1, AppendProperties
<1>4. (HasFinal(c.sent) => HasFinal(a)) /\ (Final(r) => HasFinal(a))
  BY <1>1, FinalStays
<1>5. j \notin more => a = b /\ a \o <<>> = a /\ c.todo = <<>>
  <2> SUFFICES ASSUME j \notin more PROVE a = b /\ a \o <<>> = a /\ c.todo = <<>>
    OBVIOUS
  <2>1. j \notin ov /\ c.todo = <<>>
    BY DEF Waits
  <2>2. c.sent \o c.todo = s
    BY <2>1 DEF RowInOrder, Ordered
  <2>3. c.sent \o <<>> = c.sent
    BY <1>1, ConcatEmptySeq
  <2>4. a \o <<>> = a
    BY <1>3, ConcatEmptySeq
  <2> QED BY <2>1, <2>2, <2>3, <2>4
<1>6. SubSeq(b, 1, Len(b)) = b
  BY <1>3, SubSeqFull
<1>7. Len(c.sent) + Len(c.todo) = Len(s)
  BY DEF RowInOrder, Complete
<1>8. Len(a) + Len(c.todo) = Len(b)
  <2> DEFINE t == c.todo
             v == c.sent
  <2>1. Len(a) = Len(v) + 1 /\ Len(b) = Len(s) + 1
    BY <1>3
  <2>2. Len(v) + Len(t) = Len(s) /\ Len(v) \in Nat /\ Len(t) \in Nat /\ Len(s) \in Nat
    BY <1>1, <1>7
  <2> HIDE DEF t, v, a, b
  <2>3. Len(a) + Len(t) = Len(b)
    BY <2>1, <2>2
  <2> QED BY <2>3 DEF t
<1>9. (c.over => HasFinal(a)) /\ (c.at = "live" => c.todo = <<>>)
  BY <1>4 DEF RowInOrder
<1>10. j \notin more => Len(a) <= Len(b) /\ a = SubSeq(b, 1, Len(a))
  <2> HIDE DEF a, b
  <2> QED BY <1>1, <1>3, <1>5, <1>6
<1> HIDE DEF a, b, d
<1>11. ASSUME Final(r) PROVE RowInOrder(d, b, j, more)
  <2>1. j \notin more => Start(d, b)
    BY <1>2, <1>10 DEF Start
  <2>2. d.at = "closed" /\ d.sent = a /\ d.over = c.over /\ HasFinal(a)
    BY <1>2, <1>4, <1>11
  <2> QED BY <2>1, <2>2 DEF RowInOrder
<1>12. ASSUME ~Final(r) PROVE RowInOrder(d, b, j, more)
  <2>1. d.sent = a /\ d.at = c.at /\ d.todo = c.todo /\ d.over = c.over
    BY <1>2, <1>12
  <2>2. Complete(d, b) /\ (j \notin more => Ordered(d, b))
    BY <1>5, <1>8, <2>1 DEF Complete, Ordered
  <2> QED BY <1>9, <2>1, <2>2 DEF RowInOrder
<1>13. RowInOrder(d, b, j, more)
  BY <1>11, <1>12
<1> QED BY <1>13 DEF d, b

\* A result that nobody watches for only joins the cache.
LEMMA CachedInOrder ==
    ASSUME NEW c \in Connection, NEW s \in Seq(Result), NEW j, NEW ov, RowInOrder(c, s, j, ov),
           c.at \notin {"replaying", "live"}, NEW r \in Result
    PROVE  RowInOrder(c, Append(s, r), j, ov)
<1> DEFINE b == Append(s, r)
           n == Len(c.sent)
<1>1. n \in Nat /\ Len(s) \in Nat
  BY RowSeqs, LenProperties
<1>2. /\ b \in Seq(Result) /\ Len(b) = Len(s) + 1
      /\ \A i \in 1..Len(s) : b[i] = s[i]
  BY AppendProperties
<1> HIDE DEF n, b
<1>3. n <= Len(s) => SubSeq(b, 1, n) = SubSeq(s, 1, n)
  <2> SUFFICES ASSUME n <= Len(s) PROVE SubSeq(b, 1, n) = SubSeq(s, 1, n)
    OBVIOUS
  <2>1. \A i \in 1..n : s[i] \in Result /\ b[i] = s[i] /\ b[i] \in Result
    <3> SUFFICES ASSUME NEW i \in 1..n PROVE s[i] \in Result /\ b[i] = s[i]
      OBVIOUS
    <3>1. i \in 1..Len(s)
      BY <1>1
    <3> QED BY <1>2, <3>1, ElementOfSeq
  <2>2. 1 \in Int /\ n \in Int
    BY <1>1
  <2>3. /\ SubSeq(s, 1, n) \in Seq(Result) /\ Len(SubSeq(s, 1, n)) = IF 1 <= n THEN n - 1 + 1 ELSE 0
        /\ \A i \in 1..n - 1 + 1 : SubSeq(s, 1, n)[i] = s[1 + i - 1]
    BY <2>1, <2>2, SubSeqProperties
  <2>4. /\ SubSeq(b, 1, n) \in Seq(Result) /\ Len(SubSeq(b, 1, n)) = IF 1 <= n THEN n - 1 + 1 ELSE 0
        /\ \A i \in 1..n - 1 + 1 : SubSeq(b, 1, n)[i] = b[1 + i - 1]
    BY <2>1, <2>2, SubSeqProperties
  <2> DEFINE x == SubSeq(b, 1, n)
             y == SubSeq(s, 1, n)
  <2>5. x \in Seq(Result) /\ y \in Seq(Result) /\ Len(x) = n /\ Len(y) = n
    BY <1>1, <2>3, <2>4
  <2>6. \A i \in 1..n : x[i] = y[i]
    <3> SUFFICES ASSUME NEW i \in 1..n PROVE x[i] = y[i]
      OBVIOUS
    <3>1. i \in 1..n - 1 + 1 /\ 1 + i - 1 = i
      BY <1>1
    <3> QED BY <2>1, <2>3, <2>4, <3>1
  <2> HIDE DEF x, y
  <2>7. x = y
    BY <2>5, <2>6, SeqEqual
  <2> QED BY <2>7 DEF x, y
<1>4. Start(c, s) => Start(c, b)
  BY <1>1, <1>2, <1>3 DEF Start, n
<1>5. RowInOrder(c, b, j, ov)
  BY <1>4 DEF RowInOrder
<1> QED BY <1>5 DEF b

LEMMA UnwatchedInOrder ==
    ASSUME NEW s, NEW j, NEW ov
    PROVE  RowInOrder(Departed, s, j, ov) /\ RowInOrder(Unwatched, s, j, ov)
  BY DEF RowInOrder, Departed, Unwatched

\* A ticket is made once, for a user, and its job is past the collecting.
TicketsMade == \A j \in Jobs : tickets[j] # "none" =>
                   request[j].from = "user" /\ phase[j] \notin {"new", "checked", "collected"}

\* Before its ticket is used, a job was watched by nobody.
TicketsUnused == \A j \in Jobs : tickets[j] \in {"none", "minted", "issued"} => conn[j] = Unwatched

RowsInOrder == \A j \in Jobs : RowInOrder(conn[j], cache[j], j, overtaken)

StreamInv == InferenceTyped /\ TicketsMade /\ TicketsUnused /\ RowsInOrder

LEMMA StreamFollows == ASSUME StreamInv PROVE StreamInOrder
<1> SUFFICES ASSUME NEW j \in Jobs
             PROVE  /\ Active(j) => Len(conn[j].sent) + Len(conn[j].todo) = Len(cache[j])
                    /\ Active(j) /\ j \notin overtaken => conn[j].sent \o conn[j].todo = cache[j]
                    /\ conn[j].at = "closed" =>
                           /\ \E i \in DOMAIN conn[j].sent : Final(conn[j].sent[i])
                           /\ j \notin overtaken => conn[j].sent = SubSeq(cache[j], 1, Len(conn[j].sent))
  BY DEF StreamInOrder
<1> QED BY DEF StreamInv, RowsInOrder, RowInOrder, Complete, Ordered, Start, HasFinal, Active

LEMMA JobsStreamStep ==
    ASSUME StreamInv, JobsNext, UNCHANGED streamVars
    PROVE  TicketsMade' /\ TicketsUnused' /\ RowsInOrder'
<1>0. UNCHANGED <<cache, conn, overtaken>> /\ tickets \in [Jobs -> {"none", "minted", "issued", "gone"}]
      /\ phase \in [Jobs -> Phases]
  BY DEF streamVars, StreamInv, InferenceTyped, JobsTyped, ChannelsTypeOK, RequestRows
<1>1. RowsInOrder'
  BY <1>0 DEF StreamInv, RowsInOrder
<1>2. ASSUME NEW j \in Jobs, Orchestrate(j) PROVE TicketsMade' /\ TicketsUnused'
  <2>1. request' = request
    BY <1>2 DEF Orchestrate, Accept, Collect, CollectFails, NodeFails, FilesFail, ToolsFail, MemoryFails,
         ChunksFail, GenerateTicket, PublishJob, PublishJobFails, Respond, OrchestratorDies, restVars
  <2>2. ASSUME NEW from, NEW to, Moves(j, from, to), tickets' = tickets,
               from \in {"new", "checked", "collected"} \/ to \notin {"new", "checked", "collected"}
        PROVE  TicketsMade' /\ TicketsUnused'
    BY <1>0, <2>1, <2>2 DEF StreamInv, TicketsMade, TicketsUnused, Moves
  <2>3. CASE Accept(j)
    BY <2>2, <2>3 DEF Accept, channelVars
  <2>4. CASE Collect(j)
    BY <2>2, <2>4 DEF Collect, channelVars
  <2>5. CASE NodeFails(j) \/ FilesFail(j) \/ ToolsFail(j) \/ MemoryFails(j) \/ ChunksFail(j)
    BY <2>2, <2>5 DEF NodeFails, FilesFail, ToolsFail, MemoryFails, ChunksFail, CollectFails, channelVars
  <2>6. CASE PublishJob(j) \/ PublishJobFails(j)
    BY <2>2, <2>6 DEF PublishJob, PublishJobFails
  <2>7. CASE GenerateTicket(j)
    <3>1. /\ request[j].from = "user" /\ Moves(j, "collected", "ticketed")
          /\ tickets' = [tickets EXCEPT ![j] = "minted"]
      BY <2>7 DEF GenerateTicket
    <3>2. tickets[j] = "none"
      BY <3>1 DEF StreamInv, TicketsMade, Moves
    <3>3. conn[j] = Unwatched
      BY <3>2 DEF StreamInv, TicketsUnused
    <3> QED BY <1>0, <2>1, <3>1, <3>3 DEF StreamInv, TicketsMade, TicketsUnused, Moves
  <2>8. CASE Respond(j)
    <3>1. /\ Moves(j, "queued", "done")
          /\ tickets' = tickets \/ tickets' = [tickets EXCEPT ![j] = IF @ = "minted" THEN "issued" ELSE @]
      BY <2>8 DEF Respond
    <3> QED BY <1>0, <2>1, <3>1 DEF StreamInv, TicketsMade, TicketsUnused, Moves
  <2>9. CASE OrchestratorDies(j)
    <3>1. /\ phase' = [phase EXCEPT ![j] = IF request[j].from = "user" THEN "abandoned" ELSE "new"]
          /\ tickets' = tickets
      BY <2>9 DEF OrchestratorDies
    <3> QED BY <1>0, <2>1, <3>1 DEF StreamInv, TicketsMade, TicketsUnused
  <2> QED BY <1>2, <2>3, <2>4, <2>5, <2>6, <2>7, <2>8, <2>9 DEF Orchestrate
<1>3. ASSUME ~(\E j \in Jobs : Orchestrate(j)) PROVE UNCHANGED <<request, phase, tickets>>
  <2>1. \A j \in Jobs : Cancel(j) => UNCHANGED <<request, phase, tickets>>
    BY DEF Cancel, ReadOwner, Broadcast, OnCancellation, channelVars, orchestratorVars
  <2>2. \A t \in Tasks, j \in Jobs : Deliver(t, j) => UNCHANGED <<request, phase, tickets>>
    BY DEF Deliver, channelVars, orchestratorVars
  <2>3. \A t \in Tasks : Process(t) => UNCHANGED <<request, phase, tickets>>
    BY DEF Process, Build, Invoke, StreamChunk, StreamEnds, Break, Answer, Remember, Ack, Interrupted, Err, Publishes,
           channelVars, orchestratorVars
  <2>4. ExecutorDies => UNCHANGED <<request, phase, tickets>>
    BY DEF ExecutorDies, orchestratorVars
  <2> QED BY <1>3, <2>1, <2>2, <2>3, <2>4 DEF JobsNext
<1>4. ASSUME UNCHANGED <<request, phase, tickets>> PROVE TicketsMade' /\ TicketsUnused'
  BY <1>0, <1>4 DEF StreamInv, TicketsMade, TicketsUnused
<1> QED BY <1>1, <1>2, <1>3, <1>4

LEMMA StreamStep ==
    ASSUME StreamInv, StreamNext, UNCHANGED jobVars
    PROVE  TicketsMade' /\ TicketsUnused' /\ RowsInOrder'
<1>0. /\ UNCHANGED <<request, phase>> /\ StreamTypeOK
      /\ tickets \in [Jobs -> {"none", "minted", "issued", "gone"}] /\ wire \in [Jobs -> Seq(Result)]
      /\ conn \in [Jobs -> Connection] /\ cache \in [Jobs -> Seq(Result)]
  BY DEF jobVars, StreamInv, InferenceTyped, JobsTyped, ChannelsTypeOK, StreamTypeOK
<1>1. \A j \in Jobs : RowInOrder(conn[j], cache[j], j, overtaken)
  BY DEF StreamInv, RowsInOrder
<1>2. TicketsMade'
  <2>1. tickets' = tickets \/ \E j \in Jobs : tickets[j] # "none" /\ tickets' = [tickets EXCEPT ![j] = "gone"]
    <3>1. \A j \in Jobs : Connect(j) \/ ExpireTicket(j) => tickets[j] # "none" /\ tickets' = [tickets EXCEPT ![j] = "gone"]
      BY DEF Connect, ExpireTicket
    <3>2. \A j \in Jobs : Replay(j) \/ ClientLeaves(j) \/ OnMessage(j) => tickets' = tickets
      BY DEF Replay, Register, ReplayOne, ReplayEnds, ClientLeaves, OnMessage, channelVars
    <3>3. StreamRestarts => tickets' = tickets
      BY DEF StreamRestarts
    <3> QED BY <3>1, <3>2, <3>3 DEF StreamNext
  <2> QED BY <1>0, <2>1 DEF StreamInv, TicketsMade
\* One client's connection has a new row, and its job no ticket any more.
<1>3. ASSUME NEW j \in Jobs, NEW row \in Connection, conn' = [conn EXCEPT ![j] = row],
             tickets' = tickets \/ tickets' = [tickets EXCEPT ![j] = "gone"],
             tickets'[j] = "gone", cache' = cache, overtaken' = overtaken,
             RowInOrder(row, cache[j], j, overtaken)
      PROVE  TicketsUnused' /\ RowsInOrder'
  <2>1. conn'[j] = row /\ \A k \in Jobs \ {j} : conn'[k] = conn[k]
    BY <1>0, <1>3
  <2>2. RowsInOrder'
    BY <1>1, <1>3, <2>1 DEF RowsInOrder
  <2>3. TicketsUnused'
    BY <1>0, <1>3, <2>1 DEF StreamInv, TicketsUnused
  <2> QED BY <2>2, <2>3
<1>4. ASSUME NEW j \in Jobs, conn[j].at # "none" PROVE tickets[j] = "gone"
  BY <1>0, <1>4 DEF StreamInv, TicketsUnused, Unwatched
<1>5. ASSUME NEW j \in Jobs, Connect(j) PROVE TicketsUnused' /\ RowsInOrder'
  <2>1. conn[j] = Unwatched
    BY <1>5 DEF Connect, StreamInv, TicketsUnused
  <2>2. conn' = [conn EXCEPT ![j] = AcceptedRow(conn[j])] /\ AcceptedRow(conn[j]) \in Connection
    BY <1>0, <1>5, ConnRows, RowsTyped
  <2>3. RowInOrder(AcceptedRow(conn[j]), cache[j], j, overtaken)
    BY <2>1 DEF RowInOrder, AcceptedRow, Unwatched
  <2>4. tickets' = [tickets EXCEPT ![j] = "gone"] /\ cache' = cache /\ overtaken' = overtaken
    BY <1>5 DEF Connect
  <2>5. tickets'[j] = "gone"
    BY <1>0, <2>4
  <2> HIDE DEF AcceptedRow
  <2> QED BY <1>3, <2>2, <2>3, <2>4, <2>5
<1>6. ASSUME NEW j \in Jobs, ExpireTicket(j) PROVE TicketsUnused' /\ RowsInOrder'
  <2>1. tickets' = [tickets EXCEPT ![j] = "gone"] /\ UNCHANGED <<cache, conn, overtaken>>
    BY <1>6 DEF ExpireTicket, streamVars
  <2> QED BY <1>0, <1>1, <2>1 DEF StreamInv, TicketsUnused, RowsInOrder
<1>7. ASSUME NEW j \in Jobs, Register(j) PROVE TicketsUnused' /\ RowsInOrder'
  <2>1. conn[j].at = "accepting" /\ UNCHANGED <<tickets, cache, overtaken>>
    BY <1>7 DEF Register, channelVars
  <2>2. conn' = [conn EXCEPT ![j] = RegisteredRow(conn[j], cache[j])] /\ RegisteredRow(conn[j], cache[j]) \in Connection
    BY <1>0, <1>7, ConnRows, RowsTyped
  <2>3. RowInOrder(RegisteredRow(conn[j], cache[j]), cache[j], j, overtaken)
    <3>1. conn[j] \in Connection /\ cache[j] \in Seq(Result)
      BY <1>0
    <3> QED BY <1>1, <2>1, <3>1, RegisteredInOrder
  <2> QED BY <1>3, <1>4, <2>1, <2>2, <2>3
<1>8. ASSUME NEW j \in Jobs, ReplayOne(j) PROVE TicketsUnused' /\ RowsInOrder'
  <2>1. conn[j].at = "replaying" /\ conn[j].todo # <<>> /\ UNCHANGED <<tickets, cache, overtaken>>
    BY <1>8 DEF ReplayOne, channelVars
  <2>2. conn' = [conn EXCEPT ![j] = ReplayedRow(conn[j])] /\ ReplayedRow(conn[j]) \in Connection
    BY <1>0, <1>8, <2>1, ConnRows, RowsTyped
  <2>3. RowInOrder(ReplayedRow(conn[j]), cache[j], j, overtaken)
    <3>1. conn[j] \in Connection /\ cache[j] \in Seq(Result) /\ Waits(conn[j])
      BY <1>0, <2>1 DEF Waits
    <3> QED BY <1>1, <2>1, <3>1, ReplayedInOrder
  <2> QED BY <1>3, <1>4, <2>1, <2>2, <2>3
<1>9. ASSUME NEW j \in Jobs, ReplayEnds(j) PROVE TicketsUnused' /\ RowsInOrder'
  <2>1. conn[j].at = "replaying" /\ conn[j].todo = <<>> /\ UNCHANGED <<tickets, cache, overtaken>>
    BY <1>9 DEF ReplayEnds, channelVars
  <2>2. conn' = [conn EXCEPT ![j] = DoneRow(conn[j])] /\ DoneRow(conn[j]) \in Connection
    BY <1>0, <1>9, ConnRows, RowsTyped
  <2>3. RowInOrder(DoneRow(conn[j]), cache[j], j, overtaken)
    <3>1. conn[j] \in Connection /\ cache[j] \in Seq(Result)
      BY <1>0
    <3> QED BY <1>1, <2>1, <3>1, DoneInOrder
  <2> QED BY <1>3, <1>4, <2>1, <2>2, <2>3
<1>10. ASSUME NEW j \in Jobs, ClientLeaves(j) PROVE TicketsUnused' /\ RowsInOrder'
  <2>1. conn[j].at # "none" /\ conn' = [conn EXCEPT ![j] = Departed] /\ UNCHANGED <<tickets, cache, overtaken>>
    BY <1>10 DEF ClientLeaves, Active, channelVars
  <2> HIDE DEF Departed
  <2> QED BY <1>3, <1>4, <2>1, UnwatchedInOrder, UnwatchedTyped
<1>11. ASSUME NEW j \in Jobs, OnMessage(j) PROVE TicketsUnused' /\ RowsInOrder'
  <2> DEFINE r == Head(wire[j])
  <2>1. r \in Result
    <3>1. wire[j] \in Seq(Result) /\ wire[j] # <<>>
      BY <1>0, <1>11 DEF OnMessage
    <3> QED BY <3>1, HeadTailProperties
  <2>2. CASE r.graph
    <3>1. UNCHANGED <<tickets, cache, conn, overtaken>>
      BY <1>11, <2>2 DEF OnMessage, streamVars
    <3> QED BY <1>1, <3>1 DEF StreamInv, TicketsUnused, RowsInOrder
  <2>3. CASE ~r.graph
    <3>1. /\ cache' = [cache EXCEPT ![j] = Append(@, r)] /\ tickets' = tickets
          /\ overtaken' = IF Active(j) /\ conn[j].todo # <<>> THEN overtaken \cup {j} ELSE overtaken
          /\ ~Active(j) => conn' = conn
      BY <1>11, <2>3 DEF OnMessage
    <3>2. Active(j) => conn' = [conn EXCEPT ![j] = ToldRow(conn[j], r)]
      BY <1>0, <1>11, <2>3, ConnRows
    <3> HIDE DEF r
    <3>3. /\ cache'[j] = Append(cache[j], r) /\ \A k \in Jobs \ {j} : cache'[k] = cache[k]
          /\ conn[j] \in Connection /\ cache[j] \in Seq(Result)
      BY <1>0, <3>1
    <3>4. \A k \in Jobs \ {j} : k \in overtaken' <=> k \in overtaken
      BY <3>1
    <3>5. \A k \in Jobs \ {j} : conn'[k] = conn[k]
      BY <1>0, <3>1, <3>2
    <3>6. RowInOrder(conn'[j], cache'[j], j, overtaken')
      <4>1. CASE Active(j)
        <5>1. conn'[j] = ToldRow(conn[j], r)
          BY <1>0, <3>2, <4>1
        <5>2. j \in overtaken' <=> (j \in overtaken \/ Waits(conn[j]))
          BY <3>1, <4>1 DEF Waits
        <5>3. conn[j].at \in {"replaying", "live"}
          BY <4>1 DEF Active
        <5>4. RowInOrder(ToldRow(conn[j], r), Append(cache[j], r), j, overtaken')
          BY <1>1, <2>1, <3>3, <5>2, <5>3, ToldInOrder
        <5> QED BY <3>3, <5>1, <5>4
      <4>2. CASE ~Active(j)
        <5>1. conn' = conn /\ overtaken' = overtaken /\ conn[j].at \notin {"replaying", "live"}
          BY <3>1, <4>2 DEF Active
        <5>2. RowInOrder(conn[j], Append(cache[j], r), j, overtaken)
          BY <1>1, <2>1, <3>3, <5>1, CachedInOrder
        <5> QED BY <3>3, <5>1, <5>2
      <4> QED BY <4>1, <4>2
    <3>7. RowsInOrder'
      <4> SUFFICES ASSUME NEW k \in Jobs PROVE RowInOrder(conn'[k], cache'[k], k, overtaken')
        BY DEF RowsInOrder
      <4>1. CASE k # j
        <5>1. RowInOrder(conn[k], cache[k], k, overtaken)
          BY <1>1
        <5> QED BY <3>3, <3>4, <3>5, <4>1, <5>1 DEF RowInOrder
      <4> QED BY <3>6, <4>1
    <3>8. TicketsUnused'
      <4> SUFFICES ASSUME NEW k \in Jobs, tickets[k] \in {"none", "minted", "issued"} PROVE conn'[k] = Unwatched
        BY <3>1 DEF TicketsUnused
      <4>1. conn[k] = Unwatched
        BY DEF StreamInv, TicketsUnused
      <4>2. k = j => ~Active(j)
        BY <4>1 DEF Active, Unwatched
      <4> QED BY <3>1, <3>5, <4>1, <4>2
    <3> QED BY <3>7, <3>8
  <2> QED BY <2>2, <2>3
<1>12. ASSUME StreamRestarts PROVE TicketsUnused' /\ RowsInOrder'
  <2>1. /\ UNCHANGED <<tickets, cache, overtaken>>
        /\ conn' = [j \in Jobs |-> IF conn[j].at = "accepting" \/ Active(j) THEN Departed ELSE conn[j]]
    BY <1>12 DEF StreamRestarts
  <2>2. RowsInOrder'
    BY <1>1, <2>1, UnwatchedInOrder DEF RowsInOrder
  <2>3. TicketsUnused'
    <3> SUFFICES ASSUME NEW k \in Jobs, tickets[k] \in {"none", "minted", "issued"} PROVE conn'[k] = Unwatched
      BY <2>1 DEF TicketsUnused
    <3>1. conn[k] = Unwatched
      BY DEF StreamInv, TicketsUnused
    <3> QED BY <2>1, <3>1 DEF Active, Unwatched
  <2> QED BY <2>2, <2>3
<1> QED BY <1>2, <1>5, <1>6, <1>7, <1>8, <1>9, <1>10, <1>11, <1>12 DEF StreamNext, Replay

LEMMA StreamInvInit == ASSUME NEW over, Started(over) PROVE StreamInv
<1> SUFFICES TicketsMade /\ TicketsUnused /\ RowsInOrder
  BY StartTyped DEF StreamInv
<1>1. tickets = [j \in Jobs |-> "none"] /\ conn = [j \in Jobs |-> Unwatched]
  BY DEF Started, ChannelsInit, StreamInit
<1>2. TicketsMade /\ TicketsUnused
  BY <1>1 DEF TicketsMade, TicketsUnused
<1>3. RowsInOrder
  BY <1>1, UnwatchedInOrder DEF RowsInOrder
<1> QED BY <1>2, <1>3

LEMMA StreamInvStep == ASSUME StreamInv, [InferenceNext]_inferenceVars PROVE StreamInv'
<1>0. InferenceTyped'
  BY InferenceStepTyped DEF StreamInv
<1>1. CASE JobsNext /\ UNCHANGED <<streamVars, memoryVars>>
  BY <1>0, <1>1, JobsStreamStep DEF StreamInv
<1>2. CASE StreamNext /\ UNCHANGED <<jobVars, memoryVars>>
  BY <1>0, <1>2, StreamStep DEF StreamInv
<1>3. CASE (MemoryNext /\ UNCHANGED <<jobVars, streamVars>>) \/ UNCHANGED inferenceVars
  <2>1. UNCHANGED <<request, phase, cache, conn, overtaken>>
    BY <1>3 DEF jobVars, streamVars, inferenceVars
  <2>2. UNCHANGED tickets
    <3>1. UNCHANGED inferenceVars => UNCHANGED tickets
      BY DEF inferenceVars, channelVars
    <3>2. \A c \in Consumers : ConsumerNext(c) => UNCHANGED tickets
      BY DEF ConsumerNext, TakeUpdate, StoreUpdate, StoreFails, AckUpdate, ConsumerDies, channelVars
    <3>3. ClearBucket \/ DeleteBucket => UNCHANGED tickets
      BY DEF ClearBucket, DeleteBucket, channelVars
    <3>4. \A i : DeleteMessage(i) => UNCHANGED tickets
      BY DEF DeleteMessage, channelVars
    <3>5. \A e : EditorNext(e) => UNCHANGED tickets
      BY DEF EditorNext, LoadBucket, SaveBucket, channelVars
    <3> QED BY <1>3, <3>1, <3>2, <3>3, <3>4, <3>5 DEF MemoryNext
  <2> QED BY <1>0, <2>1, <2>2 DEF StreamInv, TicketsMade, TicketsUnused, RowsInOrder
<1> QED BY <1>1, <1>2, <1>3 DEF InferenceNext

\* Whatever is delivered, replayed and restarted in between: a client that is connected has
\* been sent, or will be, all that is cached for its job, each result once.
THEOREM StreamsStayInOrder == InferenceSpec => []StreamInOrder
<1>0. InferenceInit => StreamInv
  BY InferenceStarted, StreamInvInit
<1>1. StreamInv /\ [InferenceNext]_inferenceVars => StreamInv'
  BY StreamInvStep
<1>2. InferenceSpec => []StreamInv
  BY <1>0, <1>1, PTL DEF InferenceSpec
<1>3. StreamInv => StreamInOrder
  BY StreamFollows
<1> QED BY <1>2, <1>3, PTL

-----------------------------------------------------------------------------
(* MemoryWhole.                                                            *)

Question(j) == [job |-> j, role |-> "user", keyed |-> TRUE]
Reply(j) == [job |-> j, role |-> "assistant", keyed |-> FALSE]

\* The turn of j is at i and i + 1 of s, and j has no other message there.
TurnAt(s, j, i) ==
    /\ i \in 1..Len(s) /\ i + 1 \in 1..Len(s)
    /\ s[i] = Question(j) /\ s[i + 1] = Reply(j)
    /\ \A k \in 1..Len(s) : s[k].job = j => k = i \/ k = i + 1

Absent(s, j) == \A k \in 1..Len(s) : s[k].job # j

TurnsWhole(s, removed) == \A j \in Jobs \ removed : Absent(s, j) \/ \E i \in 1..Len(s) : TurnAt(s, j, i)

\* Questions are at the odd places, and there are as many answers.
Alternates(s) == \E n \in Nat : Len(s) = 2 * n /\ \A m \in 1..n : s[2 * m - 1].role = "user"

MemoryCore ==
    /\ TurnsWhole(conversation, handled)
    /\ handled = {} => Alternates(conversation)
    /\ bucket.count = Len(conversation) \/ miscounted

\* What is stored behind a conversation.
LEMMA Stores ==
    ASSUME NEW s \in Seq(Message), NEW j \in Jobs, NEW r, r = s \o Turn(j)
    PROVE  /\ r \in Seq(Message) /\ Len(r) = Len(s) + 2 /\ Len(s) \in Nat
           /\ \A k \in 1..Len(s) : r[k] = s[k]
           /\ r[Len(s) + 1] = Question(j) /\ r[Len(s) + 2] = Reply(j)
<1> DEFINE u == Turn(j)
<1>1. u \in Seq(Message) /\ Len(u) = 2 /\ u[1] = Question(j) /\ u[2] = Reply(j)
  BY TurnType DEF Question, Reply
<1>2. r = s \o u
  OBVIOUS
<1> HIDE DEF u
<1>3. /\ s \o u \in Seq(Message) /\ Len(s \o u) = Len(s) + Len(u)
      /\ \A m \in 1..Len(s) + Len(u) : (s \o u)[m] = IF m <= Len(s) THEN s[m] ELSE u[m - Len(s)]
  BY <1>1, ConcatProperties
<1>4. Len(s) \in Nat
  BY LenProperties
<1>5. ASSUME NEW k \in 1..Len(s) PROVE r[k] = s[k]
  <2>1. k \in 1..Len(s) + Len(u) /\ k <= Len(s)
    BY <1>1, <1>4
  <2> QED BY <1>2, <1>3, <2>1
<1>6. r[Len(s) + 1] = u[1]
  <2>1. Len(s) + 1 \in 1..Len(s) + Len(u) /\ ~(Len(s) + 1 <= Len(s)) /\ (Len(s) + 1) - Len(s) = 1
    BY <1>1, <1>4
  <2> QED BY <1>2, <1>3, <2>1
<1>7. r[Len(s) + 2] = u[2]
  <2>1. Len(s) + 2 \in 1..Len(s) + Len(u) /\ ~(Len(s) + 2 <= Len(s)) /\ (Len(s) + 2) - Len(s) = 2
    BY <1>1, <1>4
  <2> QED BY <1>2, <1>3, <2>1
<1> QED BY <1>1, <1>2, <1>3, <1>4, <1>5, <1>6, <1>7

LEMMA StoringKeepsTurns ==
    ASSUME NEW s \in Seq(Message), NEW j \in Jobs, NEW r, r = s \o Turn(j), NEW removed,
           TurnsWhole(s, removed), \A i \in 1..Len(s) : ~(s[i].job = j /\ s[i].keyed)
    PROVE  TurnsWhole(r, removed)
<1>1. /\ Len(r) = Len(s) + 2 /\ Len(s) \in Nat
      /\ \A k \in 1..Len(s) : r[k] = s[k]
      /\ r[Len(s) + 1] = Question(j) /\ r[Len(s) + 2] = Reply(j)
  BY Stores
<1>2. Question(j).job = j /\ Question(j).keyed /\ Reply(j).job = j
  BY DEF Question, Reply
<1>3. \A k \in 1..Len(r) : k \in 1..Len(s) \/ k = Len(s) + 1 \/ k = Len(s) + 2
  BY <1>1
<1> SUFFICES ASSUME NEW l \in Jobs \ removed PROVE Absent(r, l) \/ \E i \in 1..Len(r) : TurnAt(r, l, i)
  BY DEF TurnsWhole
<1>4. CASE l = j
  <2>1. Absent(s, j)
    <3>1. ASSUME NEW i \in 1..Len(s), TurnAt(s, j, i) PROVE FALSE
      BY <1>2, <3>1 DEF TurnAt
    <3> QED BY <1>4, <3>1 DEF TurnsWhole
  <2> DEFINE i == Len(s) + 1
  <2>2. i \in 1..Len(r) /\ i + 1 \in 1..Len(r) /\ i + 1 = Len(s) + 2
    BY <1>1
  <2>3. \A k \in 1..Len(r) : r[k].job = j => k = i \/ k = i + 1
    BY <1>1, <1>3, <2>1, <2>2 DEF Absent
  <2>4. r[i] = Question(j) /\ r[i + 1] = Reply(j)
    BY <1>1, <2>2
  <2> HIDE DEF i
  <2>5. TurnAt(r, j, i)
    BY <2>2, <2>3, <2>4 DEF TurnAt
  <2> QED BY <1>4, <2>2, <2>5
<1>5. CASE l # j
  <2>1. CASE Absent(s, l)
    <3>1. Absent(r, l)
      BY <1>1, <1>2, <1>3, <1>5, <2>1 DEF Absent
    <3> QED BY <3>1
  <2>2. ASSUME NEW i \in 1..Len(s), TurnAt(s, l, i) PROVE \E n \in 1..Len(r) : TurnAt(r, l, n)
    <3>1. i \in 1..Len(r) /\ i + 1 \in 1..Len(r) /\ i + 1 \in 1..Len(s)
      BY <1>1, <2>2 DEF TurnAt
    <3>2. r[i] = Question(l) /\ r[i + 1] = Reply(l)
      BY <1>1, <2>2, <3>1 DEF TurnAt
    <3>3. \A k \in 1..Len(r) : r[k].job = l => k = i \/ k = i + 1
      BY <1>1, <1>2, <1>3, <1>5, <2>2 DEF TurnAt
    <3>4. TurnAt(r, l, i)
      BY <3>1, <3>2, <3>3 DEF TurnAt
    <3> QED BY <3>1, <3>4
  <2> QED BY <2>1, <2>2 DEF TurnsWhole
<1> QED BY <1>4, <1>5

LEMMA StoringAlternates ==
    ASSUME NEW s \in Seq(Message), NEW j \in Jobs, NEW r, r = s \o Turn(j), Alternates(s)
    PROVE  Alternates(r)
<1>1. /\ Len(r) = Len(s) + 2 /\ Len(s) \in Nat
      /\ \A k \in 1..Len(s) : r[k] = s[k]
      /\ r[Len(s) + 1] = Question(j)
  BY Stores
<1>2. PICK n \in Nat : Len(s) = 2 * n /\ \A m \in 1..n : s[2 * m - 1].role = "user"
  BY DEF Alternates
<1>3. n + 1 \in Nat /\ Len(r) = 2 * (n + 1)
  BY <1>1, <1>2
<1>4. ASSUME NEW m \in 1..(n + 1) PROVE r[2 * m - 1].role = "user"
  <2>1. CASE m \in 1..n
    <3>1. 2 * m - 1 \in 1..Len(s)
      BY <1>2, <2>1
    <3> QED BY <1>1, <1>2, <2>1, <3>1
  <2>2. CASE m = n + 1
    <3>1. 2 * m - 1 = Len(s) + 1
      BY <1>2, <2>2
    <3> QED BY <1>1, <3>1 DEF Question
  <2>3. m \in 1..n \/ m = n + 1
    BY <1>2, <1>4
  <2> QED BY <2>1, <2>2, <2>3
<1> QED BY <1>3, <1>4 DEF Alternates

LEMMA RemovingKeepsTurns ==
    ASSUME NEW s \in Seq(Message), NEW d \in 1..Len(s),
           NEW r, r = SubSeq(s, 1, d - 1) \o SubSeq(s, d + 1, Len(s)),
           NEW removed, TurnsWhole(s, removed)
    PROVE  TurnsWhole(r, removed \cup {s[d].job})
<1>1. /\ Len(r) = Len(s) - 1 /\ Len(s) \in Nat
      /\ \A k \in 1..(Len(s) - 1) : k < d => r[k] = s[k]
      /\ \A k \in 1..(Len(s) - 1) : k >= d => r[k] = s[k + 1]
  BY Removal, LenProperties
<1> DEFINE n == Len(s)
<1>2. n \in Nat /\ Len(r) = n - 1 /\ d \in 1..n
  BY <1>1
<1>3. \A k \in 1..(n - 1) : (k < d => r[k] = s[k]) /\ (k >= d => r[k] = s[k + 1])
  BY <1>1
<1> SUFFICES ASSUME NEW j \in Jobs \ removed, s[d].job # j
             PROVE  Absent(r, j) \/ \E i \in 1..Len(r) : TurnAt(r, j, i)
  BY DEF TurnsWhole
<1>4. CASE Absent(s, j)
  <2>1. ASSUME NEW k \in 1..(n - 1) PROVE r[k].job # j
    <3> HIDE DEF n
    <3>1. k \in 1..(n - 1) /\ k \in 1..n /\ k + 1 \in 1..n
      BY <1>2
    <3>2. k < d \/ k >= d
      BY <1>2, <3>1
    <3>3. r[k] = s[k] \/ r[k] = s[k + 1]
      BY <1>3, <3>1, <3>2
    <3>4. \A m \in 1..n : s[m].job # j
      BY <1>4 DEF Absent, n
    <3> QED BY <3>1, <3>3, <3>4
  <2> QED BY <1>2, <2>1 DEF Absent
<1>5. ASSUME NEW i \in 1..Len(s), TurnAt(s, j, i) PROVE \E p \in 1..Len(r) : TurnAt(r, j, p)
  <2>1. /\ i \in 1..n /\ i + 1 \in 1..n /\ s[i] = Question(j) /\ s[i + 1] = Reply(j)
        /\ \A k \in 1..n : s[k].job = j => k = i \/ k = i + 1
    BY <1>5 DEF TurnAt
  <2>2. d # i /\ d # i + 1
    <3>1. s[i].job = j /\ s[i + 1].job = j
      BY <2>1 DEF Question, Reply
    <3> QED BY <3>1
  <2>3. CASE i + 1 < d
    <3>1. i \in 1..(n - 1) /\ i + 1 \in 1..(n - 1) /\ i < d
      BY <1>2, <2>1, <2>3
    <3>2. r[i] = Question(j) /\ r[i + 1] = Reply(j)
      BY <1>3, <2>1, <2>3, <3>1
    <3>3. ASSUME NEW k \in 1..(n - 1), r[k].job = j PROVE k = i \/ k = i + 1
      <4>1. CASE k < d
        <5>1. s[k].job = j /\ k \in 1..n
          BY <1>2, <1>3, <3>3, <4>1
        <5> QED BY <2>1, <5>1
      <4>2. CASE ~(k < d)
        <5>1. k >= d /\ k + 1 \in 1..n
          BY <1>2, <4>2
        <5>2. s[k + 1].job = j
          BY <1>3, <3>3, <5>1
        <5>3. k + 1 = i \/ k + 1 = i + 1
          BY <2>1, <5>1, <5>2
        <5> QED BY <1>2, <2>1, <2>3, <5>1, <5>3
      <4> QED BY <4>1, <4>2
    <3>4. TurnAt(r, j, i)
      BY <1>2, <3>1, <3>2, <3>3 DEF TurnAt
    <3> QED BY <1>2, <3>1, <3>4
  <2>4. CASE d < i
    <3> DEFINE p == i - 1
    <3>1. p \in 1..(n - 1) /\ p + 1 \in 1..(n - 1) /\ p >= d /\ p + 1 >= d /\ p + 1 = i
      BY <1>2, <2>1, <2>4
    <3>2. r[p] = s[p + 1] /\ r[p + 1] = s[(p + 1) + 1]
      BY <1>3, <3>1
    <3>3. r[p] = Question(j) /\ r[p + 1] = Reply(j)
      BY <2>1, <3>1, <3>2
    <3>4. ASSUME NEW k \in 1..(n - 1), r[k].job = j PROVE k = p \/ k = p + 1
      <4>1. CASE k < d
        <5>1. s[k].job = j /\ k \in 1..n
          BY <1>2, <1>3, <3>4, <4>1
        <5>2. k = i \/ k = i + 1
          BY <2>1, <5>1
        <5> QED BY <1>2, <2>1, <2>4, <4>1, <5>2
      <4>2. CASE ~(k < d)
        <5>1. k >= d /\ k + 1 \in 1..n
          BY <1>2, <4>2
        <5>2. s[k + 1].job = j
          BY <1>3, <3>4, <5>1
        <5>3. k + 1 = i \/ k + 1 = i + 1
          BY <2>1, <5>1, <5>2
        <5> QED BY <2>1, <3>1, <5>3
      <4> QED BY <4>1, <4>2
    <3> HIDE DEF p
    <3>5. TurnAt(r, j, p)
      BY <1>2, <3>1, <3>3, <3>4 DEF TurnAt
    <3> QED BY <1>2, <3>1, <3>5
  <2>5. i + 1 < d \/ d < i
    BY <1>2, <2>1, <2>2
  <2> QED BY <2>3, <2>4, <2>5
<1> QED BY <1>4, <1>5 DEF TurnsWhole

\* A conversation of questions and answers in turn is read from a question on.
LEMMA HistoryStartsWithQuestion ==
    ASSUME conversation \in Seq(Message), Alternates(conversation), History # <<>>
    PROVE  History[1].role = "user"
<1> DEFINE s == conversation
           w == 2 * Window
           b == IF Len(s) > w THEN Len(s) - w + 1 ELSE 1
<1>1. PICK n \in Nat : Len(s) = 2 * n /\ \A m \in 1..n : s[2 * m - 1].role = "user"
  BY DEF Alternates
<1>2. Window \in Nat /\ w \in Nat /\ Len(s) \in Nat
  BY <1>1, MemoryAssumption
<1>3. History = SubSeq(s, b, Len(s))
  BY DEF History, Last
<1>4. b \in Int /\ b >= 1 /\ Len(s) \in Int
  BY <1>2
<1>5. \A i \in b..Len(s) : s[i] \in Message
  <2>1. \A i \in 1..Len(s) : s[i] \in Message
    BY ElementOfSeq
  <2> HIDE DEF b
  <2> QED BY <1>4, <2>1
<1>6. b <= Len(s)
  <2>1. Len(s) < b => SubSeq(s, b, Len(s)) = <<>>
    <3> HIDE DEF b, s
    <3> QED BY <1>4, SubSeqEmpty
  <2> HIDE DEF b
  <2> QED BY <1>3, <1>4, <2>1
<1>7. SubSeq(s, b, Len(s))[1] = s[b]
  <2> HIDE DEF b, s
  <2>1. \A i \in 1..Len(s)-b+1 : SubSeq(s, b, Len(s))[i] = s[b+i-1]
    BY <1>4, <1>5, SubSeqProperties
  <2>2. 1 \in 1..Len(s)-b+1 /\ b+1-1 = b
    BY <1>4, <1>6
  <2> QED BY <2>1, <2>2
<1>8. \E m \in 1..n : b = 2 * m - 1
  <2>1. CASE Len(s) > w
    <3>1. w = 2 * Window /\ b = 2 * n - 2 * Window + 1
      BY <1>1, <1>2, <2>1
    <3>2. n > Window
      BY <1>1, <1>2, <2>1
    <3> DEFINE m == n - Window + 1
    <3>3. m \in 1..(n + 1) /\ b = 2 * m - 1
      BY <1>1, <1>2, <3>1, <3>2
    <3>4. m # n + 1
      BY <1>1, <1>2, <1>6, <3>3
    <3> QED BY <1>1, <3>3, <3>4
  <2>2. CASE ~(Len(s) > w)
    <3>1. b = 1
      BY <2>2
    <3>2. 1 \in 1..n /\ b = 2 * 1 - 1
      BY <1>1, <1>6, <3>1
    <3> QED BY <3>2
  <2> QED BY <2>1, <2>2
<1>9. s[b].role = "user"
  BY <1>1, <1>8
<1> QED BY <1>3, <1>7, <1>9

LEMMA MemoryFollows == ASSUME MemoryTyped, MemoryCore PROVE MemoryWhole
<1>0. conversation \in Seq(Message)
  BY DEF MemoryTyped, MemoryTypeOK
<1>1. DOMAIN conversation = 1..Len(conversation) /\ Len(conversation) \in Nat
  BY <1>0, LenProperties
<1>2. ASSUME NEW j \in Jobs \ handled
      PROVE  MessagesOf(j) = {} \/ \E i \in MessagesOf(j) :
                 MessagesOf(j) = {i, i + 1} /\ SubSeq(conversation, i, i + 1) = Turn(j)
  <2>1. CASE Absent(conversation, j)
    BY <1>1, <2>1 DEF Absent, MessagesOf
  <2>2. ASSUME NEW i \in 1..Len(conversation), TurnAt(conversation, j, i)
        PROVE  i \in MessagesOf(j) /\ MessagesOf(j) = {i, i + 1} /\ SubSeq(conversation, i, i + 1) = Turn(j)
    <3> DEFINE s == conversation
    <3>1. /\ i + 1 \in 1..Len(s) /\ s[i] = Question(j) /\ s[i + 1] = Reply(j)
          /\ \A k \in 1..Len(s) : s[k].job = j => k = i \/ k = i + 1
      BY <2>2 DEF TurnAt
    <3>2. i \in MessagesOf(j) /\ MessagesOf(j) = {i, i + 1}
      BY <1>1, <3>1 DEF MessagesOf, Question, Reply
    <3>3. Question(j) \in Message /\ Reply(j) \in Message
      BY DEF Question, Reply, Message
    <3>4. \A k \in i..(i + 1) : s[k] \in Message
      <4>1. \A k \in i..(i + 1) : k = i \/ k = i + 1
        BY <1>1
      <4> QED BY <3>1, <3>3, <4>1
    <3>5. i \in Int /\ i + 1 \in Int /\ i <= i + 1
      BY <1>1
    <3> DEFINE u == SubSeq(s, i, i + 1)
    <3>6. u \in Seq(Message) /\ Len(u) = 2 /\ u[1] = s[i] /\ u[2] = s[i + 1]
      <4>1. /\ u \in Seq(Message) /\ Len(u) = (IF i <= i + 1 THEN (i + 1) - i + 1 ELSE 0)
            /\ \A k \in 1..(i + 1) - i + 1 : u[k] = s[i + k - 1]
        <5> HIDE DEF s
        <5> QED BY <3>4, <3>5, SubSeqProperties
      <4>2. 1 \in 1..(i + 1) - i + 1 /\ 2 \in 1..(i + 1) - i + 1 /\ i + 1 - 1 = i /\ i + 2 - 1 = i + 1
            /\ (i + 1) - i + 1 = 2
        BY <3>5
      <4> HIDE DEF u
      <4> QED BY <3>5, <4>1, <4>2
    <3> DEFINE v == Turn(j)
    <3>7. v \in Seq(Message) /\ Len(v) = 2 /\ v[1] = Question(j) /\ v[2] = Reply(j)
      BY TurnType DEF Question, Reply
    <3> HIDE DEF u, v
    <3>8. u = v
      <4>1. \A k \in 1..Len(u) : u[k] = v[k]
        BY <3>1, <3>6, <3>7
      <4> QED BY <3>6, <3>7, <4>1, SeqEqual
    <3> QED BY <3>2, <3>8 DEF u, v
  <2> QED BY <2>1, <2>2 DEF MemoryCore, TurnsWhole
<1>3. handled = {} /\ History # <<>> => History[1].role = "user"
  BY <1>0, HistoryStartsWithQuestion DEF MemoryCore
<1> QED BY <1>2, <1>3 DEF MemoryCore, MemoryWhole

LEMMA MemoryCoreStep == ASSUME MemoryTyped, MemoryCore, MemoryNext PROVE MemoryCore'
<1>0. conversation \in Seq(Message) /\ bucket \in MemoryBucket /\ ConsumerWell
  BY DEF MemoryTyped, MemoryTypeOK
<1>1. DOMAIN conversation = 1..Len(conversation) /\ Len(conversation) \in Nat
  BY <1>0, LenProperties
<1>2. ASSUME UNCHANGED <<bucket, conversation, handled, miscounted>> PROVE MemoryCore'
  BY <1>2 DEF MemoryCore
<1>3. ASSUME NEW c \in Consumers, StoreUpdate(c), bucket.open /\ ~Stored(consumer[c].job) PROVE MemoryCore'
  <2> DEFINE j == consumer[c].job
             r == conversation \o Turn(j)
  <2>1. /\ consumer[c].at = "checked" /\ conversation' = r /\ bucket' = [bucket EXCEPT !.count = Len(conversation')]
        /\ handled' = handled
    BY <1>3 DEF StoreUpdate
  <2>2. j \in Jobs
    BY <1>0, <2>1 DEF ConsumerWell
  <2>3. \A i \in 1..Len(conversation) : ~(conversation[i].job = j /\ conversation[i].keyed)
    BY <1>1, <1>3 DEF Stored
  <2>4. r = conversation \o Turn(j)
    OBVIOUS
  <2> HIDE DEF r, j
  <2>5. TurnsWhole(r, handled)
    BY <1>0, <2>2, <2>3, <2>4, StoringKeepsTurns DEF MemoryCore
  <2>6. handled = {} => Alternates(r)
    BY <1>0, <2>2, <2>4, StoringAlternates DEF MemoryCore
  <2>7. bucket'.count = Len(conversation')
    BY <1>0, <2>1 DEF MemoryBucket
  <2>8. TurnsWhole(conversation', handled') /\ (handled' = {} => Alternates(conversation'))
    BY <2>1, <2>5, <2>6
  <2> QED BY <2>7, <2>8 DEF MemoryCore, TurnsWhole, Alternates, Absent, TurnAt
<1>4. ASSUME NEW c \in Consumers, ConsumerNext(c) PROVE MemoryCore'
  <2>1. StoreUpdate(c) /\ ~(bucket.open /\ ~Stored(consumer[c].job)) => UNCHANGED <<bucket, conversation, handled, miscounted>>
    BY DEF StoreUpdate
  <2>2. (\E j \in Jobs : TakeUpdate(c, j)) \/ StoreFails(c) \/ AckUpdate(c) \/ ConsumerDies(c)
            => UNCHANGED <<bucket, conversation, handled, miscounted>>
    BY DEF TakeUpdate, StoreFails, AckUpdate, ConsumerDies
  <2> QED BY <1>2, <1>3, <1>4, <2>1, <2>2 DEF ConsumerNext
\* Without messages there is nothing to keep whole.
<1>5. ASSUME conversation' = <<>>, miscounted' \/ bucket'.count = 0 PROVE MemoryCore'
  <2>1. Len(<<>>) = 0
    BY EmptySeq
  <2>2. TurnsWhole(<<>>, handled')
    BY <2>1 DEF TurnsWhole, Absent
  <2>3. Alternates(<<>>)
    <3>1. 0 \in Nat /\ Len(<<>>) = 2 * 0 /\ \A m \in 1..0 : <<>>[2 * m - 1].role = "user"
      BY <2>1
    <3> QED BY <3>1 DEF Alternates
  <2>4. TurnsWhole(conversation', handled') /\ Alternates(conversation') /\ Len(conversation') = 0
    BY <1>5, <2>1, <2>2, <2>3
  <2> QED BY <1>5, <2>4 DEF MemoryCore, TurnsWhole, Alternates, Absent, TurnAt
<1>6. ASSUME ClearBucket \/ DeleteBucket PROVE MemoryCore'
  <2>1. conversation' = <<>> /\ (miscounted' \/ bucket'.count = 0)
    BY <1>0, <1>6 DEF ClearBucket, DeleteBucket, MemoryBucket
  <2> QED BY <1>5, <2>1
<1>7. ASSUME NEW d \in DOMAIN conversation, DeleteMessage(d) PROVE MemoryCore'
  <2> DEFINE r == SubSeq(conversation, 1, d - 1) \o SubSeq(conversation, d + 1, Len(conversation))
  <2>1. conversation' = r /\ handled' = handled \cup {conversation[d].job} /\ miscounted' = TRUE
    BY <1>7 DEF DeleteMessage
  <2>2. d \in 1..Len(conversation) /\ r = SubSeq(conversation, 1, d - 1) \o SubSeq(conversation, d + 1, Len(conversation))
    BY <1>1
  <2> HIDE DEF r
  <2>3. TurnsWhole(r, handled \cup {conversation[d].job})
    BY <1>0, <2>2, RemovingKeepsTurns DEF MemoryCore
  <2>4. TurnsWhole(conversation', handled') /\ handled' # {}
    BY <2>1, <2>3
  <2> QED BY <2>1, <2>4 DEF MemoryCore, TurnsWhole, Absent, TurnAt
\* The count a PUT writes back is the present one, or the bucket is miscounted.
<1>8. ASSUME NEW e \in Editors, EditorNext(e) PROVE MemoryCore'
  <2>1. ASSUME NEW type, LoadBucket(e, type) PROVE MemoryCore'
    BY <1>2, <2>1 DEF LoadBucket
  <2>2. ASSUME SaveBucket(e) PROVE MemoryCore'
    <3>1. UNCHANGED <<conversation, handled>> /\ bucket'.count = editor[e].count
      BY <2>2 DEF SaveBucket
    <3>2. miscounted' \/ bucket'.count = Len(conversation)
      BY <2>2, <3>1 DEF SaveBucket, MemoryCore
    <3> QED BY <3>1, <3>2 DEF MemoryCore
  <2> QED BY <1>8, <2>1, <2>2 DEF EditorNext
<1> QED BY <1>4, <1>6, <1>7, <1>8 DEF MemoryNext

MemoryInv == InferenceTyped /\ MemoryCore

LEMMA MemoryInvInit == ASSUME NEW over, Started(over) PROVE MemoryInv
<1> SUFFICES MemoryCore
  BY StartTyped DEF MemoryInv
<1>1. conversation = <<>> /\ bucket.count = 0
  BY DEF Started, MemoryInit
<1>2. Len(<<>>) = 0
  BY EmptySeq
<1>3. TurnsWhole(conversation, handled)
  BY <1>1, <1>2 DEF TurnsWhole, Absent
<1>4. Alternates(conversation)
  <2>1. 0 \in Nat /\ Len(conversation) = 2 * 0 /\ \A m \in 1..0 : conversation[2 * m - 1].role = "user"
    BY <1>1, <1>2
  <2> QED BY <2>1 DEF Alternates
<1>5. bucket.count = Len(conversation)
  BY <1>1, <1>2
<1> QED BY <1>3, <1>4, <1>5 DEF MemoryCore

LEMMA MemoryInvStep == ASSUME MemoryInv, [InferenceNext]_inferenceVars PROVE MemoryInv'
<1>1. InferenceTyped' /\ MemoryTyped
  BY InferenceStepTyped DEF MemoryInv, InferenceTyped
<1>2. CASE MemoryNext
  BY <1>1, <1>2, MemoryCoreStep DEF MemoryInv
<1>3. CASE UNCHANGED memoryVars
  BY <1>1, <1>3 DEF MemoryInv, MemoryCore, memoryVars
<1> QED BY <1>2, <1>3 DEF InferenceNext, inferenceVars

\* However often the turn of a job is delivered, and to however many workers, its two
\* messages are in the conversation once, side by side, and the bucket counts its messages;
\* only what MemoryWhole names of what is done by hand breaks it.
THEOREM MemoryStaysWhole == InferenceSpec => []MemoryWhole
<1>0. InferenceInit => MemoryInv
  BY InferenceStarted, MemoryInvInit
<1>1. MemoryInv /\ [InferenceNext]_inferenceVars => MemoryInv'
  BY MemoryInvStep
<1>2. InferenceSpec => []MemoryInv
  BY <1>0, <1>1, PTL DEF InferenceSpec
<1>3. MemoryInv => MemoryWhole
  BY MemoryFollows DEF MemoryInv, InferenceTyped
<1> QED BY <1>2, <1>3, PTL

-----------------------------------------------------------------------------
(* ToolSessions: the types.                                                *)

\* A call that is about to do something with a container names one, and the agent counts
\* its rounds and repeats only up to their limits.
ToolTyped ==
    /\ ToolTypeOK
    /\ \A c \in Calls : call[c].at \in {"forcing", "stopping", "tracking", "executing"} => call[c].box \in Boxes
    /\ agent.at = "waiting" => agent.rounds < MaxIterations
    /\ agent.at # "done" => \A p \in Plans : agent.repeats[p] <= MaxRepeat

CallsTyped ==
    /\ call \in [Calls -> Call]
    /\ \A c \in Calls : call[c].at \in {"forcing", "stopping", "tracking", "executing"} => call[c].box \in Boxes

BoxesTyped ==
    /\ tracked \in Boxes \cup {NoBox}
    /\ box \in [Boxes -> {"unused", "running", "stopped", "gone"}]
    /\ work \in [Boxes -> SUBSET Calls]
    /\ owed \subseteq Calls
    /\ muddled \in BOOLEAN
    /\ mishaps \in 0..MaxMishaps

AgentTyped ==
    /\ agent \in Agent
    /\ agent.at = "waiting" => agent.rounds < MaxIterations
    /\ agent.at # "done" => \A p \in Plans : agent.repeats[p] <= MaxRepeat

LEMMA ToolParts == ToolTyped <=> AgentTyped /\ CallsTyped /\ BoxesTyped
BY DEF ToolTyped, ToolTypeOK, AgentTyped, CallsTyped, BoxesTyped

LEMMA ToolInitTyped == ToolInit => ToolTyped
<1> SUFFICES ASSUME ToolInit PROVE ToolTyped
  OBVIOUS
<1>1. AgentTyped
  <2> DEFINE repeats == [p \in Plans |-> 0]
  <2>1. repeats \in [Plans -> 0..(MaxRepeat + 1)] /\ \A p \in Plans : repeats[p] <= MaxRepeat
    BY ToolAssumption
  <2>2. agent = [at |-> "thinking", rounds |-> 0, repeats |-> repeats, pending |-> {}]
    BY DEF ToolInit
  <2> HIDE DEF repeats
  <2>3. 0 \in 0..MaxIterations
    BY ToolAssumption
  <2> QED BY <2>1, <2>2, <2>3 DEF AgentTyped, Agent
<1>2. CallsTyped
  BY DEF ToolInit, CallsTyped, Call, Unused
<1>3. BoxesTyped
  <2>1. mishaps \in 0..MaxMishaps
    BY ToolAssumption DEF ToolInit
  <2>2. owed \subseteq Calls /\ work \in [Boxes -> SUBSET Calls]
    BY DEF ToolInit
  <2>3. tracked \in Boxes \cup {NoBox} /\ box \in [Boxes -> {"unused", "running", "stopped", "gone"}]
    BY DEF ToolInit
  <2>4. muddled \in BOOLEAN
    BY DEF ToolInit
  <2> QED BY <2>1, <2>2, <2>3, <2>4 DEF BoxesTyped
<1> QED BY <1>1, <1>2, <1>3, ToolParts

\* One call goes on.
LEMMA CallMoves ==
    ASSUME CallsTyped, NEW c \in Calls, NEW r \in Call, call' = [call EXCEPT ![c] = r],
           r.at \in {"forcing", "stopping", "tracking", "executing"} => r.box \in Boxes
    PROVE  CallsTyped'
BY DEF CallsTyped

LEMMA CallGoes ==
    ASSUME CallsTyped, NEW c \in Calls, NEW from, NEW to, Goes(c, from, to),
           to \in {"reusing", "looking", "creating", "executing", "over"},
           to = "executing" => from = "tracking"
    PROVE  CallsTyped'
<1> DEFINE r == [call[c] EXCEPT !.at = to]
<1>1. call[c] \in Call /\ call[c].at = from
  BY DEF CallsTyped, Goes
<1>2. r \in Call /\ r.at = to /\ r.box = call[c].box
  BY <1>1 DEF Call
<1>3. call' = [call EXCEPT ![c] = r]
  BY <1>1 DEF Goes, CallsTyped, Call
<1>4. to = "executing" => call[c].box \in Boxes
  BY <1>1 DEF CallsTyped
<1> HIDE DEF r
<1> QED BY <1>2, <1>3, <1>4, CallMoves

LEMMA MishapCounts == ASSUME BoxesTyped, Mishap PROVE mishaps' \in 0..MaxMishaps
BY ToolAssumption DEF BoxesTyped, Mishap

LEMMA ToolCallsTyped == ASSUME ToolTyped, ToolNext PROVE CallsTyped'
<1>0. AgentTyped /\ CallsTyped /\ BoxesTyped
  BY ToolParts
<1>1. ASSUME UNCHANGED call PROVE CallsTyped'
  BY <1>0, <1>1 DEF CallsTyped
<1>2. ASSUME NEW p \in Plans, Plan(p) PROVE CallsTyped'
  <2>1. CASE agent.repeats[p] = MaxRepeat
    BY <1>1, <1>2, <2>1 DEF Plan
  <2>2. CASE agent.repeats[p] # MaxRepeat
    <3>1. PICK new \in SUBSET Calls :
              call' = [c \in Calls |-> IF c \notin new THEN call[c]
                                      ELSE [at |-> "entered", fresh |-> p \in Fresh, box |-> NoBox]]
      BY <1>2, <2>2 DEF Plan
    <3>2. [at |-> "entered", fresh |-> p \in Fresh, box |-> NoBox] \in Call
      BY DEF Call
    <3> QED BY <1>0, <3>1, <3>2 DEF CallsTyped
  <2> QED BY <2>1, <2>2
<1>3. ASSUME NEW c \in Calls, Execution(c) PROVE CallsTyped'
  <2>1. ASSUME NEW to \in {"forcing", "stopping", "tracking", "executing"}, NEW b \in Boxes,
               call' = [call EXCEPT ![c].at = to, ![c].box = b]
        PROVE  CallsTyped'
    <3> DEFINE r == [call[c] EXCEPT !.at = to, !.box = b]
    <3>1. r \in Call /\ r.box \in Boxes
      BY <1>0 DEF CallsTyped, Call
    <3>2. call' = [call EXCEPT ![c] = r]
      BY <1>0, <2>1 DEF CallsTyped, Call
    <3> HIDE DEF r
    <3> QED BY <1>0, <3>1, <3>2, CallMoves
  <2>2. ASSUME NEW to \in {"reusing", "looking", "creating", "over"}, call' = [call EXCEPT ![c].at = to]
        PROVE  CallsTyped'
    <3>1. Goes(c, call[c].at, to)
      BY <2>2 DEF Goes
    <3> QED BY <1>0, <3>1, CallGoes
  <2>3. CASE Enter(c)
    BY <2>1, <2>2, <2>3 DEF Enter, Named
  <2>4. CASE ForceStop(c)
    BY <2>2, <2>4 DEF ForceStop, Goes
  <2>5. CASE Reuse(c)
    <3>1. CASE tracked = NoBox \/ (tracked # NoBox /\ box[tracked] = "gone")
      BY <2>2, <2>5, <3>1 DEF Reuse, Goes
    <3>2. CASE ~(tracked = NoBox \/ (tracked # NoBox /\ box[tracked] = "gone"))
      <4>1. tracked \in Boxes
        BY <1>0, <3>2 DEF BoxesTyped
      <4>2. CASE box[tracked] = "running"
        <5>1. call' = [call EXCEPT ![c] = [@ EXCEPT !.at = "executing", !.box = tracked]]
          BY <2>5, <3>2, <4>2 DEF Reuse
        <5>2. call' = [call EXCEPT ![c].at = "executing", ![c].box = tracked]
          BY <1>0, <5>1 DEF CallsTyped, Call
        <5> QED BY <2>1, <4>1, <5>2
      <4>3. CASE box[tracked] # "running"
        <5>1. call' = [call EXCEPT ![c] = [@ EXCEPT !.at = "over"]]
          BY <2>5, <3>2, <4>3 DEF Reuse
        <5>2. call' = [call EXCEPT ![c].at = "over"]
          BY <1>0, <5>1 DEF CallsTyped, Call
        <5> QED BY <2>2, <5>2
      <4> QED BY <4>2, <4>3
    <3> QED BY <3>1, <3>2
  <2>6. CASE Look(c)
    BY <2>1, <2>2, <2>6 DEF Look, Named
  <2>7. CASE StopOrphan(c)
    BY <2>2, <2>7 DEF StopOrphan, Goes
  <2>8. CASE Create(c)
    <3>1. CASE Named # {}
      BY <2>2, <2>8, <3>1 DEF Create
    <3>2. CASE Named = {}
      BY <2>1, <2>8, <3>2 DEF Create
    <3> QED BY <3>1, <3>2
  <2>9. CASE Track(c)
    BY <1>0, <2>9, CallGoes DEF Track
  <2>10. CASE Execute(c)
    BY <2>2, <2>10 DEF Execute, PutFile, RunCommand, Goes
  <2>11. CASE ExecuteElsewhere(c)
    BY <2>2, <2>11 DEF ExecuteElsewhere, Goes
  <2> QED BY <1>3, <2>3, <2>4, <2>5, <2>6, <2>7, <2>8, <2>9, <2>10, <2>11 DEF Execution
<1>4. ASSUME ServiceRestarts PROVE CallsTyped'
  <2>1. \A c \in Calls : [call[c] EXCEPT !.at = "over"] \in Call
    BY <1>0 DEF CallsTyped, Call
  <2>2. call' = [c \in Calls |-> IF call[c].at = "unused" THEN call[c] ELSE [call[c] EXCEPT !.at = "over"]]
    BY <1>4 DEF ServiceRestarts
  <2>3. \A c \in Calls : call'[c] \in Call /\ call'[c].at \in {"unused", "over"}
    BY <1>0, <2>1, <2>2 DEF CallsTyped, Call
  <2> QED BY <2>2, <2>3 DEF CallsTyped
<1>5. \A c \in Calls : TimeOut(c) => UNCHANGED call
  BY DEF TimeOut
<1>6. Finish \/ Observe => UNCHANGED call
  BY DEF Finish, Observe
<1>7. \A b \in Boxes : Remove(b) \/ ContainerDies(b) => UNCHANGED call
  BY DEF Remove, ContainerDies
<1> QED BY <1>1, <1>2, <1>3, <1>4, <1>5, <1>6, <1>7 DEF ToolNext

LEMMA ToolAgentTyped == ASSUME ToolTyped, ToolNext PROVE AgentTyped'
<1>0. AgentTyped /\ CallsTyped /\ BoxesTyped
  BY ToolParts
<1>1. ASSUME UNCHANGED agent PROVE AgentTyped'
  BY <1>0, <1>1 DEF AgentTyped
<1>2. ASSUME NEW p \in Plans, Plan(p) PROVE AgentTyped'
  <2> DEFINE m == agent.repeats[p]
             reps == [agent.repeats EXCEPT ![p] = m + 1]
  <2>1. /\ agent.at = "thinking" /\ agent.rounds < MaxIterations
        /\ agent.rounds \in 0..MaxIterations /\ agent.repeats \in [Plans -> 0..(MaxRepeat + 1)]
        /\ agent.pending \subseteq Calls
        /\ \A q \in Plans : agent.repeats[q] <= MaxRepeat
    BY <1>0, <1>2 DEF Plan, AgentTyped, Agent
  <2>2. m \in 0..(MaxRepeat + 1) /\ m <= MaxRepeat
    BY <2>1
  <2>3. reps \in [Plans -> 0..(MaxRepeat + 1)]
    <3>1. m + 1 \in 0..(MaxRepeat + 1)
      BY <2>2, ToolAssumption
    <3> QED BY <2>1, <3>1
  <2>4. CASE m = MaxRepeat
    <3>1. agent' = [agent EXCEPT !.at = "done", !.repeats = reps]
      BY <1>0, <1>2, <2>4 DEF Plan, AgentTyped, Agent
    <3> HIDE DEF reps, m
    <3>2. agent' \in Agent /\ agent'.at = "done"
      BY <1>0, <2>3, <3>1 DEF AgentTyped, Agent
    <3> QED BY <3>2 DEF AgentTyped
  <2>5. CASE m # MaxRepeat
    <3>1. PICK new \in SUBSET Calls : agent' = [agent EXCEPT !.at = "waiting", !.repeats = reps, !.pending = new]
      BY <1>0, <1>2, <2>5 DEF Plan, AgentTyped, Agent
    <3>2. \A q \in Plans : reps[q] <= MaxRepeat
      <4>1. m + 1 <= MaxRepeat
        BY <2>2, <2>5, ToolAssumption
      <4> QED BY <2>1, <4>1
    <3> HIDE DEF reps, m
    <3>3. agent' \in Agent /\ agent'.repeats = reps /\ agent'.rounds = agent.rounds
      BY <1>0, <2>3, <3>1 DEF AgentTyped, Agent
    <3> QED BY <2>1, <3>2, <3>3 DEF AgentTyped
  <2> QED BY <2>4, <2>5
<1>3. ASSUME Finish PROVE AgentTyped'
  <2>1. agent' \in Agent /\ agent'.at = "done"
    BY <1>0, <1>3 DEF Finish, AgentTyped, Agent
  <2> QED BY <2>1 DEF AgentTyped
<1>4. ASSUME Observe PROVE AgentTyped'
  <2> DEFINE n == agent.rounds
  <2>1. n \in 0..MaxIterations /\ n < MaxIterations
    BY <1>0, <1>4 DEF Observe, AgentTyped, Agent
  <2>2. n + 1 \in 0..MaxIterations
    BY <2>1, ToolAssumption
  <2>3. agent' = [agent EXCEPT !.at = "thinking", !.rounds = n + 1, !.pending = {}] /\ agent.at = "waiting"
    BY <1>0, <1>4 DEF Observe, AgentTyped, Agent
  <2> HIDE DEF n
  <2>4. agent' \in Agent /\ agent'.at = "thinking" /\ agent'.repeats = agent.repeats
    BY <1>0, <2>2, <2>3 DEF AgentTyped, Agent
  <2> QED BY <1>0, <2>3, <2>4 DEF AgentTyped
<1>5. ASSUME NEW c \in Calls, TimeOut(c) PROVE AgentTyped'
  <2>1. agent' = [agent EXCEPT !.pending = @ \ {c}]
    BY <1>5 DEF TimeOut
  <2>2. /\ agent' \in Agent /\ agent'.at = agent.at /\ agent'.rounds = agent.rounds
        /\ agent'.repeats = agent.repeats
    BY <1>0, <2>1 DEF AgentTyped, Agent
  <2> QED BY <1>0, <2>2 DEF AgentTyped
<1>6. \A c \in Calls : Execution(c) => UNCHANGED agent
  BY DEF Execution, Enter, ForceStop, Reuse, Look, StopOrphan, Create, Track, Execute, PutFile, RunCommand,
         ExecuteElsewhere
<1>7. \A b \in Boxes : Remove(b) \/ ContainerDies(b) => UNCHANGED agent
  BY DEF Remove, ContainerDies
<1>8. ServiceRestarts => UNCHANGED agent
  BY DEF ServiceRestarts
<1> QED BY <1>1, <1>2, <1>3, <1>4, <1>5, <1>6, <1>7, <1>8 DEF ToolNext

LEMMA ToolBoxesTyped == ASSUME ToolTyped, ToolNext PROVE BoxesTyped'
<1>0. AgentTyped /\ CallsTyped /\ BoxesTyped
  BY ToolParts
<1>1. ASSUME UNCHANGED <<tracked, box, work, owed, muddled, mishaps>> PROVE BoxesTyped'
  BY <1>0, <1>1 DEF BoxesTyped
<1>2. ASSUME NEW b \in Boxes, UNCHANGED <<tracked, work, muddled>>, owed' \subseteq Calls,
             mishaps' \in 0..MaxMishaps, NEW n \in {"stopped", "gone", "running"}, box' = [box EXCEPT ![b] = n]
      PROVE  BoxesTyped'
  BY <1>0, <1>2 DEF BoxesTyped
<1>3. ASSUME NEW b \in Boxes PROVE Halt(b) \in [Boxes -> {"unused", "running", "stopped", "gone"}]
  BY <1>0 DEF BoxesTyped, Halt
<1>4. ASSUME NEW c \in Calls, Execution(c) PROVE BoxesTyped'
  <2>1. ASSUME UNCHANGED <<tracked, box, work, owed, mishaps>>, muddled' \in BOOLEAN PROVE BoxesTyped'
    BY <1>0, <2>1 DEF BoxesTyped
  <2>2. CASE Enter(c)
    <3>1. muddled' \in BOOLEAN
      BY <1>0, <2>2 DEF Enter, BoxesTyped
    <3> QED BY <2>1, <2>2, <3>1 DEF Enter
  <2>3. CASE ForceStop(c)
    <3>1. Halt(call[c].box) \in [Boxes -> {"unused", "running", "stopped", "gone"}]
      BY <1>0, <1>3, <2>3 DEF ForceStop, Goes, CallsTyped
    <3> QED BY <1>0, <2>3, <3>1 DEF ForceStop, BoxesTyped
  <2>4. CASE Reuse(c)
    <3>1. muddled' \in BOOLEAN
      BY <1>0, <2>4 DEF Reuse, BoxesTyped
    <3>2. tracked' \in Boxes \cup {NoBox}
      BY <1>0, <2>4 DEF Reuse, BoxesTyped
    <3> QED BY <1>0, <2>4, <3>1, <3>2 DEF Reuse, BoxesTyped
  <2>5. CASE Look(c)
    BY <1>1, <2>5 DEF Look
  <2>6. CASE StopOrphan(c)
    <3>1. Halt(call[c].box) \in [Boxes -> {"unused", "running", "stopped", "gone"}]
      BY <1>0, <1>3, <2>6 DEF StopOrphan, Goes, CallsTyped
    <3> QED BY <1>0, <2>6, <3>1 DEF StopOrphan, BoxesTyped
  <2>7. CASE Create(c)
    <3>1. CASE Named # {}
      BY <1>1, <2>7, <3>1 DEF Create
    <3>2. CASE Named = {}
      <4>1. PICK b \in Boxes : box' = [box EXCEPT ![b] = "running"]
        BY <2>7, <3>2 DEF Create
      <4>2. UNCHANGED <<tracked, work, muddled, owed, mishaps>>
        BY <2>7 DEF Create
      <4> QED BY <1>0, <4>1, <4>2 DEF BoxesTyped
    <3> QED BY <3>1, <3>2
  <2>8. CASE Track(c)
    <3>1. call[c].box \in Boxes /\ tracked' = call[c].box /\ UNCHANGED <<box, work, owed, muddled, mishaps>>
      BY <1>0, <2>8 DEF Track, Goes, CallsTyped
    <3> QED BY <1>0, <3>1 DEF BoxesTyped
  <2>9. CASE Execute(c)
    <3>1. UNCHANGED <<tracked, box, muddled, mishaps>>
      BY <2>9 DEF Execute, PutFile, RunCommand
    <3>2. work' \in [Boxes -> SUBSET Calls] /\ owed' \subseteq Calls
      BY <1>0, <2>9 DEF Execute, PutFile, RunCommand, BoxesTyped
    <3> QED BY <1>0, <3>1, <3>2 DEF BoxesTyped
  <2>10. CASE ExecuteElsewhere(c)
    BY <1>1, <2>10 DEF ExecuteElsewhere
  <2> QED BY <1>4, <2>2, <2>3, <2>4, <2>5, <2>6, <2>7, <2>8, <2>9, <2>10 DEF Execution
<1>5. ASSUME NEW b \in Boxes, Remove(b) PROVE BoxesTyped'
  BY <1>0, <1>5 DEF Remove, BoxesTyped
<1>6. ASSUME NEW b \in Boxes, ContainerDies(b) PROVE BoxesTyped'
  BY <1>0, <1>6, MishapCounts DEF ContainerDies, BoxesTyped
<1>7. ASSUME ServiceRestarts PROVE BoxesTyped'
  BY <1>0, <1>7, MishapCounts DEF ServiceRestarts, BoxesTyped
<1>8. ASSUME NEW c \in Calls, TimeOut(c) PROVE BoxesTyped'
  BY <1>0, <1>8, MishapCounts DEF TimeOut, BoxesTyped
<1>9. Finish \/ Observe \/ (\E p \in Plans : Plan(p)) => UNCHANGED <<tracked, box, work, owed, muddled, mishaps>>
  BY DEF Finish, Observe, Plan
<1> QED BY <1>1, <1>4, <1>5, <1>6, <1>7, <1>8, <1>9 DEF ToolNext

LEMMA ToolStepTyped == ASSUME ToolTyped, [ToolNext]_toolVars PROVE ToolTyped'
<1>1. CASE ToolNext
  BY <1>1, ToolAgentTyped, ToolCallsTyped, ToolBoxesTyped DEF ToolTyped, ToolTypeOK, AgentTyped, CallsTyped, BoxesTyped
<1>2. CASE UNCHANGED toolVars
  BY <1>2 DEF toolVars, ToolTyped, ToolTypeOK
<1> QED BY <1>1, <1>2

\* Whatever the calls of a job do to its session, the state keeps its types; in particular
\* the agent never goes round more often than it may.
THEOREM ToolTypeCorrect == ToolSpec => []ToolTypeOK
<1>1. ToolTyped /\ [ToolNext]_toolVars => ToolTyped'
  BY ToolStepTyped
<1>2. ToolTyped => ToolTypeOK
  BY DEF ToolTyped
<1> QED BY <1>1, <1>2, ToolInitTyped, PTL DEF ToolSpec

-----------------------------------------------------------------------------
(* SessionKept.                                                            *)

Running(b) == b \in Boxes /\ box[b] = "running"

\* The call stops or looks for the container of the session.
InHunt(c) == call[c].at \in InSearch \cup {"forcing"}

OneNamed == \A b, d \in Boxes : box[b] \in {"running", "stopped"} /\ box[d] \in {"running", "stopped"} => b = d

\* A call has a container to run its command in only once that container was created.
BoxesCreated == \A c \in Calls : call[c].at \in {"tracking", "executing"} => box[call[c].box] # "unused"

\* Unless two calls hunted for the container at once: one that looks for it finds the session
\* untracked, one that stops it has the only one that runs, and who is about to run a command
\* does so in the one that is tracked.
SessionCore ==
    /\ \A c, d \in Calls : InHunt(c) /\ InHunt(d) => c = d
    /\ \A c \in Calls : call[c].at \in InSearch => tracked = NoBox
    /\ \A c \in Calls : call[c].at = "forcing" => \A b \in Boxes : Running(b) => b = call[c].box
    /\ \A c \in Calls : call[c].at = "executing" /\ Running(call[c].box) => tracked = call[c].box
    /\ owed # {} => Running(tracked)
    /\ Running(tracked) => owed \subseteq work[tracked]

SessionInv == ToolTyped /\ OneNamed /\ BoxesCreated /\ (muddled \/ SessionCore)

LEMMA SessionFollows == SessionInv => SessionKept
<1> SUFFICES ASSUME SessionInv, ~muddled PROVE SessionKept
  BY DEF SessionKept
<1>1. SessionCore /\ ToolTyped
  BY DEF SessionInv
<1>2. NoBox \notin Boxes /\ tracked \in Boxes \cup {NoBox}
  BY <1>1 DEF NoBox, Boxes, ToolTyped, ToolTypeOK
<1>3. \A c \in Calls : call[c].at = "executing" => call[c].box \in Boxes
  BY <1>1 DEF ToolTyped
<1>4. tracked # NoBox /\ box[tracked] = "running" => owed \subseteq work[tracked]
  BY <1>1, <1>2 DEF SessionCore, Running
<1>5. ASSUME NEW c \in Calls, call[c].at = "executing", box[call[c].box] = "running"
      PROVE  owed \subseteq work[call[c].box]
  BY <1>1, <1>3, <1>5 DEF SessionCore, Running
<1>6. owed # {} => tracked # NoBox /\ box[tracked] = "running"
  BY <1>1, <1>2 DEF SessionCore, Running
<1> QED BY <1>4, <1>5, <1>6 DEF SessionKept

LEMMA SessionInvInit == ToolInit => SessionInv
<1> SUFFICES ASSUME ToolInit PROVE SessionInv
  OBVIOUS
<1>1. /\ \A c \in Calls : call[c].at = "unused"
      /\ \A b \in Boxes : box[b] = "unused"
      /\ owed = {}
  BY DEF ToolInit, Unused
<1>2. OneNamed
  BY <1>1 DEF OneNamed
<1>3. SessionCore /\ BoxesCreated
  BY <1>1 DEF SessionCore, InHunt, InSearch, Running, BoxesCreated
<1> QED BY <1>2, <1>3, ToolInitTyped DEF SessionInv

\* Only a creation names a container, and only when none has the name.
LEMMA OneNamedStep == ASSUME ToolTyped, OneNamed, ToolNext PROVE OneNamed'
<1>0. box \in [Boxes -> {"unused", "running", "stopped", "gone"}] /\ CallsTyped
  BY ToolParts DEF BoxesTyped
<1>1. ASSUME UNCHANGED box PROVE OneNamed'
  BY <1>1 DEF OneNamed
<1>2. ASSUME NEW b \in Boxes, box' = [box EXCEPT ![b] = "stopped"], box[b] \in {"running", "stopped"} PROVE OneNamed'
  BY <1>0, <1>2 DEF OneNamed
<1>3. ASSUME NEW b \in Boxes, box' = Halt(b) PROVE OneNamed'
  BY <1>0, <1>3 DEF OneNamed, Halt
<1>4. ASSUME NEW b \in Boxes, Remove(b) PROVE OneNamed'
  BY <1>0, <1>4 DEF OneNamed, Remove
<1>5. ASSUME NEW b \in Boxes, ContainerDies(b) PROVE OneNamed'
  BY <1>2, <1>5 DEF ContainerDies
<1>6. ASSUME NEW c \in Calls, Create(c) PROVE OneNamed'
  <2>1. CASE Named # {}
    BY <1>1, <1>6, <2>1 DEF Create
  <2>2. CASE Named = {}
    <3>1. PICK b \in Boxes : box' = [box EXCEPT ![b] = "running"]
      BY <1>6, <2>2 DEF Create
    <3>2. \A d \in Boxes : box[d] \notin {"running", "stopped"}
      BY <2>2 DEF Named
    <3> QED BY <1>0, <3>1, <3>2 DEF OneNamed
  <2> QED BY <2>1, <2>2
<1>7. ASSUME NEW c \in Calls, ForceStop(c) \/ StopOrphan(c) PROVE OneNamed'
  <2>1. call[c].box \in Boxes /\ box' = Halt(call[c].box)
    BY <1>0, <1>7 DEF ForceStop, StopOrphan, Goes, CallsTyped
  <2> QED BY <1>3, <2>1
<1>8. \A c \in Calls : Enter(c) \/ Reuse(c) \/ Look(c) \/ Track(c) \/ Execute(c) \/ ExecuteElsewhere(c) \/ TimeOut(c)
          => UNCHANGED box
  BY DEF Enter, Reuse, Look, Track, Execute, PutFile, RunCommand, ExecuteElsewhere, TimeOut
<1>9. Finish \/ Observe \/ ServiceRestarts \/ (\E p \in Plans : Plan(p)) => UNCHANGED box
  BY DEF Finish, Observe, Plan, ServiceRestarts
<1> QED BY <1>1, <1>4, <1>5, <1>6, <1>7, <1>8, <1>9 DEF ToolNext, Execution

LEMMA BoxesCreatedStep == ASSUME ToolTyped, BoxesCreated, ToolNext PROVE BoxesCreated'
<1>0. CallsTyped /\ BoxesTyped
  BY ToolParts
<1>1. \A b \in Boxes : box[b] # "unused" => box'[b] # "unused"
  <2>0. box \in [Boxes -> {"unused", "running", "stopped", "gone"}]
    BY <1>0 DEF BoxesTyped
  <2>1. \A b \in Boxes : Remove(b) \/ ContainerDies(b) => \A d \in Boxes : box[d] # "unused" => box'[d] # "unused"
    BY <2>0 DEF Remove, ContainerDies
  <2>2. ASSUME NEW c \in Calls, ForceStop(c) \/ StopOrphan(c) PROVE \A d \in Boxes : box[d] # "unused" => box'[d] # "unused"
    BY <2>0, <2>2 DEF ForceStop, StopOrphan, Halt
  <2>3. ASSUME NEW c \in Calls, Create(c) PROVE \A d \in Boxes : box[d] # "unused" => box'[d] # "unused"
    BY <2>0, <2>3 DEF Create
  <2>4. \A c \in Calls : Enter(c) \/ Reuse(c) \/ Look(c) \/ Track(c) \/ Execute(c) \/ ExecuteElsewhere(c) \/ TimeOut(c)
            => UNCHANGED box
    BY DEF Enter, Reuse, Look, Track, Execute, PutFile, RunCommand, ExecuteElsewhere, TimeOut
  <2>5. Finish \/ Observe \/ ServiceRestarts \/ (\E p \in Plans : Plan(p)) => UNCHANGED box
    BY DEF Finish, Observe, Plan, ServiceRestarts
  <2> QED BY <2>1, <2>2, <2>3, <2>4, <2>5 DEF ToolNext, Execution
<1>2. ASSUME \A c \in Calls : call'[c].at \in {"tracking", "executing"} =>
                 \/ call[c].at \in {"tracking", "executing"} /\ call'[c].box = call[c].box
                 \/ call'[c].box \in Boxes /\ box'[call'[c].box] = "running"
      PROVE  BoxesCreated'
  BY <1>0, <1>1, <1>2 DEF BoxesCreated, CallsTyped
<1>3. ASSUME NEW c \in Calls, NEW r, call' = [call EXCEPT ![c] = r],
             r.at \in {"tracking", "executing"} =>
                 \/ call[c].at \in {"tracking", "executing"} /\ r.box = call[c].box
                 \/ r.box \in Boxes /\ box'[r.box] = "running"
      PROVE  BoxesCreated'
  <2>1. \A d \in Calls : call'[d] = IF d = c THEN r ELSE call[d]
    BY <1>0, <1>3 DEF CallsTyped
  <2> QED BY <1>2, <1>3, <2>1
<1>4. ASSUME NEW c \in Calls, NEW to \in {"reusing", "looking", "creating", "over"}, call' = [call EXCEPT ![c].at = to]
      PROVE  BoxesCreated'
  <2> DEFINE r == [call[c] EXCEPT !.at = to]
  <2>1. call' = [call EXCEPT ![c] = r] /\ r.at = to
    BY <1>0, <1>4 DEF CallsTyped, Call
  <2> HIDE DEF r
  <2> QED BY <1>3, <2>1
<1>5. ASSUME NEW c \in Calls, NEW to \in {"forcing", "stopping"}, NEW b \in Boxes,
             call' = [call EXCEPT ![c].at = to, ![c].box = b]
      PROVE  BoxesCreated'
  <2> DEFINE r == [call[c] EXCEPT !.at = to, !.box = b]
  <2>1. call' = [call EXCEPT ![c] = r] /\ r.at = to
    BY <1>0, <1>5 DEF CallsTyped, Call
  <2> HIDE DEF r
  <2> QED BY <1>3, <2>1
<1>6. ASSUME NEW c \in Calls, Execution(c) PROVE BoxesCreated'
  <2>1. CASE Enter(c)
    BY <1>4, <1>5, <2>1 DEF Enter, Named
  <2>2. CASE ForceStop(c)
    BY <1>4, <2>2 DEF ForceStop, Goes
  <2>3. CASE Reuse(c)
    <3>1. CASE tracked = NoBox \/ (tracked # NoBox /\ box[tracked] = "gone")
      BY <1>4, <2>3, <3>1 DEF Reuse, Goes
    <3>2. CASE ~(tracked = NoBox \/ (tracked # NoBox /\ box[tracked] = "gone"))
      <4> DEFINE r == IF box[tracked] = "running" THEN [call[c] EXCEPT !.at = "executing", !.box = tracked]
                      ELSE [call[c] EXCEPT !.at = "over"]
      <4>1. call' = [call EXCEPT ![c] = r] /\ box' = box /\ tracked \in Boxes
        BY <1>0, <2>3, <3>2 DEF Reuse, CallsTyped, BoxesTyped
      <4>2. r.at \in {"tracking", "executing"} => r.box = tracked /\ box[tracked] = "running"
        BY <1>0 DEF CallsTyped, Call
      <4> HIDE DEF r
      <4> QED BY <1>3, <4>1, <4>2
    <3> QED BY <3>1, <3>2
  <2>4. CASE Look(c)
    BY <1>4, <1>5, <2>4 DEF Look, Named
  <2>5. CASE StopOrphan(c)
    BY <1>4, <2>5 DEF StopOrphan, Goes
  <2>6. CASE Create(c)
    <3>1. CASE Named # {}
      BY <1>4, <2>6, <3>1 DEF Create
    <3>2. CASE Named = {}
      <4>1. PICK b \in Boxes : box' = [box EXCEPT ![b] = "running"] /\ call' = [call EXCEPT ![c].at = "tracking", ![c].box = b]
        BY <2>6, <3>2 DEF Create
      <4> DEFINE r == [call[c] EXCEPT !.at = "tracking", !.box = b]
      <4>2. call' = [call EXCEPT ![c] = r] /\ r.box = b
        BY <1>0, <4>1 DEF CallsTyped, Call
      <4>3. box'[b] = "running"
        BY <1>0, <4>1 DEF BoxesTyped
      <4> HIDE DEF r
      <4> QED BY <1>3, <4>2, <4>3
    <3> QED BY <3>1, <3>2
  <2>7. CASE Track(c)
    <3> DEFINE r == [call[c] EXCEPT !.at = "executing"]
    <3>1. call[c].at = "tracking" /\ call' = [call EXCEPT ![c] = r] /\ r.box = call[c].box
      BY <1>0, <2>7 DEF Track, Goes, CallsTyped, Call
    <3> HIDE DEF r
    <3> QED BY <1>3, <3>1
  <2>8. CASE Execute(c) \/ ExecuteElsewhere(c)
    BY <1>4, <2>8 DEF Execute, PutFile, RunCommand, ExecuteElsewhere, Goes
  <2> QED BY <1>6, <2>1, <2>2, <2>3, <2>4, <2>5, <2>6, <2>7, <2>8 DEF Execution
<1>7. ASSUME NEW p \in Plans, Plan(p) PROVE BoxesCreated'
  <2>1. CASE agent.repeats[p] = MaxRepeat
    BY <1>2, <1>7, <2>1 DEF Plan
  <2>2. CASE agent.repeats[p] # MaxRepeat
    <3>1. PICK new \in SUBSET Calls :
              call' = [c \in Calls |-> IF c \notin new THEN call[c]
                                      ELSE [at |-> "entered", fresh |-> p \in Fresh, box |-> NoBox]]
      BY <1>7, <2>2 DEF Plan
    <3> QED BY <1>2, <3>1
  <2> QED BY <2>1, <2>2
<1>8. ASSUME ServiceRestarts PROVE BoxesCreated'
  <2>1. \A c \in Calls : [call[c] EXCEPT !.at = "over"].at = "over"
    BY <1>0 DEF CallsTyped, Call
  <2>2. call' = [c \in Calls |-> IF call[c].at = "unused" THEN call[c] ELSE [call[c] EXCEPT !.at = "over"]]
    BY <1>8 DEF ServiceRestarts
  <2>3. \A c \in Calls : call'[c].at \in {"unused", "over"}
    BY <2>1, <2>2
  <2> QED BY <1>2, <2>3
<1>9. Finish \/ Observe \/ (\E c \in Calls : TimeOut(c)) \/ (\E b \in Boxes : Remove(b) \/ ContainerDies(b)) => UNCHANGED call
  BY DEF Finish, Observe, TimeOut, Remove, ContainerDies
<1> QED BY <1>2, <1>6, <1>7, <1>8, <1>9 DEF ToolNext

\* What SessionCore says of the calls survives when no call joins the hunt or comes to a
\* command.
LEMMA CallsCalm ==
    ASSUME SessionCore, UNCHANGED <<tracked, box, work, owed>>,
           \A c \in Calls : call'[c] = call[c] \/ call'[c].at \in {"unused", "entered", "over", "reusing"}
    PROVE  SessionCore'
<1>1. \A c \in Calls : call'[c].at \in InSearch \cup {"forcing", "executing"} => call'[c] = call[c]
  BY DEF InSearch
<1>2. \A b : Running(b)' <=> Running(b)
  BY DEF Running
<1>3. \A c, d \in Calls : InHunt(c)' /\ InHunt(d)' => c = d
  BY <1>1 DEF SessionCore, InHunt
<1>4. \A c \in Calls : call'[c].at \in InSearch => tracked' = NoBox
  BY <1>1 DEF SessionCore
<1>5. \A c \in Calls : call'[c].at = "forcing" => \A b \in Boxes : Running(b)' => b = call'[c].box
  BY <1>1 DEF SessionCore, Running
<1>6. \A c \in Calls : call'[c].at = "executing" /\ Running(call[c].box)' => tracked' = call'[c].box
  BY <1>1 DEF SessionCore, Running
<1>7. \A c \in Calls : call'[c].at = "executing" => call'[c].box = call[c].box
  BY <1>1
<1> QED BY <1>1, <1>2, <1>3, <1>4, <1>5, <1>6, <1>7 DEF SessionCore, Running, InHunt

\* Fewer containers run and nothing is owed any more.
LEMMA BoxesCalm ==
    ASSUME SessionCore, UNCHANGED <<call, tracked, work>>, owed' \subseteq owed,
           \A b \in Boxes : box'[b] = "running" => box[b] = "running",
           owed' # {} => Running(tracked)'
    PROVE  SessionCore'
BY DEF SessionCore, Running, InHunt

\* One call goes on to a place where it is neither in the hunt nor about to run a command.
LEMMA CallCalm ==
    ASSUME ToolTyped, SessionCore, NEW c \in Calls, NEW r, call' = [call EXCEPT ![c] = r],
           r.at \in {"unused", "entered", "over", "reusing"}, UNCHANGED <<tracked, box, work, owed>>
    PROVE  SessionCore'
<1>1. call \in [Calls -> Call]
  BY DEF ToolTyped, ToolTypeOK
<1> QED BY <1>1, CallsCalm

\* One call goes from one part of the hunt to another one, and does not come to stop a
\* container.
LEMMA CallHunts ==
    ASSUME ToolTyped, SessionCore, NEW c \in Calls, NEW r, call' = [call EXCEPT ![c] = r],
           call[c].at \in InSearch, r.at \in InSearch, UNCHANGED <<tracked, box, work, owed>>
    PROVE  SessionCore'
<1>1. \A d \in Calls : call'[d] = IF d = c THEN r ELSE call[d]
  BY DEF ToolTyped, ToolTypeOK
<1>2. \A b : Running(b)' <=> Running(b)
  BY DEF Running
<1>3. \A d \in Calls : InHunt(d)' <=> InHunt(d)
  BY <1>1 DEF InHunt
<1>4. r.at # "forcing" /\ r.at # "executing"
  BY DEF InSearch
<1>5. tracked = NoBox
  BY DEF SessionCore
<1>6. \A d \in Calls : call'[d].at = "forcing" => \A b \in Boxes : Running(b)' => b = call'[d].box
  BY <1>1, <1>2, <1>4 DEF SessionCore
<1>7. \A d \in Calls : call'[d].at = "executing" => call'[d] = call[d]
  BY <1>1, <1>4
<1> QED BY <1>2, <1>3, <1>5, <1>6, <1>7 DEF SessionCore, Running

LEMMA SessionCoreExecution ==
    ASSUME ToolTyped, OneNamed, BoxesCreated, SessionCore, ~muddled', NEW c \in Calls, Execution(c)
    PROVE  SessionCore'
<1>0. /\ call \in [Calls -> Call] /\ tracked \in Boxes \cup {NoBox}
      /\ box \in [Boxes -> {"unused", "running", "stopped", "gone"}]
      /\ work \in [Boxes -> SUBSET Calls]
      /\ \A d \in Calls : call[d].at \in {"forcing", "stopping", "tracking", "executing"} => call[d].box \in Boxes
  BY DEF ToolTyped, ToolTypeOK
<1>00. NoBox \notin Boxes
  BY DEF NoBox, Boxes
<1>1. CASE Enter(c)
  <2>1. call[c].at = "entered" /\ UNCHANGED <<tracked, box, work, owed>>
    BY <1>1 DEF Enter
  <2>2. CASE call[c].fresh /\ Named # {}
    <3>1. PICK b \in Named : call' = [call EXCEPT ![c].at = "forcing", ![c].box = b]
      BY <1>1, <2>2 DEF Enter
    <3>2. ~Searching
      BY <1>1, <2>2 DEF Enter
    <3>3. \A d \in Calls : ~InHunt(d)
      BY <3>2 DEF Searching, InHunt
    <3> DEFINE r == [call[c] EXCEPT !.at = "forcing", !.box = b]
    <3>4. call' = [call EXCEPT ![c] = r] /\ r.at = "forcing" /\ r.box = b
      BY <1>0, <3>1 DEF Call
    <3> HIDE DEF r
    <3>5. \A d \in Calls : call'[d] = IF d = c THEN r ELSE call[d]
      BY <1>0, <3>4
    <3>6. \A d, e \in Calls : InHunt(d)' /\ InHunt(e)' => d = e
      BY <3>3, <3>5 DEF InHunt
    <3>7. \A d \in Calls : call'[d].at \notin InSearch
      BY <3>3, <3>4, <3>5 DEF InHunt, InSearch
    <3>8. \A d \in Calls : call'[d].at = "forcing" => \A e \in Boxes : Running(e)' => e = call'[d].box
      <4>1. \A d \in Calls : call'[d].at = "forcing" => d = c
        BY <3>3, <3>5 DEF InHunt
      <4>2. b \in Boxes /\ box[b] \in {"running", "stopped"}
        BY DEF Named
      <4>3. \A e \in Boxes : Running(e)' => e = b
        BY <2>1, <4>2 DEF Running, OneNamed
      <4> QED BY <3>4, <3>5, <4>1, <4>3
    <3>9. \A d \in Calls : call'[d].at = "executing" => call'[d] = call[d]
      BY <3>4, <3>5
    <3> QED BY <2>1, <3>6, <3>7, <3>8, <3>9 DEF SessionCore, Running
  <2>3. CASE ~(call[c].fresh /\ Named # {})
    <3> DEFINE r == [call[c] EXCEPT !.at = "reusing"]
    <3>1. call' = [call EXCEPT ![c] = r] /\ r.at = "reusing"
      BY <1>0, <1>1, <2>3 DEF Enter, Call
    <3> HIDE DEF r
    <3> QED BY <2>1, <3>1, CallCalm
  <2> QED BY <2>2, <2>3
\* Nothing runs when the forced stop is done, and nothing is owed.
<1>2. CASE ForceStop(c)
  <2>1. /\ call[c].at = "forcing" /\ call' = [call EXCEPT ![c].at = "reusing"]
        /\ box' = Halt(call[c].box) /\ tracked' = NoBox /\ owed' = {} /\ work' = work
    BY <1>2 DEF ForceStop, Goes
  <2>2. \A b \in Boxes : Running(b) => b = call[c].box
    BY <2>1 DEF SessionCore
  <2>3. \A b : ~Running(b)'
    BY <1>0, <2>1, <2>2 DEF Halt, Running
  <2>4. \A d \in Calls : call'[d] = IF d = c THEN [call[c] EXCEPT !.at = "reusing"] ELSE call[d]
    BY <1>0, <2>1
  <2>5. \A d, e \in Calls : InHunt(d)' /\ InHunt(e)' => d = e
    BY <1>0, <2>4 DEF SessionCore, InHunt, InSearch, Call
  <2> QED BY <2>1, <2>3, <2>5 DEF SessionCore, Running
<1>3. CASE Reuse(c)
  <2>1. call[c].at = "reusing" /\ UNCHANGED <<box, work, owed>>
    BY <1>3 DEF Reuse, Goes
  <2>2. CASE tracked = NoBox \/ (tracked # NoBox /\ box[tracked] = "gone")
    <3>1. /\ call' = [call EXCEPT ![c].at = "looking"] /\ tracked' = NoBox /\ ~Searching
      BY <1>3, <2>2 DEF Reuse, Goes
    <3>2. \A d \in Calls : ~InHunt(d)
      BY <3>1 DEF Searching, InHunt
    <3>3. \A d \in Calls : call'[d] = IF d = c THEN [call[c] EXCEPT !.at = "looking"] ELSE call[d]
      BY <1>0, <3>1
    <3>4. [call[c] EXCEPT !.at = "looking"].at = "looking"
      BY <1>0 DEF Call
    <3>5. \A d, e \in Calls : InHunt(d)' /\ InHunt(e)' => d = e
      BY <3>2, <3>3 DEF InHunt
    <3>6. \A d \in Calls : call'[d].at # "forcing"
      BY <3>2, <3>3, <3>4 DEF InHunt
    <3>7. ~Running(tracked)
      BY <1>00, <2>2 DEF Running
    <3>8. \A d \in Calls : call'[d].at = "executing" => call'[d] = call[d]
      BY <3>3, <3>4
    <3>9. \A d \in Calls : call'[d].at = "executing" => ~Running(call[d].box)'
      BY <2>1, <3>7, <3>8 DEF SessionCore, Running
    <3>10. owed = {} /\ ~Running(NoBox)
      BY <1>00, <3>7 DEF SessionCore, Running
    <3> QED BY <2>1, <3>1, <3>5, <3>6, <3>9, <3>10 DEF SessionCore, Running
  <2>3. CASE ~(tracked = NoBox \/ (tracked # NoBox /\ box[tracked] = "gone"))
    <3>1. /\ tracked' = tracked /\ tracked \in Boxes
          /\ call' = [call EXCEPT ![c] = IF box[tracked] = "running"
                                         THEN [@ EXCEPT !.at = "executing", !.box = tracked]
                                         ELSE [@ EXCEPT !.at = "over"]]
      BY <1>0, <1>3, <2>3 DEF Reuse
    <3>2. CASE box[tracked] # "running"
      <4> DEFINE r == [call[c] EXCEPT !.at = "over"]
      <4>1. call' = [call EXCEPT ![c] = r] /\ r.at = "over"
        BY <1>0, <3>1, <3>2 DEF Call
      <4> HIDE DEF r
      <4> QED BY <2>1, <3>1, <4>1, CallCalm
    <3>3. CASE box[tracked] = "running"
      <4> DEFINE r == [call[c] EXCEPT !.at = "executing", !.box = tracked]
      <4>1. call' = [call EXCEPT ![c] = r] /\ r.at = "executing" /\ r.box = tracked
        BY <1>0, <3>1, <3>3 DEF Call
      <4> HIDE DEF r
      <4>2. \A d \in Calls : call'[d] = IF d = c THEN r ELSE call[d]
        BY <1>0, <4>1
      <4>3. \A d \in Calls : InHunt(d)' => InHunt(d)
        BY <4>1, <4>2 DEF InHunt, InSearch
      <4>4. \A d \in Calls : call'[d].at \in InSearch => tracked' = NoBox
        BY <3>1, <4>1, <4>2 DEF SessionCore, InSearch
      <4>5. \A d \in Calls : call'[d].at = "forcing" => \A e \in Boxes : Running(e)' => e = call'[d].box
        BY <2>1, <4>1, <4>2 DEF SessionCore, Running
      <4>6. \A d \in Calls : call'[d].at = "executing" => call'[d] = call[d] \/ call'[d].box = tracked
        BY <4>1, <4>2
      <4>7. \A d \in Calls : call'[d].at = "executing" /\ Running(call'[d].box) => tracked = call'[d].box
        BY <4>6 DEF SessionCore
      <4> QED BY <2>1, <3>1, <4>3, <4>4, <4>5, <4>7 DEF SessionCore, Running
    <3> QED BY <3>2, <3>3
  <2> QED BY <2>2, <2>3
<1>4. ASSUME NEW from \in InSearch, NEW to \in InSearch, NEW r, call[c].at = from, r.at = to,
             call' = [call EXCEPT ![c] = r], UNCHANGED <<tracked, box, work, owed>>
      PROVE  SessionCore'
  BY <1>4, CallHunts
<1>5. CASE Look(c)
  <2>1. call[c].at = "looking" /\ UNCHANGED <<tracked, box, work, owed>>
    BY <1>5 DEF Look
  <2>2. PICK r : call' = [call EXCEPT ![c] = r] /\ r.at \in {"stopping", "creating"}
    <3>1. CASE Named # {}
      <4>1. PICK b \in Named : call' = [call EXCEPT ![c].at = "stopping", ![c].box = b]
        BY <1>5, <3>1 DEF Look
      <4> DEFINE n == [call[c] EXCEPT !.at = "stopping", !.box = b]
      <4>2. call' = [call EXCEPT ![c] = n] /\ n.at = "stopping"
        BY <1>0, <4>1 DEF Call
      <4> HIDE DEF n
      <4> QED BY <4>2
    <3>2. CASE Named = {}
      <4> DEFINE n == [call[c] EXCEPT !.at = "creating"]
      <4>2. call' = [call EXCEPT ![c] = n] /\ n.at = "creating"
        BY <1>0, <1>5, <3>2 DEF Look, Call
      <4> HIDE DEF n
      <4> QED BY <4>2
    <3> QED BY <3>1, <3>2
  <2> QED BY <1>4, <2>1, <2>2 DEF InSearch
\* A call that looks for a container is not bound to the one it stops.
<1>6. CASE StopOrphan(c)
  <2> DEFINE b == call[c].box
             r == [call[c] EXCEPT !.at = "creating"]
  <2>1. /\ call[c].at = "stopping" /\ call' = [call EXCEPT ![c] = r] /\ box' = Halt(b)
        /\ UNCHANGED <<tracked, work, owed>> /\ b \in Boxes /\ r.at = "creating"
    BY <1>0, <1>6 DEF StopOrphan, Goes, Call
  <2> HIDE DEF b, r
  <2>2. \A e : Running(e)' => Running(e)
    BY <1>0, <2>1 DEF Halt, Running
  <2>3. \A d \in Calls : call'[d] = IF d = c THEN r ELSE call[d]
    BY <1>0, <2>1
  <2>4. \A d \in Calls : InHunt(d)' <=> InHunt(d)
    BY <2>1, <2>3 DEF InHunt, InSearch
  <2>5. tracked = NoBox /\ ~Running(tracked) /\ owed = {}
    BY <1>00, <2>1 DEF SessionCore, InSearch, Running
  <2>6. \A d \in Calls : call'[d].at \in {"forcing", "executing"} => call'[d] = call[d]
    BY <2>1, <2>3
  <2>7. \A d, e \in Calls : InHunt(d)' /\ InHunt(e)' => d = e
    BY <2>4 DEF SessionCore
  <2>8. \A d \in Calls : call'[d].at = "forcing" => \A e \in Boxes : Running(e)' => e = call'[d].box
    BY <2>2, <2>6 DEF SessionCore
  <2>9. \A d \in Calls : call'[d].at = "executing" => ~Running(call[d].box)'
    BY <2>2, <2>5, <2>6 DEF SessionCore
  <2>10. ~Running(tracked)' /\ owed' = {} /\ tracked' = NoBox
    BY <2>1, <2>2, <2>5 DEF Running
  <2> QED BY <2>7, <2>8, <2>9, <2>10 DEF SessionCore, Running
<1>7. CASE Create(c)
  <2>1. call[c].at = "creating" /\ UNCHANGED <<tracked, work, owed>>
    BY <1>7 DEF Create
  <2>2. CASE Named # {}
    <3> DEFINE r == [call[c] EXCEPT !.at = "over"]
    <3>1. call' = [call EXCEPT ![c] = r] /\ r.at = "over" /\ box' = box
      BY <1>0, <1>7, <2>2 DEF Create, Call
    <3> HIDE DEF r
    <3> QED BY <2>1, <3>1, CallCalm
  <2>3. CASE Named = {}
    <3>1. PICK b \in Boxes : /\ box' = [box EXCEPT ![b] = "running"]
                             /\ call' = [call EXCEPT ![c].at = "tracking", ![c].box = b]
                             /\ box[b] = "unused"
      BY <1>7, <2>3 DEF Create, Boxes
    <3> DEFINE r == [call[c] EXCEPT !.at = "tracking", !.box = b]
    <3>2. call' = [call EXCEPT ![c] = r] /\ r.at = "tracking"
      BY <1>0, <3>1 DEF Call
    <3> HIDE DEF r
    <3>3. \A d \in Calls : call'[d] = IF d = c THEN r ELSE call[d]
      BY <1>0, <3>2
    <3>4. \A d \in Calls : InHunt(d)' <=> InHunt(d)
      BY <2>1, <3>2, <3>3 DEF InHunt, InSearch
    <3>5. tracked = NoBox /\ ~Running(tracked) /\ owed = {}
      BY <1>00, <2>1 DEF SessionCore, InSearch, Running
    <3>6. \A d, e \in Calls : InHunt(d)' /\ InHunt(e)' => d = e
      BY <3>4 DEF SessionCore
    <3>7. \A d \in Calls : call'[d].at # "forcing"
      <4>1. \A d \in Calls : InHunt(d) => d = c
        BY <2>1 DEF SessionCore, InHunt, InSearch
      <4> QED BY <2>1, <3>2, <3>3, <4>1 DEF InHunt
    <3>8. \A d \in Calls : call'[d].at = "executing" => ~Running(call[d].box)' /\ call'[d].box = call[d].box
      <4>1. \A d \in Calls : call[d].at = "executing" => ~Running(call[d].box) /\ call[d].box # b
        BY <1>00, <3>1, <3>5 DEF SessionCore, BoxesCreated, Running
      <4>2. \A d \in Calls : call'[d].at = "executing" => call'[d] = call[d]
        BY <3>2, <3>3
      <4> QED BY <1>0, <3>1, <4>1, <4>2 DEF Running
    <3> QED BY <1>00, <2>1, <3>5, <3>6, <3>7, <3>8 DEF SessionCore, Running
  <2> QED BY <2>2, <2>3
<1>8. CASE Track(c)
  <2> DEFINE r == [call[c] EXCEPT !.at = "executing"]
  <2>1. /\ call[c].at = "tracking" /\ call' = [call EXCEPT ![c] = r] /\ r.at = "executing" /\ r.box = call[c].box
        /\ tracked' = call[c].box /\ UNCHANGED <<box, work, owed>>
    BY <1>0, <1>8 DEF Track, Goes, Call
  <2> HIDE DEF r
  <2>2. \A d \in Calls : call'[d] = IF d = c THEN r ELSE call[d]
    BY <1>0, <2>1
  <2>3. tracked = NoBox /\ owed = {}
    BY <1>00, <2>1 DEF SessionCore, InSearch, Running
  <2>4. \A d \in Calls : InHunt(d) => d = c
    BY <2>1 DEF SessionCore, InHunt, InSearch
  <2>5. \A d \in Calls : ~InHunt(d)'
    BY <2>1, <2>2, <2>4 DEF InHunt, InSearch
  <2>6. \A d \in Calls : call'[d].at = "executing" /\ Running(call[d].box)' => tracked' = call'[d].box
    <3>1. \A d \in Calls : call[d].at = "executing" => ~Running(call[d].box)
      BY <1>00, <2>3 DEF SessionCore, Running
    <3> QED BY <2>1, <2>2, <3>1 DEF Running
  <2> QED BY <2>1, <2>3, <2>5, <2>6 DEF SessionCore, InHunt, Running
<1>9. CASE Execute(c)
  <2> DEFINE b == call[c].box
             r == [call[c] EXCEPT !.at = "over"]
  <2>1. /\ call[c].at = "executing" /\ call' = [call EXCEPT ![c] = r] /\ r.at = "over"
        /\ b \in Boxes /\ UNCHANGED <<tracked, box>>
    BY <1>0, <1>9 DEF Execute, PutFile, RunCommand, Goes, Call
  <2>2. CASE Running(b)
    <3>1. work' = [work EXCEPT ![b] = @ \cup {c}] /\ owed' = owed \cup {c}
      BY <1>9, <2>2 DEF Execute, PutFile, RunCommand, Running
    <3>2. tracked = b
      BY <2>1, <2>2 DEF SessionCore
    <3> HIDE DEF b, r
    <3>3. \A d \in Calls : call'[d] = IF d = c THEN r ELSE call[d]
      BY <1>0, <2>1
    <3>4. \A d \in Calls : call'[d].at \in InSearch \cup {"forcing", "executing"} => call'[d] = call[d]
      BY <2>1, <3>3 DEF InSearch
    <3>5. \A e : Running(e)' <=> Running(e)
      BY <2>1 DEF Running
    <3>6. owed' \subseteq work'[tracked']
      BY <1>0, <2>1, <2>2, <3>1, <3>2 DEF SessionCore
    <3>7. Running(tracked)'
      BY <2>1, <2>2, <3>2 DEF Running
    <3>8. \A d, e \in Calls : InHunt(d)' /\ InHunt(e)' => d = e
      BY <3>4 DEF SessionCore, InHunt
    <3>9. \A d \in Calls : call'[d].at \in InSearch => tracked' = NoBox
      BY <2>1, <3>4 DEF SessionCore
    <3>10. \A d \in Calls : call'[d].at = "forcing" => \A e \in Boxes : Running(e)' => e = call'[d].box
      BY <3>4, <3>5 DEF SessionCore
    <3>11. \A d \in Calls : call'[d].at = "executing" /\ Running(call[d].box)' => tracked' = call'[d].box
      BY <2>1, <3>4 DEF SessionCore, Running
    <3> QED BY <2>1, <3>6, <3>7, <3>8, <3>9, <3>10, <3>11 DEF SessionCore, Running
  <2>3. CASE ~Running(b)
    <3>1. UNCHANGED <<work, owed>>
      BY <1>9, <2>1, <2>3 DEF Execute, PutFile, RunCommand, Running
    <3> HIDE DEF b, r
    <3> QED BY <2>1, <3>1, CallCalm
  <2> QED BY <2>2, <2>3
<1>10. CASE ExecuteElsewhere(c)
  <2> DEFINE r == [call[c] EXCEPT !.at = "over"]
  <2>1. call' = [call EXCEPT ![c] = r] /\ r.at = "over" /\ UNCHANGED <<tracked, box, work, owed>>
    BY <1>0, <1>10 DEF ExecuteElsewhere, Goes, Call
  <2> HIDE DEF r
  <2> QED BY <2>1, CallCalm
<1> QED BY <1>1, <1>2, <1>3, <1>5, <1>6, <1>7, <1>8, <1>9, <1>10 DEF Execution

LEMMA SessionInvStep == ASSUME SessionInv, [ToolNext]_toolVars PROVE SessionInv'
<1>0. ToolTyped /\ OneNamed /\ BoxesCreated /\ (muddled \/ SessionCore)
  BY DEF SessionInv
<1>1. ToolTyped'
  BY <1>0, ToolStepTyped
<1>2. CASE UNCHANGED toolVars
  <2>1. OneNamed' /\ BoxesCreated' /\ (muddled' \/ SessionCore')
    BY <1>0, <1>2 DEF toolVars, OneNamed, BoxesCreated, SessionCore, Running, InHunt
  <2> QED BY <1>1, <2>1 DEF SessionInv
<1>3. CASE ToolNext
  <2>1. OneNamed' /\ BoxesCreated'
    BY <1>0, <1>3, OneNamedStep, BoxesCreatedStep
  <2>2. muddled => muddled'
    <3>1. \A c \in Calls : Execution(c) => (muddled => muddled')
      BY DEF Execution, Enter, ForceStop, Reuse, Look, StopOrphan, Create, Track, Execute, PutFile, RunCommand,
             ExecuteElsewhere
    <3>2. \A c \in Calls : TimeOut(c) => (muddled => muddled')
      BY DEF TimeOut
    <3>3. \A b \in Boxes : Remove(b) \/ ContainerDies(b) => (muddled => muddled')
      BY DEF Remove, ContainerDies
    <3>4. Finish \/ Observe \/ ServiceRestarts \/ (\E p \in Plans : Plan(p)) => (muddled => muddled')
      BY DEF Finish, Observe, ServiceRestarts, Plan
    <3> QED BY <1>3, <3>1, <3>2, <3>3, <3>4 DEF ToolNext
  <2>3. ASSUME SessionCore, ~muddled' PROVE SessionCore'
    <3>0. /\ call \in [Calls -> Call] /\ tracked \in Boxes \cup {NoBox}
          /\ box \in [Boxes -> {"unused", "running", "stopped", "gone"}]
      BY <1>0 DEF ToolTyped, ToolTypeOK
    <3>1. ASSUME NEW c \in Calls, Execution(c) PROVE SessionCore'
      BY <1>0, <2>3, <3>1, SessionCoreExecution
    <3>2. ASSUME NEW p \in Plans, Plan(p) PROVE SessionCore'
      <4>1. \A c \in Calls : call'[c] = call[c] \/ call'[c].at = "entered"
        <5>1. CASE agent.repeats[p] = MaxRepeat
          BY <3>2, <5>1 DEF Plan
        <5>2. CASE agent.repeats[p] # MaxRepeat
          <6>1. PICK new \in SUBSET Calls :
                    call' = [c \in Calls |-> IF c \notin new THEN call[c]
                                            ELSE [at |-> "entered", fresh |-> p \in Fresh, box |-> NoBox]]
            BY <3>2, <5>2 DEF Plan
          <6> QED BY <6>1
        <5> QED BY <5>1, <5>2
      <4>2. UNCHANGED <<tracked, box, work, owed>>
        BY <3>2 DEF Plan
      <4> QED BY <2>3, <4>1, <4>2, CallsCalm
    <3>3. ASSUME UNCHANGED <<call, tracked, box, work, owed>> PROVE SessionCore'
      BY <2>3, <3>3, CallsCalm
    <3>4. ASSUME NEW c \in Calls, TimeOut(c) PROVE SessionCore'
      BY <3>3, <3>4 DEF TimeOut
    <3>5. Finish \/ Observe => SessionCore'
      BY <3>3 DEF Finish, Observe
    <3>6. ASSUME NEW b \in Boxes, Remove(b) PROVE SessionCore'
      <4>1. /\ box[b] = "stopped" /\ box' = [box EXCEPT ![b] = "gone"]
            /\ UNCHANGED <<call, tracked, work, owed>>
        BY <3>6 DEF Remove
      <4>2. \A e \in Boxes : box'[e] = "running" <=> box[e] = "running"
        BY <3>0, <4>1
      <4>3. owed' # {} => Running(tracked)'
        BY <2>3, <4>1, <4>2 DEF SessionCore, Running
      <4> QED BY <2>3, <4>1, <4>2, <4>3, BoxesCalm
    <3>7. ASSUME NEW b \in Boxes, ContainerDies(b) PROVE SessionCore'
      <4>1. box' = [box EXCEPT ![b] = "stopped"] /\ owed' = {} /\ UNCHANGED <<call, tracked, work>>
        BY <3>7 DEF ContainerDies
      <4>2. \A e \in Boxes : box'[e] = "running" => box[e] = "running"
        BY <3>0, <4>1
      <4> QED BY <2>3, <4>1, <4>2, BoxesCalm
    <3>8. ASSUME ServiceRestarts PROVE SessionCore'
      <4>1. /\ call' = [c \in Calls |-> IF call[c].at = "unused" THEN call[c] ELSE [call[c] EXCEPT !.at = "over"]]
            /\ tracked' = NoBox /\ owed' = {} /\ UNCHANGED <<box, work>>
        BY <3>8 DEF ServiceRestarts
      <4>2. \A c \in Calls : [call[c] EXCEPT !.at = "over"].at = "over"
        BY <3>0 DEF Call
      <4>3. \A c \in Calls : call'[c].at \in {"unused", "over"}
        BY <4>1, <4>2
      <4>4. ~Running(tracked)'
        BY <4>1 DEF Running, Boxes, NoBox
      <4>5. \A c \in Calls : ~InHunt(c)' /\ call'[c].at # "executing" /\ call'[c].at \notin InSearch \cup {"forcing"}
        BY <4>3 DEF InHunt, InSearch
      <4> QED BY <4>1, <4>4, <4>5 DEF SessionCore, Running, InHunt
    <3> QED BY <1>3, <3>1, <3>2, <3>4, <3>5, <3>6, <3>7, <3>8 DEF ToolNext
  <2> QED BY <1>0, <1>1, <2>1, <2>2, <2>3 DEF SessionInv
<1> QED BY <1>2, <1>3

\* However the calls of the agent interleave in the service, containers die and the service
\* restarts, a later call finds the work of the earlier ones where it runs, unless two calls
\* stopped or looked for the container at the same time.
THEOREM SessionStaysKept == ToolSpec => []SessionKept
<1>1. SessionInv /\ [ToolNext]_toolVars => SessionInv'
  BY SessionInvStep
<1> QED BY <1>1, SessionInvInit, SessionFollows, PTL DEF ToolSpec
=============================================================================
