----------------------------- MODULE Inference -----------------------------
(***************************************************************************)
(* The jobs, the stream of their results and the memory they feed, as one  *)
(* system.                                                                 *)
(***************************************************************************)
EXTENDS InferenceJobs, ResultStream

inferenceVars == <<channelVars, jobVars, streamVars, memoryVars>>

InferenceInit ==
    /\ ChannelsInit /\ JobsStart({}) /\ StreamInit /\ MemoryInit
    /\ updates = [j \in Jobs |-> 0]

InferenceNext ==
    \/ JobsNext /\ UNCHANGED <<streamVars, memoryVars>>
    \/ StreamNext /\ UNCHANGED <<jobVars, memoryVars>>
    \/ MemoryNext /\ UNCHANGED <<jobVars, streamVars>>

\* A job in a queue is taken, a task that runs comes to its next await (a model answers or
\* fails), and the stream of results forwards what it has.  Nobody has to cancel, to
\* connect or to fail.
Taken(j) == (\E t \in Tasks : Deliver(t, j)) /\ UNCHANGED <<streamVars, memoryVars>>
Awaited(t) == Process(t) /\ UNCHANGED <<streamVars, memoryVars>>
Forwarded(j) == (Replay(j) \/ OnMessage(j)) /\ UNCHANGED <<jobVars, memoryVars>>

InferenceFairness ==
    /\ \A j \in Jobs : WF_inferenceVars(Taken(j)) /\ WF_inferenceVars(Forwarded(j))
    /\ \A t \in Tasks : WF_inferenceVars(Awaited(t))

InferenceSpec == InferenceInit /\ [][InferenceNext]_inferenceVars /\ InferenceFairness

InferenceTypeOK == ChannelsTypeOK /\ JobsTypeOK /\ StreamTypeOK /\ MemoryTypeOK

\* A job that was queued gets a final result, whatever becomes of the process that queued
\* it, of the executor and of cancellations, except when the publication of the result
\* fails or the job is interrupted twice: its message then waits for a restart.  A client
\* that watches it is not left waiting when the result is out.
JobAnswered ==
    \A j \in Jobs :
        /\ queue[j] > 0 ~> Answered(j) \/ stuck[j] > 0
        /\ Active(j) /\ Answered(j) ~> ~Active(j) \/ j \in lost
=============================================================================
