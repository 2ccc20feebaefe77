---------------------------- MODULE MCInference ----------------------------
(***************************************************************************)
(* Four instances in one run, one of them chosen at the start: in the      *)
(* scene "job" job1 goes from its request to its last result, in "memory"  *)
(* the turns of two finished jobs are stored, in "session" the agent of a  *)
(* job uses its terminal, in "runtime" a local model is deployed.          *)
(***************************************************************************)
EXTENDS Inference, ToolSessions, ModelRuntime, TLC

CONSTANTS job1, job2, t1, t2, c1, c2, e1, look, two, renew

VARIABLE scene

mcVars == <<inferenceVars, toolVars, runtimeVars, scene>>

Ask(from, node, provider, capabilities, files, wants, streaming) ==
    [from |-> from, node |-> node, model |-> provider, capabilities |-> capabilities, files |-> files,
     wants |-> wants, streaming |-> streaming]

Plain == Ask("user", "usable", "ollama", {"text"}, {"image"}, {}, FALSE)

MCRequests == {Plain,
    Ask("user", "usable", "google", {"text", "image"}, {"image"}, {}, TRUE),
    Ask("user", "usable", "ollama", {"text"}, {}, {"memory"}, FALSE),
    Ask("graph", "usable", "ollama", {"text"}, {}, {"memory"}, TRUE),
    Ask("user", "usable", "lrs", {"text"}, {"other"}, {"tools"}, TRUE),
    Ask("user", "draft", "ollama", {"text"}, {}, {}, FALSE),
    Ask("user", "usable", "other", {"text"}, {"text"}, {"rag"}, FALSE),
    Ask("graph", "draft", "google", {"text"}, {}, {"memory", "tools"}, FALSE),
    Ask("graph", "usable", "none", {"text"}, {}, {}, FALSE)}

\* What does not move starts in one state only; in "runtime" either the one container left
\* to start may meet troubles, or both start and nothing else goes wrong.
MCInit ==
    /\ ChannelsInit /\ StreamInit /\ MemoryInit /\ ToolInit /\ RuntimeInit
    /\ scene \in {"job", "memory", "session", "runtime"}
    /\ JobsStart(IF scene = "job" THEN {job2} ELSE Jobs)
    /\ request[job2] = Plain
    /\ scene # "job" => request[job1] = Plain
    /\ updates \in [Jobs -> IF scene = "memory" THEN 1..2 ELSE {0}]
    /\ bucket.open \/ (scene = "job" /\ "memory" \in request[job1].wants)
    /\ IF scene = "runtime" THEN container[1] = "none" <=> troubles = MaxTroubles
       ELSE container[1] = "none" /\ troubles = 0

\* To keep the instance small nobody cancels the job that streams to a user.
MCNext ==
    \/ /\ UNCHANGED <<toolVars, runtimeVars, scene>>
       /\ \/ scene = "job" /\ JobsNext /\ UNCHANGED <<streamVars, memoryVars>>
             /\ \A j \in Jobs : request[j].model = "google" => cancelling'[j] = 0
          \/ scene = "job" /\ StreamNext /\ UNCHANGED <<jobVars, memoryVars>>
          \/ scene = "memory" /\ MemoryNext /\ UNCHANGED <<jobVars, streamVars>>
    \/ scene = "session" /\ ToolNext /\ UNCHANGED <<inferenceVars, runtimeVars, scene>>
    \/ scene = "runtime" /\ RuntimeNext /\ UNCHANGED <<inferenceVars, toolVars, scene>>

\* InferenceFairness: none of its actions is enabled but in the scene "job".
MCFairness ==
    /\ \A j \in Jobs :
        /\ WF_inferenceVars(scene = "job" /\ Taken(j))
        /\ WF_inferenceVars(scene = "job" /\ Forwarded(j))
    /\ \A t \in Tasks : WF_inferenceVars(scene = "job" /\ Awaited(t))

MCSpec == MCInit /\ [][MCNext]_mcVars /\ MCFairness

MCTypeOK == InferenceTypeOK /\ ToolTypeOK /\ RuntimeTypeOK
=============================================================================
