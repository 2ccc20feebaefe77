---------------------------- MODULE ToolSessions ----------------------------
(***************************************************************************)
(* One terminal session of the tool service (MS7) and the agent (MS6) that *)
(* uses it.  All calls of a job name the same session, which is a          *)
(* container with a name made of the job's id; the service remembers which *)
(* container it is in a dictionary its threads share without a lock.       *)
(*                                                                         *)
(* Docker (external): a name belongs to one container until it is removed, *)
(* and a container that stops is removed a little later.                   *)
(***************************************************************************)
EXTENDS Naturals, FiniteSets

CONSTANTS
    MaxCalls,       \* the bound on the tool calls of the job
    MaxBoxes,       \* the bound on the containers of its session
    Plans,          \* what the model can ask for: a set of calls to make at the same time
    Wide,           \* the plans that make two calls, the others make one
    Fresh,          \* the plans that ask for a new session
    MaxIterations,  \* max_iterations of the agent (50 in the code)
    MaxRepeat,      \* how often it may ask for the same again (3 in the code)
    MaxMishaps      \* the bound on restarts of the service, containers dying and timeouts

ASSUME ToolAssumption ==
    /\ MaxCalls \in Nat /\ MaxBoxes \in Nat /\ MaxMishaps \in Nat
    /\ MaxIterations \in Nat /\ MaxRepeat \in Nat

VARIABLES
    agent,          \* what the agent does, how many rounds it made and each plan's repeats
    call,           \* what the thread of each call does
    tracked,        \* SESSION_CONTAINERS[session]
    box,            \* the state of each container
    work,           \* the calls whose command ran in each container
    owed,           \* history: calls whose work the session should still hold
    muddled,        \* history: two calls stopped or looked for a container at the same time
    mishaps         \* how many mishaps there were

toolVars == <<agent, call, tracked, box, work, owed, muddled, mishaps>>

Calls == 1..MaxCalls
Boxes == 1..MaxBoxes
NoBox == 0

Agent == [at: {"thinking", "waiting", "done"}, rounds: 0..MaxIterations,
          repeats: [Plans -> 0..(MaxRepeat + 1)], pending: SUBSET Calls]
Call == [at: {"unused", "entered", "forcing", "reusing", "looking", "stopping",
              "creating", "tracking", "executing", "over"},
         fresh: BOOLEAN, box: Boxes \cup {NoBox}]
Unused == [at |-> "unused", fresh |-> FALSE, box |-> NoBox]

ToolTypeOK ==
    /\ agent \in Agent
    /\ call \in [Calls -> Call]
    /\ tracked \in Boxes \cup {NoBox}
    /\ box \in [Boxes -> {"unused", "running", "stopped", "gone"}]
    /\ work \in [Boxes -> SUBSET Calls]
    /\ owed \subseteq Calls /\ muddled \in BOOLEAN /\ mishaps \in 0..MaxMishaps

Mishap == mishaps < MaxMishaps /\ mishaps' = mishaps + 1

-----------------------------------------------------------------------------
(* The agent for LRS models.                                               *)

\* All calls of an answer of the model start together, each as a request of its own.  The
\* same answer once too often ends the job instead.
Plan(p) ==
    /\ agent.at = "thinking" /\ agent.rounds < MaxIterations
    /\ IF agent.repeats[p] = MaxRepeat
       THEN agent' = [agent EXCEPT !.at = "done", !.repeats[p] = @ + 1] /\ UNCHANGED call
       ELSE LET made == Cardinality({c \in Calls : call[c] # Unused})
                new == made + 1 .. made + IF p \in Wide THEN 2 ELSE 1
            IN  /\ new \subseteq Calls
                /\ agent' = [agent EXCEPT !.at = "waiting", !.repeats[p] = @ + 1, !.pending = new]
                /\ call' = [c \in Calls |-> IF c \notin new THEN call[c]
                                            ELSE [at |-> "entered", fresh |-> p \in Fresh, box |-> NoBox]]
    /\ UNCHANGED <<tracked, box, work, owed, muddled, mishaps>>

\* The model answers without a call, or with one that cannot be read, or the agent has gone
\* round often enough.
Finish ==
    /\ agent.at = "thinking"
    /\ agent' = [agent EXCEPT !.at = "done"]
    /\ UNCHANGED <<call, tracked, box, work, owed, muddled, mishaps>>

Observe ==
    /\ agent.at = "waiting" /\ \A c \in agent.pending : call[c].at = "over"
    /\ agent' = [agent EXCEPT !.at = "thinking", !.rounds = @ + 1, !.pending = {}]
    /\ UNCHANGED <<call, tracked, box, work, owed, muddled, mishaps>>

\* The deadline of a request passes at the agent; the thread of the service goes on.
TimeOut(c) ==
    /\ Mishap
    /\ c \in agent.pending /\ call[c].at # "over"
    /\ agent' = [agent EXCEPT !.pending = @ \ {c}]
    /\ UNCHANGED <<call, tracked, box, work, owed, muddled>>

-----------------------------------------------------------------------------
(* A thread of the service: get_or_create_container, then the command.     *)

Named == {b \in Boxes : box[b] \in {"running", "stopped"}}
InSearch == {"looking", "stopping", "creating", "tracking"}
Searching == \E c \in Calls : call[c].at \in InSearch \cup {"forcing"}
Goes(c, from, to) == call[c].at = from /\ call' = [call EXCEPT ![c].at = to]

\* With start_new_session the container of that name is stopped first, if there is one.
Enter(c) ==
    /\ call[c].at = "entered"
    /\ IF call[c].fresh /\ Named # {}
       THEN /\ \E b \in Named : call' = [call EXCEPT ![c].at = "forcing", ![c].box = b]
            /\ muddled' = (muddled \/ Searching)
       ELSE /\ call' = [call EXCEPT ![c].at = "reusing"]
            /\ UNCHANGED muddled
    /\ UNCHANGED <<agent, tracked, box, work, owed, mishaps>>

Halt(b) == [box EXCEPT ![b] = IF @ = "running" THEN "stopped" ELSE @]

\* Whatever the stop comes to, the session is not tracked any more.
ForceStop(c) ==
    /\ Goes(c, "forcing", "reusing")
    /\ box' = Halt(call[c].box)
    /\ tracked' = NoBox
    /\ owed' = {}
    /\ UNCHANGED <<agent, work, muddled, mishaps>>

\* A tracked container that is gone is forgotten; one that has stopped cannot be started,
\* as it is about to be removed, and the call fails.
Reuse(c) ==
    /\ IF tracked = NoBox \/ (tracked # NoBox /\ box[tracked] = "gone")
       THEN /\ Goes(c, "reusing", "looking")
            /\ tracked' = NoBox
            /\ muddled' = (muddled \/ Searching)
       ELSE /\ call[c].at = "reusing"
            /\ call' = [call EXCEPT ![c] = IF box[tracked] = "running"
                                           THEN [@ EXCEPT !.at = "executing", !.box = tracked]
                                           ELSE [@ EXCEPT !.at = "over"]]
            /\ UNCHANGED <<tracked, muddled>>
    /\ UNCHANGED <<agent, box, work, owed, mishaps>>

\* An untracked container of that name is an orphan, to be stopped.
Look(c) ==
    /\ call[c].at = "looking"
    /\ IF Named # {}
       THEN \E b \in Named : call' = [call EXCEPT ![c].at = "stopping", ![c].box = b]
       ELSE call' = [call EXCEPT ![c].at = "creating"]
    /\ UNCHANGED <<agent, tracked, box, work, owed, muddled, mishaps>>

StopOrphan(c) ==
    /\ Goes(c, "stopping", "creating")
    /\ box' = Halt(call[c].box)
    /\ UNCHANGED <<agent, tracked, work, owed, muddled, mishaps>>

\* While the name is taken a container cannot be created, and the call fails.
Create(c) ==
    /\ call[c].at = "creating"
    /\ IF Named # {}
       THEN /\ call' = [call EXCEPT ![c].at = "over"]
            /\ UNCHANGED box
       ELSE \E b \in Boxes :
                /\ \A n \in Boxes : box[n] = "unused" <=> n >= b
                /\ box' = [box EXCEPT ![b] = "running"]
                /\ call' = [call EXCEPT ![c].at = "tracking", ![c].box = b]
    /\ UNCHANGED <<agent, tracked, work, owed, muddled, mishaps>>

\* Mutant for SessionKept: a new container is not remembered.
MutTrack(c) == Goes(c, "tracking", "executing") /\ UNCHANGED <<agent, tracked, box, work, owed, muddled, mishaps>>
Track(c) ==
    /\ Goes(c, "tracking", "executing")
    /\ tracked' = call[c].box
    /\ UNCHANGED <<agent, box, work, owed, muddled, mishaps>>

\* The command runs, or its container is no longer there.
RunCommand(c) ==
    LET b == call[c].box IN
    /\ Goes(c, "executing", "over")
    /\ IF box[b] = "running"
       THEN /\ work' = [work EXCEPT ![b] = @ \cup {c}]
            /\ owed' = owed \cup {c}
       ELSE UNCHANGED <<work, owed>>
    /\ UNCHANGED <<agent, tracked, box, muddled, mishaps>>

\* A file is put into the container of the session, never into a new one.
PutFile(c) == ~call[c].fresh /\ RunCommand(c)

Execute(c) == RunCommand(c) \/ PutFile(c)

\* A tool that needs no session: a webhook, or another function of the service.
ExecuteElsewhere(c) ==
    /\ Goes(c, "entered", "over")
    /\ UNCHANGED <<agent, tracked, box, work, owed, muddled, mishaps>>

-----------------------------------------------------------------------------
(* Docker, and the process of the service.                                 *)

Remove(b) ==
    /\ box[b] = "stopped"
    /\ box' = [box EXCEPT ![b] = "gone"]
    /\ UNCHANGED <<agent, call, tracked, work, owed, muddled, mishaps>>

ContainerDies(b) ==
    /\ Mishap
    /\ box[b] = "running"
    /\ box' = [box EXCEPT ![b] = "stopped"]
    /\ owed' = {}
    /\ UNCHANGED <<agent, call, tracked, work, muddled>>

\* The calls under way fail.  The container outlives the dictionary, and is taken for an
\* orphan by the next call.
ServiceRestarts ==
    /\ Mishap
    /\ tracked # NoBox \/ \E c \in Calls : call[c].at \notin {"unused", "over"}
    /\ call' = [c \in Calls |-> IF call[c].at = "unused" THEN call[c] ELSE [call[c] EXCEPT !.at = "over"]]
    /\ tracked' = NoBox
    /\ owed' = {}
    /\ UNCHANGED <<agent, box, work, muddled>>

-----------------------------------------------------------------------------
ToolInit ==
    /\ agent = [at |-> "thinking", rounds |-> 0, repeats |-> [p \in Plans |-> 0], pending |-> {}]
    /\ call = [c \in Calls |-> Unused]
    /\ tracked = NoBox
    /\ box = [b \in Boxes |-> "unused"]
    /\ work = [b \in Boxes |-> {}]
    /\ owed = {} /\ muddled = FALSE /\ mishaps = 0

Execution(c) ==
    \/ Enter(c) \/ ForceStop(c) \/ Reuse(c) \/ Look(c) \/ StopOrphan(c) \/ Create(c) \/ Track(c) \/ Execute(c)
    \/ ExecuteElsewhere(c)

ToolNext ==
    \/ \E p \in Plans : Plan(p)
    \/ Finish \/ Observe
    \/ \E c \in Calls : TimeOut(c) \/ Execution(c)
    \/ \E b \in Boxes : Remove(b) \/ ContainerDies(b)
    \/ ServiceRestarts

ToolSpec == ToolInit /\ [][ToolNext]_toolVars

-----------------------------------------------------------------------------
\* What the calls of a job did in its session is there for the later ones: the container
\* that is tracked, and every running one a command is about to run in, holds the work of
\* all of them, until a new session is asked for, the service restarts or the container
\* dies.  Calls may be made at the same time once the session has its container; when two
\* of them look for one at the same time, either may fail, or stop the container of the
\* other one, and one that still stops the old container then makes the service forget the
\* new one.
SessionKept ==
    muddled \/
    /\ tracked # NoBox /\ box[tracked] = "running" => owed \subseteq work[tracked]
    /\ \A c \in Calls : call[c].at = "executing" /\ box[call[c].box] = "running" => owed \subseteq work[call[c].box]
    /\ owed # {} => tracked # NoBox /\ box[tracked] = "running"
=============================================================================
