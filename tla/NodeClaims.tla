----------------------------- MODULE NodeClaims -----------------------------
(***************************************************************************)
(* The nodes of the graphs of MS14 are linked to agent nodes of MS4.  MS4  *)
(* marks a linked agent as used, because MS14 tells it so (claim and       *)
(* unclaim), and when an agent so marked is deleted, MS4 tells MS14 to     *)
(* remove the links.  The mark is a flag: it does not count the links.     *)
(*                                                                         *)
(* An operation of MS14 is a transaction that calls MS4 before it saves.   *)
(* The database locks for a transaction what it has read: none can be      *)
(* saved while another is open, and of two that wait one fails.            *)
(***************************************************************************)
EXTENDS Naturals, FiniteSets

CONSTANTS
    Slots,          \* nodes of graphs
    Graphs,         \* graphs
    GraphOf,        \* the graph of each of the nodes
    Agents,         \* agent nodes of MS4; an id is never used twice
    Tasks,          \* operations of MS14 that can be under way at once
    NoAgent,        \* not an agent
    MaxOperations,  \* the bound on operations of MS14
    MaxLosses       \* the bound on calls and transactions that fail

ASSUME ClaimsAssumption ==
    /\ GraphOf \in [Slots -> Graphs]
    /\ NoAgent \notin Agents
    /\ MaxOperations \in Nat /\ MaxLosses \in Nat

VARIABLES
    agents,         \* MS4: each agent and its mark
    link,           \* MS14: the agent each node is linked to
    task,           \* operations of MS14
    removing,       \* deletions of agents, in MS4
    operations,     \* how many operations have been begun
    losses,         \* how many calls and transactions have failed
    shared,         \* history: node and agent that another operation released
    undone,         \* history: node and agent that an operation released before it failed
    late,           \* history: node and agent that was being deleted when they were linked
    unmarked,       \* history: node and agent that was not marked when its deletion began
    unheard         \* history: agents the deletion of which MS14 did not hear of

claimsVars == <<agents, link, task, removing, operations, losses, shared, undone, late, unmarked, unheard>>

Agent == {"free", "used", "gone"}
NoTask == [step |-> "idle", slots |-> {}, old |-> {}, released |-> {}, new |-> NoAgent]

ClaimsTypeOK ==
    /\ agents \in [Agents -> Agent]
    /\ link \in [Slots -> Agents \cup {NoAgent}]
    /\ task \in [Tasks -> [step: {"idle", "claim", "unclaim", "save"}, slots: SUBSET Slots,
                           old: SUBSET Agents, released: SUBSET Agents,
                           new: Agents \cup {NoAgent}]]
    /\ removing \in [Agents -> {"idle", "notify", "delete"}]
    /\ operations \in 0..MaxOperations
    /\ losses \in 0..MaxLosses
    /\ shared \cup undone \cup late \cup unmarked \subseteq Slots \X Agents
    /\ unheard \subseteq Agents

-----------------------------------------------------------------------------
Loss == losses < MaxLosses /\ losses' = losses + 1

Linked(x) == {s \in Slots : link[s] = x}

Open == {t \in Tasks : task[t].step # "idle"}

OnlyOpen(t) == Open \subseteq {t}

\* After the calls there is something left to release, or the row is saved.
Following(old) == IF old = {} THEN "save" ELSE "unclaim"

-----------------------------------------------------------------------------
(* MS14.                                                                   *)

AgentsOf(ss) == {link[s] : s \in ss} \ {NoAgent}

\* MS4 answers for the agents it has.
Exists(x) == agents[x] # "gone"

\* A node is created with an agent, updated to have another, or attached to one, which
\* must exist and not be linked in this graph yet.
Attach(t, s, x) ==
    /\ task[t].step = "idle"
    /\ operations < MaxOperations /\ operations' = operations + 1
    /\ Exists(x)
    /\ \A other \in Linked(x) \ {s} : GraphOf[other] # GraphOf[s]
    /\ task' = [task EXCEPT ![t] = [step |-> "claim", slots |-> {s}, old |-> AgentsOf({s}) \ {x},
                                    released |-> {}, new |-> x]]
    /\ UNCHANGED <<agents, link, removing, losses, shared, undone, late, unmarked, unheard>>

Release(t, ss) ==
    /\ task[t].step = "idle"
    /\ operations < MaxOperations /\ operations' = operations + 1
    /\ AgentsOf(ss) # {}
    /\ task' = [task EXCEPT ![t] = [step |-> "unclaim", slots |-> ss, old |-> AgentsOf(ss),
                                    released |-> {}, new |-> NoAgent]]
    /\ UNCHANGED <<agents, link, removing, losses, shared, undone, late, unmarked, unheard>>

\* The node is detached, or deleted; with the graph all its nodes are.
Detach(t, s) == Release(t, {s})
DeleteLinkedNode(t, s) == Release(t, {s})
DeleteLinkedGraph(t, g) == Release(t, {s \in Slots : GraphOf[s] = g})

\* The transaction is rolled back; MS4 keeps what it was told.
RollBack(t) ==
    /\ task' = [task EXCEPT ![t] = NoTask]
    /\ undone' = undone \cup {y \in task[t].slots \X task[t].released : link[y[1]] = y[2]}

\* Mutant for LinkedIsUsed: the agent is only looked up.
MutMarked(x) == agents

Marked(x) == [agents EXCEPT ![x] = "used"]

Claim(t) ==
    LET x == task[t].new IN
    /\ task[t].step = "claim"
    /\ \/ /\ Exists(x)
          /\ agents' = Marked(x)
          /\ task' = [task EXCEPT ![t].step = Following(task[t].old)]
          /\ shared' = shared \ (Slots \X {x}) /\ undone' = undone \ (Slots \X {x})
          /\ UNCHANGED losses
       \/ /\ ~Exists(x)
          /\ RollBack(t)
          /\ UNCHANGED <<agents, losses, shared>>
       \/ /\ Loss
          /\ RollBack(t)
          /\ UNCHANGED <<agents, shared>>
    /\ UNCHANGED <<operations, link, removing, late, unmarked, unheard>>

\* The other nodes that are linked to the agent, or are about to be, are not asked.
OthersOf(t, x) ==
    (Linked(x) \ task[t].slots) \cup
        UNION {task[u].slots : u \in {u \in Open : task[u].new = x /\ task[u].step # "claim"}}

\* A call that fails is ignored.
Unclaim(t, x) ==
    LET old == task[t].old \ {x} IN
    /\ task[t].step = "unclaim" /\ x \in task[t].old
    /\ \/ /\ agents' = IF Exists(x) THEN [agents EXCEPT ![x] = "free"] ELSE agents
          /\ task' = [task EXCEPT ![t].step = Following(old), ![t].old = old, ![t].released = @ \cup {x}]
          /\ shared' = shared \cup (OthersOf(t, x) \X {x})
          /\ UNCHANGED losses
       \/ /\ Loss
          /\ task' = [task EXCEPT ![t].step = Following(old), ![t].old = old]
          /\ UNCHANGED <<agents, shared>>
    /\ UNCHANGED <<operations, link, removing, undone, late, unmarked, unheard>>

Relink(ss, x) == link' = [s \in Slots |-> IF s \in ss THEN x ELSE link[s]]

SaveLinks(t) ==
    LET ss == task[t].slots
        x == task[t].new
    IN  /\ task[t].step = "save"
        /\ OnlyOpen(t)
        /\ Relink(ss, x)
        /\ task' = [task EXCEPT ![t] = NoTask]
        /\ late' = late \cup {y \in ss \X ({x} \ {NoAgent}) :
                               agents[y[2]] = "gone" \/ removing[y[2]] # "idle"}
        /\ UNCHANGED <<operations, agents, removing, losses, shared, undone, unmarked, unheard>>

\* The database is locked, or something else goes wrong.
FailToSave(t) ==
    /\ task[t].step = "save"
    /\ IF OnlyOpen(t) THEN Loss ELSE UNCHANGED losses
    /\ RollBack(t)
    /\ UNCHANGED <<operations, agents, link, removing, shared, late, unmarked, unheard>>

\* The cleanup of a project deletes its graphs and releases no agent.
SweepGraph(g) ==
    LET ss == {s \in Slots : GraphOf[s] = g} IN
    /\ Open = {} /\ AgentsOf(ss) # {}
    /\ Relink(ss, NoAgent)
    /\ UNCHANGED <<operations, agents, task, removing, losses, shared, undone, late, unmarked, unheard>>

-----------------------------------------------------------------------------
(* MS4.                                                                    *)

\* Mutant for NoDanglingLink: MS14 is told of the agents that are not used.
MutMustNotify(x) == agents[x] = "free"

MustNotify(x) == agents[x] = "used"

\* What was read decides whether MS14 is told.
LoadToDelete(x) ==
    /\ Exists(x) /\ removing[x] = "idle"
    /\ removing' = [removing EXCEPT ![x] = IF MustNotify(x) THEN "notify" ELSE "delete"]
    /\ unmarked' = IF agents[x] = "free" THEN unmarked \cup (Linked(x) \X {x}) ELSE unmarked
    /\ UNCHANGED <<operations, agents, link, task, losses, shared, undone, late, unheard>>

\* MS14 removes all the links to the agent, which it cannot while a transaction is open.
ClearLinks(x) == Open = {} /\ Relink(Linked(x), NoAgent)

\* A call that fails is ignored.
NotifyDeletion(x) ==
    /\ removing[x] = "notify"
    /\ removing' = [removing EXCEPT ![x] = "delete"]
    /\ \/ ClearLinks(x) /\ UNCHANGED <<losses, unheard>>
       \/ /\ IF Open = {} THEN Loss ELSE UNCHANGED losses
          /\ unheard' = unheard \cup {x}
          /\ UNCHANGED link
    /\ UNCHANGED <<operations, agents, task, shared, undone, late, unmarked>>

DeleteAgent(x) ==
    /\ removing[x] = "delete"
    /\ agents' = [agents EXCEPT ![x] = "gone"]
    /\ removing' = [removing EXCEPT ![x] = "idle"]
    /\ UNCHANGED <<operations, link, task, losses, shared, undone, late, unmarked, unheard>>

\* The cleanup of a project deletes its agents and tells MS14 of none.
SweepAgent(x) ==
    /\ Exists(x) /\ removing[x] = "idle"
    /\ agents' = [agents EXCEPT ![x] = "gone"]
    /\ unheard' = unheard \cup {x}
    /\ UNCHANGED <<operations, link, task, removing, losses, shared, undone, late, unmarked>>

-----------------------------------------------------------------------------
ClaimsInit ==
    /\ agents = [x \in Agents |-> "free"]
    /\ link = [s \in Slots |-> NoAgent]
    /\ task = [t \in Tasks |-> NoTask]
    /\ removing = [x \in Agents |-> "idle"]
    /\ operations = 0 /\ losses = 0
    /\ shared = {} /\ undone = {} /\ late = {}
    /\ unmarked = {} /\ unheard = {}

TaskNext(t) ==
    \/ \E s \in Slots :
        \/ \E x \in Agents : Attach(t, s, x)
        \/ Detach(t, s) \/ DeleteLinkedNode(t, s)
    \/ \E g \in Graphs : DeleteLinkedGraph(t, g)
    \/ Claim(t)
    \/ \E x \in Agents : Unclaim(t, x)
    \/ SaveLinks(t) \/ FailToSave(t)

ClaimsNext ==
    \/ \E t \in Tasks : TaskNext(t)
    \/ \E g \in Graphs : SweepGraph(g)
    \/ \E x \in Agents :
        LoadToDelete(x) \/ NotifyDeletion(x) \/ DeleteAgent(x) \/ SweepAgent(x)

ClaimsSpec == ClaimsInit /\ [][ClaimsNext]_claimsVars

-----------------------------------------------------------------------------
(* Properties.                                                             *)

\* An operation that is under way has released the agent of s.
Releasing(s) == \E t \in Open : s \in task[t].slots /\ link[s] \in task[t].released

\* An agent that a node is linked to is marked as used, unless an operation is just
\* releasing it, has done so and failed, or it was released for another node linked to it.
LinkedIsUsed ==
    \A s \in Slots :
        link[s] # NoAgent /\ agents[link[s]] = "free" =>
            Releasing(s) \/ <<s, link[s]>> \in undone \cup shared

\* No node is linked to an agent that is gone, unless the agent was not marked when its
\* deletion began, MS14 did not hear of it, or the link was saved during the deletion.
NoDanglingLink ==
    \A s \in Slots :
        link[s] # NoAgent /\ agents[link[s]] = "gone" =>
            <<s, link[s]>> \in unmarked \cup late \/ link[s] \in unheard
=============================================================================
