--------------------------- MODULE GraphAuthoring ---------------------------
(***************************************************************************)
(* One graph of MS14 as its users edit it: nodes, edges with the buffers   *)
(* they bring along, rules, and projections, the contexts rules consume.   *)
(* This is the structure the engine of MS15 is later given to run.         *)
(*                                                                         *)
(* Every operation is one database transaction, but the creation of an     *)
(* edge, which searches the graph first and creates the edge later.        *)
(*                                                                         *)
(* The buffers of an edge (FFO and FFI, or FBO and FBI) come and go with   *)
(* it and are not represented; an output of a rule is named by the node it *)
(* leads to.  Names, firing modes, loop bounds and prompt texts are data.  *)
(***************************************************************************)
EXTENDS Naturals, FiniteSets

CONSTANTS
    GNodes,         \* ids of nodes; an id is never used twice
    Rules,          \* ids of rules
    Creators,       \* requests to create an edge that can be under way at once
    NoGNode,        \* not a node
    NoOwner,        \* not a rule: the projection is a seed or the base of an edge
    MaxRemovals,    \* the bound on deletions of edges and rules
    MaxPatches      \* the bound on changes of nodes and rules

ASSUME AuthoringAssumption ==
    /\ NoGNode \notin GNodes
    /\ NoOwner \notin Rules
    /\ IsFiniteSet(GNodes) /\ IsFiniteSet(Rules)
    /\ MaxRemovals \in Nat /\ MaxPatches \in Nat

VARIABLES
    gnodes,         \* the status of each node
    forward,        \* forward edges, as pairs of source and destination
    feedback,       \* feedback edges
    projections,    \* the projections that exist
    rules,          \* the rules: owner, inputs, outputs, placeholders of the prompt
    search,         \* what each creation of an edge has found
    removals,       \* how many deletions there have been
    patches,        \* how many changes there have been
    raced,          \* history: an edge was created while another creation was under way
    rewired,        \* history: rules the outputs of which were changed
    cut,            \* history: rules an input of which went with a node
    seedless        \* history: nodes made start nodes when they had a feedback edge

authoringVars == <<gnodes, forward, feedback, projections, rules, search,
                   removals, patches, raced, rewired, cut, seedless>>

GNode == {"new", "plain", "start", "deleted"}
Edge == GNodes \X GNodes

\* Its buffer leads from source to owner; a seed has no buffer.
Projection == [owner: GNodes, source: GNodes \cup {NoGNode}, rule: Rules \cup {NoOwner}]

Seed(n) == [owner |-> n, source |-> NoGNode, rule |-> NoOwner]
Base(e) == [owner |-> e[2], source |-> e[1], rule |-> NoOwner]
Derived(r, n, d) == [owner |-> d, source |-> n, rule |-> r]

RuleRow == [owner: GNodes \cup {NoGNode}, inputs: SUBSET Projection, outputs: SUBSET GNodes,
            terminal: BOOLEAN, placeholders: SUBSET Projection]
NoRule == [owner |-> NoGNode, inputs |-> {}, outputs |-> {},
           terminal |-> FALSE, placeholders |-> {}]

NoSearch == [step |-> "idle", edge |-> <<NoGNode, NoGNode>>, type |-> "none"]

Present == {n \in GNodes : gnodes[n] \in {"plain", "start"}}
Starts == {n \in GNodes : gnodes[n] = "start"}
Defined == {r \in Rules : rules[r] # NoRule}
Edges == forward \cup feedback

AuthoringTypeOK ==
    /\ gnodes \in [GNodes -> GNode]
    /\ forward \subseteq Edge /\ feedback \subseteq Edge
    /\ projections \subseteq Projection
    /\ \A r \in Rules :
        /\ rules[r].owner \in GNodes \cup {NoGNode}
        /\ rules[r].inputs \subseteq projections
        /\ rules[r].outputs \subseteq GNodes
        /\ rules[r].placeholders \subseteq Projection
    /\ \A c \in Creators :
        /\ search[c].step \in {"idle", "found"}
        /\ search[c].type \in {"none", "forward", "feedback"}
    /\ removals \in 0..MaxRemovals
    /\ patches \in 0..MaxPatches
    /\ raced \in BOOLEAN
    /\ rewired \subseteq Rules /\ cut \subseteq Rules /\ seedless \subseteq GNodes

-----------------------------------------------------------------------------
(* What the structure says.                                                *)

\* The nodes reached from n along the edges in E.
Reach(E, n) ==
    LET within[k \in Nat] ==
            IF k = 0 THEN {n}
            ELSE LET near == within[k - 1] IN near \cup {e[2] : e \in {e \in E : e[1] \in near}}
    IN  within[Cardinality(GNodes)]

\* The projections a rule's result is made of are those the rule consumes.
Children(p) == IF p.rule = NoOwner THEN {} ELSE rules[p.rule].inputs

IsFeedback(p) == <<p.source, p.owner>> \in feedback

\* A projection with the projections it descends from, up to the first feedback.
Line(p) ==
    LET within[k \in Nat] ==
            IF k = 0 THEN {p}
            ELSE LET near == within[k - 1]
                 IN  near \cup UNION {Children(q) : q \in {q \in near : ~IsFeedback(q)}}
    IN  within[Cardinality(Rules) + 1]

\* Feedback of the owner itself that has come back to it.
IsHomeRun(p) ==
    p.rule # NoOwner /\ \E q \in Line(p) : IsFeedback(q) /\ q.source = p.owner

IsSeed(p) == p.source = NoGNode /\ p.owner \in Starts

\* Mutant for RulesCanFire: the base projection of an edge can be consumed too.
MutIsSelectable(p) == ~IsHomeRun(p)

IsSelectable(p) == ~IsHomeRun(p) /\ (IsSeed(p) \/ p.rule # NoOwner)

ContextFamily(p) == IF \E q \in Line(p) : IsFeedback(q) THEN "feedback" ELSE "forward"

Destinations(E, n) == {d \in GNodes : <<n, d>> \in E}

-----------------------------------------------------------------------------
(* What a deletion takes with it.                                          *)

Consumers(ps) == {r \in Rules : rules[r].inputs \cap ps # {}}

Generated(rs) == {p \in projections : p.rule \in rs}

\* Mutant for InputsKept: the consumers are left to the database.
MutWithDownstream(rs) == rs

\* The rules in rs and, recursively, those that consume what they produce.
WithDownstream(rs) ==
    LET within[k \in Nat] ==
            IF k = 0 THEN rs
            ELSE LET near == within[k - 1] IN near \cup Consumers(Generated(near))
    IN  within[Cardinality(Rules)]

\* Mutant for RoutesKept: the outputs stay when their buffers go.
MutOutputsLeft(r, lost) == rules[r].outputs

OutputsLeft(r, lost) == {d \in rules[r].outputs : <<rules[r].owner, d>> \notin lost}

\* The database deletes the rules dead, the projections in gone and those the dead rules
\* made, and the edges lost with their buffers; inputs and outputs go with what they
\* refer to, and the rules that had them stay.
Cascade(dead, gone, lost) ==
    LET left == (projections \ gone) \ Generated(dead)
        Left(r) == [rules[r] EXCEPT !.inputs = @ \cap left, !.outputs = OutputsLeft(r, lost)]
    IN  /\ projections' = left
        /\ rules' = [r \in Rules |-> IF r \in dead THEN NoRule ELSE Left(r)]
        /\ forward' = forward \ lost
        /\ feedback' = feedback \ lost
        /\ rewired' = rewired \ dead

Removal == removals < MaxRemovals /\ removals' = removals + 1
Patch == patches < MaxPatches /\ patches' = patches + 1

-----------------------------------------------------------------------------
(* Nodes.                                                                  *)

\* A start node comes with its seed.
NodeRow(n, start) ==
    /\ gnodes' = [gnodes EXCEPT ![n] = IF start THEN "start" ELSE "plain"]
    /\ projections' = projections \cup {Seed(m) : m \in {m \in {n} : start}}

CreateNode(n, start) ==
    /\ gnodes[n] = "new"
    /\ NodeRow(n, start)
    /\ UNCHANGED <<forward, feedback, rules, search, removals, patches,
                   raced, rewired, cut, seedless>>

\* What the code takes for seeds: no forward buffer and no rule.  The base projection of a
\* feedback edge is one of them.
SeedRows(n) ==
    {p \in projections : p.owner = n /\ p.rule = NoOwner /\ (p.source = NoGNode \/ IsFeedback(p))}

\* Mutant for StartIsRoot: the incoming edges are not looked at.
MutMayBeStart(n) == TRUE

\* Saving a start node checks that no forward edge leads to it.
MayBeStart(n) == \A e \in forward : e[2] # n

\* The seed is created unless there is one already, or what is taken for one; two of them
\* are an error, and nothing is saved.
MakeStart(n) ==
    /\ gnodes[n] = "plain"
    /\ Patch
    /\ MayBeStart(n)
    /\ Cardinality(SeedRows(n)) < 2
    /\ gnodes' = [gnodes EXCEPT ![n] = "start"]
    /\ projections' = IF SeedRows(n) = {} THEN projections \cup {Seed(n)} ELSE projections
    /\ seedless' = IF SeedRows(n) = {} THEN seedless ELSE seedless \cup {n}
    /\ UNCHANGED <<forward, feedback, rules, search, removals, raced, rewired, cut>>

\* Mutant for MCTypeOK: the rules are not looked at.
MutSeedInUse(n) == FALSE

SeedInUse(n) == Consumers(SeedRows(n)) # {}

MakePlain(n) ==
    /\ gnodes[n] = "start"
    /\ Patch
    /\ ~SeedInUse(n)
    /\ gnodes' = [gnodes EXCEPT ![n] = "plain"]
    /\ projections' = projections \ SeedRows(n)
    /\ seedless' = seedless \ {n}
    /\ UNCHANGED <<forward, feedback, rules, search, removals, raced, rewired, cut>>

\* The database cascade: the deletion of rules and edges that a user asks for recurses
\* to the consumers, this one does not.
DeleteNode(n) ==
    LET dead == {r \in Defined : rules[r].owner = n}
        gone == {p \in projections : n \in {p.owner, p.source}}
    IN  /\ n \in Present
        /\ Removal
        /\ Cascade(dead, gone, {e \in Edges : n \in {e[1], e[2]}})
        /\ gnodes' = [gnodes EXCEPT ![n] = "deleted"]
        /\ cut' = (cut \cup Consumers(gone \cup Generated(dead))) \ dead
        /\ seedless' = seedless \ {n}
        /\ UNCHANGED <<search, patches, raced>>

\* A user deletes the graph, or the cleanup of its project does.
DeleteGraph ==
    /\ Present # {}
    /\ Cascade(Rules, projections, Edges)
    /\ gnodes' = [n \in GNodes |-> "deleted"]
    /\ cut' = {} /\ seedless' = {}
    /\ UNCHANGED <<search, removals, patches, raced>>

-----------------------------------------------------------------------------
(* Edges.                                                                  *)

\* Mutant for ForwardAcyclic: the search starts at the wrong end.
MutEdgeType(s, d) == IF d \in Reach(forward, s) THEN "feedback" ELSE "forward"

\* An edge that closes a cycle of forward edges is a feedback edge.
EdgeType(s, d) == IF s \in Reach(forward, d) THEN "feedback" ELSE "forward"

FindEdgeType(c, s, d) ==
    /\ search[c].step = "idle"
    /\ {s, d} \subseteq Present /\ s # d
    /\ search' = [search EXCEPT ![c] = [step |-> "found", edge |-> <<s, d>>, type |-> EdgeType(s, d)]]
    /\ UNCHANGED <<gnodes, forward, feedback, projections, rules, removals, patches,
                   raced, rewired, cut, seedless>>

\* Saving an edge checks its nodes: a start node has no incoming forward edge.
ValidEdge(e, type) ==
    {e[1], e[2]} \subseteq Present /\ (type = "forward" => e[2] \notin Starts)

\* The edge, its buffers and its base projection.  An edge that exists is left as it is.
CreateEdge(c) ==
    LET e == search[c].edge
        type == search[c].type
        allowed == ValidEdge(e, type) /\ e \notin Edges
    IN  /\ search[c].step = "found"
        /\ search' = [search EXCEPT ![c] = NoSearch]
        /\ forward' = IF allowed /\ type = "forward" THEN forward \cup {e} ELSE forward
        /\ feedback' = IF allowed /\ type = "feedback" THEN feedback \cup {e} ELSE feedback
        /\ projections' = IF allowed THEN projections \cup {Base(e)} ELSE projections
        /\ raced' = (raced \/ \E other \in Creators \ {c} : search[other].step = "found")
        /\ UNCHANGED <<gnodes, rules, removals, patches, rewired, cut, seedless>>

\* The rules that consume what arrives over the edge go first, with all downstream.
EdgeRow(e) ==
    LET arriving == {p \in projections : p.source = e[1] /\ p.owner = e[2]}
        dead == WithDownstream(Consumers(arriving))
    IN  Cascade(dead, arriving, {e}) /\ cut' = cut \ dead

DeleteEdge(e) ==
    /\ e \in Edges
    /\ Removal
    /\ EdgeRow(e)
    /\ UNCHANGED <<gnodes, search, patches, raced, seedless>>

-----------------------------------------------------------------------------
(* Rules.                                                                  *)

\* The database has at most one rule for a projection.
Unconsumed(ps) == Consumers(ps) = {}

\* Projections one rule of n may consume together.
Consumable(n, ps) ==
    /\ ps # {}
    /\ \A p \in ps : p.owner = n /\ IsSelectable(p)
    /\ Unconsumed(ps)
    /\ Cardinality({ContextFamily(p) : p \in ps}) = 1

\* The forward buffers of an output are those of the rule's own node.
OwnOutputs(n, ds) == ds # {} /\ ds \subseteq Destinations(forward, n)

\* Either forward or feedback outputs, or none for a terminal rule, which may not be on a
\* start node.
ValidOutputs(n, ds) ==
    \/ ds = {} /\ n \notin Starts
    \/ OwnOutputs(n, ds)
    \/ ds # {} /\ ds \subseteq Destinations(feedback, n)

\* The prompt has a placeholder for each input, and keeps them when its text is changed.
NewRule(n, ps, ds) ==
    [owner |-> n, inputs |-> ps, outputs |-> ds, terminal |-> ds = {}, placeholders |-> ps]

\* The rule with its inputs, outputs and prompt, and a projection at each destination.
CreateRule(r, n, ps, ds) ==
    /\ rules[r] = NoRule
    /\ n \in Present
    /\ Consumable(n, ps)
    /\ ValidOutputs(n, ds)
    /\ rules' = [rules EXCEPT ![r] = NewRule(n, ps, ds)]
    /\ projections' = projections \cup {Derived(r, n, d) : d \in ds}
    /\ UNCHANGED <<gnodes, forward, feedback, search, removals, patches,
                   raced, rewired, cut, seedless>>

\* Outputs are set, and the projections made for the old ones are left as they are; a rule
\* made terminal loses all its outputs.
UpdateRule(r, ds, terminal) ==
    LET n == rules[r].owner IN
    /\ r \in Defined
    /\ Patch
    /\ terminal /\ ~rules[r].terminal => ds = {} /\ n \notin Starts
    /\ ds \subseteq Destinations(forward, n) \/ ds \subseteq Destinations(feedback, n)
    /\ rules' = [rules EXCEPT ![r].outputs = ds, ![r].terminal = terminal]
    /\ rewired' = IF ds = rules[r].outputs THEN rewired ELSE rewired \cup {r}
    /\ UNCHANGED <<gnodes, forward, feedback, projections, search, removals, raced, cut, seedless>>

DeleteRule(r) ==
    /\ r \in Defined
    /\ Removal
    /\ Cascade(WithDownstream({r}), {}, {})
    /\ cut' = cut \ WithDownstream({r})
    /\ UNCHANGED <<gnodes, search, patches, raced, seedless>>

-----------------------------------------------------------------------------
AuthoringInit ==
    /\ gnodes = [n \in GNodes |-> "new"]
    /\ forward = {} /\ feedback = {} /\ projections = {}
    /\ rules = [r \in Rules |-> NoRule]
    /\ search = [c \in Creators |-> NoSearch]
    /\ removals = 0 /\ patches = 0
    /\ raced = FALSE /\ rewired = {} /\ cut = {} /\ seedless = {}

NodeNext ==
    \/ \E n \in GNodes :
        \/ \E start \in BOOLEAN : CreateNode(n, start)
        \/ MakeStart(n) \/ MakePlain(n) \/ DeleteNode(n)
    \/ DeleteGraph

CreatorNext(c) ==
    \/ \E s, d \in GNodes : FindEdgeType(c, s, d)
    \/ CreateEdge(c)

OutputChoices(n) == (SUBSET Destinations(forward, n)) \cup (SUBSET Destinations(feedback, n))

RuleNext ==
    \E r \in Rules :
        \/ \E n \in Present :
            \E ps \in SUBSET {p \in projections : p.owner = n}, ds \in OutputChoices(n) :
                CreateRule(r, n, ps, ds)
        \/ \E ds \in OutputChoices(rules[r].owner), terminal \in BOOLEAN : UpdateRule(r, ds, terminal)
        \/ DeleteRule(r)

AuthoringNext ==
    \/ NodeNext
    \/ \E c \in Creators : CreatorNext(c)
    \/ \E e \in Edges : DeleteEdge(e)
    \/ RuleNext

AuthoringSpec == AuthoringInit /\ [][AuthoringNext]_authoringVars

-----------------------------------------------------------------------------
(* Properties.                                                             *)

\* The forward edges have no cycle, unless two creations of edges overlapped: what one of
\* them had searched did not have the edge of the other.
ForwardAcyclic ==
    raced \/ \A e \in forward : e[1] \notin Reach(forward, e[2])

\* A rule has a projection exactly at the nodes its outputs lead to, through all deletions
\* of edges, nodes and other rules, unless its outputs have been changed: the engine
\* would write the result where no rule reads it, or nowhere.
RoutesKept ==
    \A r \in Defined \ rewired :
        {p.owner : p \in Generated({r})} = rules[r].outputs

\* Every placeholder of a rule's prompt stands for an input it still has, unless a node
\* that provided the input was deleted; so no rule waits for what cannot come.
InputsKept ==
    \A r \in Defined \ cut : rules[r].placeholders = rules[r].inputs

\* A start node has no incoming forward edge, whichever came first, and it has its seed
\* unless it was made a start node when it had a feedback edge; only start nodes do.
StartIsRoot ==
    /\ \A e \in forward : e[2] \notin Starts
    /\ \A n \in GNodes \ seedless : Seed(n) \in projections <=> n \in Starts
=============================================================================
