--------------------------- MODULE GraphTopology ---------------------------
(***************************************************************************)
(* The blueprint of a graph, as the execution engine of MS15 sees it: the  *)
(* GraphSnapshot that MS14 exports and ms14_client.rs flattens, read-only  *)
(* for the whole run.  A node owns rules and projections; a rule consumes  *)
(* projections of its node and its result is routed to projections of      *)
(* other nodes, along forward edges (FFO) or, for a controller, along a    *)
(* feedback edge (FBO).                                                    *)
(*                                                                         *)
(* Prompt texts and payloads are left out.  What the engine can tell apart *)
(* is whether a projection holds data: no packet is ever consumed and only *)
(* the first one is read, so a projection is empty or filled.              *)
(***************************************************************************)
EXTENDS Naturals, Sequences

CONSTANTS
    Nodes,          \* the graph's nodes
    Rules,          \* the graph's rules
    Projections,    \* the graph's projections
    Owner,          \* Owner[r]: the node of rule r
    ProjOwner,      \* ProjOwner[p]: the node of projection p
    Inputs,         \* Inputs[r]: the projections r consumes, by position
    Mode,           \* Mode[r]: the firing mode of r
    Terminal,       \* the terminal rules
    Controllers,    \* the rules with a feedback output
    MaxIterations,  \* MaxIterations[r]: the loop bound, 0 for "none"
    Route,          \* Route[r]: the projections the result of r is written to
    FbiSource,      \* FbiSource[p]: {the controller node p's FBI comes from} or {}
    Children,       \* Children[p]: the projections p was derived from
    Seeds,          \* the projections without any source
    UserInputs      \* the nodes the caller of the run gives an input for

Modes == {"SINGLE", "AND", "OR"}

ASSUME TopologyAssumption ==
    /\ Owner \in [Rules -> Nodes]
    /\ ProjOwner \in [Projections -> Nodes]
    /\ Inputs \in [Rules -> Seq(Projections)]
    /\ Mode \in [Rules -> Modes]
    /\ Terminal \subseteq Rules
    /\ Controllers \subseteq Rules
    /\ MaxIterations \in [Rules -> Nat]
    /\ Route \in [Rules -> SUBSET Projections]
    /\ FbiSource \in [Projections -> SUBSET Nodes]
    /\ Children \in [Projections -> SUBSET Projections]
    /\ Seeds \subseteq Projections
    /\ UserInputs \subseteq Nodes

InputSet(r) == {Inputs[r][i] : i \in DOMAIN Inputs[r]}

\* MS14 builds the placeholder map from all the inputs of the rule, so the
\* prompt of r can be rendered only when each of them has a value.
Placeholders(r) == InputSet(r)

\* Mutant: only the rules that read p as their first input.
MutAffected(p) == {r \in Rules : Inputs[r] # <<>> /\ Inputs[r][1] = p}

Affected(p) == {r \in Rules : p \in InputSet(r)}

-----------------------------------------------------------------------------
(* Ancestry.  The code walks children_ids recursively; the set of the     *)
(* projections that reach an origin is the least one that contains the    *)
(* origins and every projection derived from a member.                    *)

ClosedUnderDerivation(S) ==
    \A p \in Projections : Children[p] \cap S # {} => p \in S

DerivedFrom(origins) ==
    {p \in Projections :
        \A S \in SUBSET Projections :
            origins \subseteq S /\ ClosedUnderDerivation(S) => p \in S}

FeedbackFamily == DerivedFrom({p \in Projections : FbiSource[p] # {}})

LoopOf(n) == DerivedFrom({p \in Projections : n \in FbiSource[p]})

IsForwardFamily(r) == InputSet(r) \cap FeedbackFamily = {}

ControllersOn(n) == {c \in Controllers : Owner[c] = n}

\* The destinations of r at which its result is a home run.
HomeTargets(r) ==
    {p \in Route[r] \cap FeedbackFamily : ControllersOn(ProjOwner[p]) # {}}

\* The rules a home run of controller c makes ready for the next iteration.
LoopBody(c) ==
    {q \in Rules \ Controllers : InputSet(q) \cap LoopOf(Owner[c]) # {}}

\* Readiness of r when exactly the projections in avail hold data.
Ready(r, avail) ==
    /\ Inputs[r] # <<>>
    /\ CASE Mode[r] = "SINGLE" -> Inputs[r][1] \in avail
         [] Mode[r] = "AND"    -> InputSet(r) \subseteq avail
         [] Mode[r] = "OR"     -> InputSet(r) \cap avail # {}

SeedsOf(n) == {p \in Seeds : ProjOwner[p] = n}

RulesOn(n) == {r \in Rules : Owner[r] = n}

-----------------------------------------------------------------------------
(* Lineage: what the successes of the rules in A make possible.            *)

\* The success of q fills p: p is routed to, or it is an input of the
\* controller that q's result reaches as a home run.
Feeds(q, p) ==
    \/ p \in Route[q]
    \/ \E d \in HomeTargets(q) :
          \E c \in ControllersOn(ProjOwner[d]) : p \in InputSet(c)

AvailableFrom(A, p) ==
    \/ \E n \in UserInputs : p \in SeedsOf(n)
    \/ \E q \in A : Feeds(q, p)

AnchoredFrom(A, n) == \E f \in A : Owner[f] = n /\ IsForwardFamily(f)

PastAnchor(A, r) == IsForwardFamily(r) \/ AnchoredFrom(A, Owner[r])
-----------------------------------------------------------------------------
(* Shapes of graphs that the theorems are about.                           *)

\* A rule consumes projections of its own node and needs each of them.
WholeRules ==
    \A r \in Rules :
        /\ Inputs[r] # <<>>
        /\ Mode[r] = "AND" \/ Len(Inputs[r]) = 1
        /\ \A p \in InputSet(r) : ProjOwner[p] = Owner[r]

\* The caller of the run gives a value for p, the only seed of its node.
Seeded(p) == \E n \in UserInputs : SeedsOf(n) = {p}

SeedData == UNION {SeedsOf(n) : n \in UserInputs}

\* The result of r comes home to the controller.
Homing(r) == r \notin Controllers /\ HomeTargets(r) # {}

\* The result of r wakes q.
Wakes(r, q) == \E p \in Route[r] : q \in Affected(p)

\* A loop with one thread of control.  first is the only rule that the caller's
\* inputs make ready.  Each success of another rule than a homing one wakes one
\* rule, later in rank, and a homing one wakes nobody but the controller c.  The
\* rules later than c are in the body of its loop, which a home run resets.
OneThread(c, first, rank) ==
    /\ Controllers = {c} /\ Terminal = {}
    /\ \A r \in Rules : InputSet(r) \subseteq SeedData => r = first
    /\ \A r \in Rules : Homing(r) =>
          /\ \A p \in Route[r] : Affected(p) = {}
          /\ \A p, d \in HomeTargets(r) : p = d
    /\ \A r \in Rules : ~Homing(r) =>
          \E p \in Route[r], q \in Rules :
              /\ Affected(p) = {q} /\ rank[r] < rank[q]
              /\ \A d \in Route[r] \ {p} : Affected(d) = {}
    /\ \A q \in Rules : rank[c] < rank[q] => q \in LoopBody(c)

\* The thread comes by every rule, in the order of rank, and each rule has its
\* inputs, and its node an anchor, when the thread gets there: the anchor is
\* written by a rule before the one that wakes it.
OneRound(c, first, rank) ==
    /\ OneThread(c, first, rank) /\ WholeRules
    /\ LoopBody(c) = {q \in Rules : rank[c] < rank[q]}
    /\ \A q \in Rules : rank[first] <= rank[q]
    /\ \A q, r \in Rules : rank[q] = rank[r] => q = r
    /\ \A r \in Rules : Homing(r) => \A q \in Rules : rank[q] <= rank[r]
    /\ \A r, q, x \in Rules : Wakes(r, q) => rank[x] <= rank[r] \/ rank[q] <= rank[x]
    /\ \A q \in Rules : \A p \in InputSet(q) :
          Seeded(p) \/ \E r \in Rules : rank[r] < rank[q] /\ p \in Route[r]
    /\ \A q \in Rules : ~IsForwardFamily(q) =>
          \E f, x \in Rules : /\ IsForwardFamily(f) /\ Owner[f] = Owner[q]
                              /\ rank[f] < rank[x] /\ rank[x] < rank[q]
=============================================================================
