---------------------------- MODULE MCAuthoring ----------------------------
(***************************************************************************)
(* Three scenes in one run, one of them chosen at the start: in the scene  *)
(* "edges" two requests to create an edge overlap and there are no rules,  *)
(* in "rules" rules are made too and edges are created one at a time, in   *)
(* "claims" graphs are linked to the agent nodes of MS4.                   *)
(***************************************************************************)
EXTENDS GraphSnapshot, NodeClaims, TLC

CONSTANTS g1, g2, g3, r1, r2, r3, c1, c2, s1, s2, s3, a1, a2, t1, t2

\* One creator makes the edges of the scene "rules".
ASSUME SceneAssumption == c1 \in Creators

VARIABLE scene

MCGraphOf == (s1 :> "first") @@ (s2 :> "first") @@ (s3 :> "second")
Symmetry == Permutations(GNodes) \cup Permutations(Tasks)

MCInit == AuthoringInit /\ ClaimsInit /\ scene \in {"edges", "rules", "claims"}

SceneNext ==
    \/ scene \in {"edges", "rules"} /\ NodeNext
    \/ scene \in {"edges", "rules"} /\ \E e \in Edges : DeleteEdge(e)
    \/ scene = "edges" /\ \E c \in Creators : CreatorNext(c)
    \/ scene = "rules" /\ CreatorNext(c1)
    \/ scene = "rules" /\ RuleNext

MCNext ==
    \/ SceneNext /\ UNCHANGED <<claimsVars, scene>>
    \/ scene = "claims" /\ ClaimsNext /\ UNCHANGED <<authoringVars, scene>>

MCSpec == MCInit /\ [][MCNext]_<<authoringVars, claimsVars, scene>>

MCTypeOK == AuthoringTypeOK /\ ClaimsTypeOK
=============================================================================
