--------------------------- MODULE MCGraphEngine ---------------------------
(* Small graphs for GraphEngine, each of the shape MS14 lets one build.    *)
EXTENDS GraphEngine, TLC

CONSTANTS e1, e2, p1, p2    \* tasks

Symmetry == Permutations(EvalTasks) \cup Permutations(PropTasks)

None == {}

\* A start node s, a worker node w and a node d.
GraphNodes == {"s", "w", "d"}

-----------------------------------------------------------------------------
(* Chain: a on s feeds the terminal rule z on d.                           *)

ChainRules == {"a", "z"}
ChainProjections == {"seedS", "dFromA"}
ChainOwner == [r \in ChainRules |-> IF r = "a" THEN "s" ELSE "d"]
ChainProjOwner == [p \in ChainProjections |-> IF p = "seedS" THEN "s" ELSE "d"]
ChainInputs == [r \in ChainRules |-> IF r = "a" THEN <<"seedS">> ELSE <<"dFromA">>]
ChainMode == [r \in ChainRules |-> "SINGLE"]
ChainTerminal == {"z"}
ChainMax == [r \in ChainRules |-> 0]
ChainRoute == [r \in ChainRules |-> IF r = "a" THEN {"dFromA"} ELSE {}]
ChainFbi == [p \in ChainProjections |-> {}]
ChainChildren == [p \in ChainProjections |-> IF p = "dFromA" THEN {"seedS"} ELSE {}]
ChainSeeds == {"seedS"}
ChainUser == {"s"}

-----------------------------------------------------------------------------
(* Join: a on s and b on w both feed the terminal rule z on d.             *)

JoinRules == {"a", "b", "z"}
JoinProjections == {"seedS", "seedW", "dFromA", "dFromB"}
JoinOwner == [r \in JoinRules |-> CASE r = "a" -> "s" [] r = "b" -> "w" [] r = "z" -> "d"]
JoinProjOwner == [p \in JoinProjections |->
    CASE p = "seedS" -> "s" [] p = "seedW" -> "w" [] OTHER -> "d"]
JoinInputs == [r \in JoinRules |->
    CASE r = "a" -> <<"seedS">> [] r = "b" -> <<"seedW">> [] r = "z" -> <<"dFromA", "dFromB">>]
JoinModeAnd == [r \in JoinRules |-> IF r = "z" THEN "AND" ELSE "SINGLE"]
JoinModeOr == [r \in JoinRules |-> IF r = "z" THEN "OR" ELSE "SINGLE"]
JoinTerminal == {"z"}
JoinMax == [r \in JoinRules |-> 0]
JoinRoute == [r \in JoinRules |->
    CASE r = "a" -> {"dFromA"} [] r = "b" -> {"dFromB"} [] r = "z" -> {}]
JoinFbi == [p \in JoinProjections |-> {}]
JoinChildren == [p \in JoinProjections |->
    CASE p = "dFromA" -> {"seedS"} [] p = "dFromB" -> {"seedW"} [] OTHER -> {}]
JoinSeeds == {"seedS", "seedW"}
JoinUser == {"s", "w"}

-----------------------------------------------------------------------------
(* Fork: a on s feeds the terminal rule z on d and the rule b on w, whose  *)
(* result nothing reads.                                                   *)

ForkRules == {"a", "b", "z"}
ForkProjections == {"seedS", "dFromA", "wFromA", "dFromB"}
ForkOwner == [r \in ForkRules |-> CASE r = "a" -> "s" [] r = "b" -> "w" [] r = "z" -> "d"]
ForkProjOwner == [p \in ForkProjections |->
    CASE p = "seedS" -> "s" [] p = "wFromA" -> "w" [] OTHER -> "d"]
ForkInputs == [r \in ForkRules |->
    CASE r = "a" -> <<"seedS">> [] r = "b" -> <<"wFromA">> [] r = "z" -> <<"dFromA">>]
ForkMode == [r \in ForkRules |-> "SINGLE"]
ForkTerminal == {"z"}
ForkMax == [r \in ForkRules |-> 0]
ForkRoute == [r \in ForkRules |->
    CASE r = "a" -> {"dFromA", "wFromA"} [] r = "b" -> {"dFromB"} [] r = "z" -> {}]
ForkFbi == [p \in ForkProjections |-> {}]
ForkChildren == [p \in ForkProjections |->
    CASE p \in {"dFromA", "wFromA"} -> {"seedS"} [] p = "dFromB" -> {"wFromA"}
      [] OTHER -> {}]
ForkSeeds == {"seedS"}
ForkUser == {"s"}

-----------------------------------------------------------------------------
(* Loop: a on s feeds the controller c on d, whose feedback wakes the body *)
(* rule b on s, whose result comes home to d.  No rule is terminal.        *)

LoopRules == {"a", "b", "c"}
LoopProjections == {"seedS", "dFromA", "sFromC", "dFromB"}
LoopOwner == [r \in LoopRules |-> IF r = "c" THEN "d" ELSE "s"]
LoopProjOwner == [p \in LoopProjections |-> IF p \in {"seedS", "sFromC"} THEN "s" ELSE "d"]
LoopInputs == [r \in LoopRules |->
    CASE r = "a" -> <<"seedS">> [] r = "b" -> <<"sFromC">> [] r = "c" -> <<"dFromA">>]
LoopMode == [r \in LoopRules |-> "SINGLE"]
LoopControllers == {"c"}
LoopMax == [r \in LoopRules |-> IF r = "c" THEN 3 ELSE 0]
LoopMaxOne == [r \in LoopRules |-> IF r = "c" THEN 1 ELSE 0]
LoopRoute == [r \in LoopRules |->
    CASE r = "a" -> {"dFromA"} [] r = "b" -> {"dFromB"} [] r = "c" -> {"sFromC"}]
LoopFbi == [p \in LoopProjections |-> IF p = "sFromC" THEN {"d"} ELSE {}]
LoopChildren == [p \in LoopProjections |->
    CASE p = "dFromA" -> {"seedS"} [] p = "sFromC" -> {"dFromA"}
      [] p = "dFromB" -> {"sFromC"} [] OTHER -> {}]
LoopSeeds == {"seedS"}
LoopUser == {"s"}

\* The loop has one thread of control, which comes by a, c and b.
LoopRank == [r \in LoopRules |-> CASE r = "a" -> 0 [] r = "c" -> 1 [] r = "b" -> 2]

ASSUME LoopAssumption == Controllers # {} => OneRound("c", "a", LoopRank)

-----------------------------------------------------------------------------
NoEvents == [e \in Events |-> 0]
Errors == [NoEvents EXCEPT !["error"] = 3]
CancelEvents == [NoEvents EXCEPT !["cancel"] = 1]
AllEvents == [e \in Events |-> 1]
=============================================================================
