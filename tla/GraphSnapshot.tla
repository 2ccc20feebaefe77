--------------------------- MODULE GraphSnapshot ---------------------------
(***************************************************************************)
(* What MS15 is given of a graph of MS14 before it runs it: the snapshot,  *)
(* and the table of routes MS15 makes of it.  A rule fires when there is a *)
(* value in the projections it consumes; start nodes are seeded, and the   *)
(* result of a rule goes to the projections its routes lead to.            *)
(*                                                                         *)
(* The snapshot is taken of one state; the code reads table after table    *)
(* without a transaction.  Names, prompt texts and firing modes are data.  *)
(***************************************************************************)
EXTENDS GraphAuthoring

\* A buffer that receives, with the node it receives from: FFIs and FBIs.
GetGraphSnapshot ==
    [starts |-> Starts,
     buffers |-> Edges,
     projections |-> projections,
     rules |-> [r \in Defined |-> rules[r]]]

\* The projection a start node is seeded in: of all it owns the one without a buffer.
SeedProjections(snapshot) ==
    {p \in snapshot.projections : p.owner \in snapshot.starts /\ p.source = NoGNode}

\* The projections this rule made that are at the other end of one of its outputs.
Route(snapshot, r) ==
    {p \in snapshot.projections :
        /\ p.rule = r
        /\ <<p.source, p.owner>> \in snapshot.buffers
        /\ p.owner \in snapshot.rules[r].outputs}

\* The rules that fire if nothing fails: those all placeholders of which are filled by the
\* seeds or by rules that fire.
Firing(snapshot) ==
    LET Filled(rs) == SeedProjections(snapshot) \cup UNION {Route(snapshot, r) : r \in rs}
        round[k \in Nat] ==
            IF k = 0 THEN {}
            ELSE {r \in DOMAIN snapshot.rules :
                     /\ snapshot.rules[r].inputs # {}
                     /\ snapshot.rules[r].placeholders \subseteq Filled(round[k - 1])}
    IN  round[Cardinality(DOMAIN snapshot.rules)]

\* Every rule of a graph can fire in a run, whatever was deleted and created before: MS15
\* finds the seeds, and the result of a rule reaches those who wait for it.  Two things
\* break that, for the rules they happen to and those downstream of them: outputs that
\* were changed, and inputs that went with a node.
RulesCanFire ==
    Defined \ WithDownstream(rewired \cup cut) \subseteq Firing(GetGraphSnapshot)
=============================================================================
