---------------------------- MODULE MCResources ----------------------------
(***************************************************************************)
(* Three instances in one run, one of them chosen at the start: in the     *)
(* scene "nodes" the nodes and all they refer to move, short of updates of *)
(* models; in the scene "models" the nodes and the models do, with two     *)
(* updates at once, and a tool that may be deleted; in the scene           *)
(* "retrieval" files, collections and their ingestion.                     *)
(***************************************************************************)
EXTENDS NodeDependencies, Retrieval, TLC

CONSTANTS n1, m1, m2, tool, bucket, coll, q1, u1, u2, f1, c1, l1, l2, h1, h2

VARIABLE scene

MCKind == (tool :> "tool") @@ (bucket :> "bucket") @@ (coll :> "collection")
MCStarts == {{tool}, {tool, bucket}}
MCCapabilities == {{"text"}, {"text", "tool_use"}}
Symmetry == Permutations(Models) \cup Permutations(Updates) \cup Permutations(Handlers) \cup Permutations(Links)

\* What does not move starts in one state only; the models start different.
MCInit ==
    /\ Init /\ RetrievalInit
    /\ \/ /\ \/ scene = "nodes" /\ bucket \in alive
             \/ scene = "models" /\ bucket \notin alive
          /\ \E m, k \in Models : ModelFound(m) /\ models[m] # models[k]
          /\ content = [f \in Files |-> "text"] /\ cleanup["files"] = "none"
       \/ scene = "retrieval" /\ models = [m \in Models |-> {"text"}] /\ bucket \in alive

Open == {u \in Updates : update[u].step # "idle"}

\* No update begins that could not be saved.
ModelsNext ==
    /\ Next
    /\ alive' \subseteq alive
    /\ \A u \in Updates : update[u].step = "idle" /\ update'[u].step = "read" =>
            changes + Cardinality(Open) < MaxChanges

\* To keep the instance small files are deleted one by one only where MS11 is not to clean
\* up, and collections only where it is.
Elsewhere == IF cleanup["collections"] = "never" THEN "destroy emptied" ELSE "file emptied"

MCNext ==
    \/ scene = "nodes" /\ Next /\ UNCHANGED <<update, retrievalVars, scene>>
    \/ scene = "models" /\ ModelsNext /\ UNCHANGED <<retrievalVars, scene>>
    \/ /\ scene = "retrieval" /\ RetrievalNext /\ UNCHANGED <<vars, scene>>
       /\ \A h \in Handlers : handler'[h].at # Elsewhere

MCSpec == MCInit /\ [][MCNext]_<<vars, retrievalVars, scene>>
=============================================================================
