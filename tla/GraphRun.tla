------------------------------ MODULE GraphRun ------------------------------
(***************************************************************************)
(* What a run of a graph promises, whatever the workers, queues and        *)
(* failures that carry it out.                                             *)
(*                                                                         *)
(*   - a rule is sent to inference only when the projections it waits for  *)
(*     were filled: from a seed, by a rule whose success was accepted, or  *)
(*     by the home run of a loop back to the rule itself;                  *)
(*   - a feedback rule is sent only after a forward rule of its node has   *)
(*     succeeded (the anchor gate);                                        *)
(*   - a rule succeeds, or is given up, only after it was sent;            *)
(*   - the run is closed only when every terminal rule, or every rule of a *)
(*     graph without terminal rules, has succeeded or was given up.        *)
(*                                                                         *)
(* A closed run may be opened again: the trigger and the cancellation      *)
(* write the run's status without looking at it.                           *)
(***************************************************************************)
EXTENDS GraphTopology

VARIABLES
    sent,       \* the rules a request to inference was published for
    accepted,   \* the rules a success was accepted for
    abandoned,  \* the rules that were given up
    closed      \* is the run marked completed?

vars == <<sent, accepted, abandoned, closed>>

MayBeSent(r) ==
    /\ Ready(r, {p \in InputSet(r) : AvailableFrom(accepted, p)})
    /\ PastAnchor(accepted, r)

MayClose ==
    LET mustEnd == IF Terminal # {} THEN Terminal ELSE Rules
    IN  mustEnd \subseteq accepted \cup abandoned

-----------------------------------------------------------------------------
Init ==
    /\ sent = {}
    /\ accepted = {}
    /\ abandoned = {}
    /\ closed = FALSE

Send(r) ==
    /\ MayBeSent(r)
    /\ sent' = sent \cup {r}
    /\ UNCHANGED <<accepted, abandoned, closed>>

Accept(r) ==
    /\ r \in sent
    /\ accepted' = accepted \cup {r}
    /\ UNCHANGED <<sent, abandoned, closed>>

Abandon(r) ==
    /\ r \in sent
    /\ abandoned' = abandoned \cup {r}
    /\ UNCHANGED <<sent, accepted, closed>>

Close ==
    /\ MayClose
    /\ closed' = TRUE
    /\ UNCHANGED <<sent, accepted, abandoned>>

Reopen ==
    /\ closed' = FALSE
    /\ UNCHANGED <<sent, accepted, abandoned>>

Next ==
    \/ \E r \in Rules : Send(r) \/ Accept(r) \/ Abandon(r)
    \/ Close
    \/ Reopen

Spec == Init /\ [][Next]_vars
=============================================================================
