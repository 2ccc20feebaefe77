------------------------- MODULE InferenceChannels -------------------------
(***************************************************************************)
(* What the services that run an inference job share: the ticket with      *)
(* which its client may watch it, the queue of results the executor (MS6)  *)
(* feeds and the result stream (MS8) empties, and the queue of turns MS6   *)
(* feeds and the memory (MS9) empties.                                     *)
(*                                                                         *)
(* Only the order of the results of one job matters to anyone, so each job *)
(* has a queue of its own; of a turn only the number of copies matters.    *)
(***************************************************************************)
EXTENDS Naturals, Sequences, FiniteSets

CONSTANTS
    Jobs,           \* ids of inference jobs (for MS15 an attempt at a rule)
    MaxChunks,      \* the bound on the pieces a model streams
    MaxFaults       \* the bound on crashes, restarts and messages lost or sent twice

ASSUME ChannelsAssumption == MaxChunks \in Nat /\ MaxFaults \in Nat

VARIABLES
    tickets,        \* the ticket of each job: minted, then handed out, then used or expired
    wire,           \* results on their way to MS8, for each job
    lost,           \* history: jobs of which a result was lost on the way
    updates,        \* copies of the turn of each job on their way to MS9
    faults          \* how many faults there have been

channelVars == <<tickets, wire, lost, updates, faults>>

\* A result carries the metadata of its job, which tells MS8 to leave the results of a
\* graph run alone, except for the pieces of a stream and the error that ends one.
Result == [kind: {"chunk"}, n: 1..MaxChunks, graph: {FALSE}]
              \cup [kind: {"success", "error"}, n: {0}, graph: BOOLEAN]

ChannelsTypeOK ==
    /\ tickets \in [Jobs -> {"none", "minted", "issued", "gone"}]
    /\ wire \in [Jobs -> Seq(Result)]
    /\ lost \subseteq Jobs
    /\ updates \in [Jobs -> Nat]
    /\ faults \in 0..MaxFaults

Fault == faults < MaxFaults /\ faults' = faults + 1

ChannelsInit ==
    /\ tickets = [j \in Jobs |-> "none"]
    /\ wire = [j \in Jobs |-> <<>>]
    /\ lost = {}
    /\ faults = 0
=============================================================================
