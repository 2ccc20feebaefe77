---------------------------- MODULE ResultStream ----------------------------
(***************************************************************************)
(* The result stream (MS8): it copies every result that is not of a graph  *)
(* run into a cache, and to the client that watches the job if there is    *)
(* one.  A client comes with a ticket that works once, is first sent what  *)
(* is in the cache, and is disconnected when the job is over.              *)
(*                                                                         *)
(* A cached list outlives the ticket (300 s against 60 s) and is not       *)
(* expired here.                                                           *)
(***************************************************************************)
EXTENDS InferenceChannels

VARIABLES
    cache,          \* the list kept in Redis for each job
    conn,           \* the connection of the client of each job
    overtaken       \* history: jobs of which a live result overtook the replay

streamVars == <<cache, conn, overtaken>>

\* "accepting": the ticket is used, the socket not yet known to the consumer; "replaying":
\* it is known, and todo is left of the cache as it was then; over: the final result was
\* among what was replayed.
Connection ==
    [at: {"none", "accepting", "replaying", "live", "closed", "gone"},
     todo: Seq(Result), sent: Seq(Result), over: BOOLEAN]
Unwatched == [at |-> "none", todo |-> <<>>, sent |-> <<>>, over |-> FALSE]
Departed == [Unwatched EXCEPT !.at = "gone"]

StreamTypeOK ==
    /\ cache \in [Jobs -> Seq(Result)]
    /\ conn \in [Jobs -> Connection]
    /\ overtaken \subseteq Jobs

Final(r) == r.kind \in {"success", "error"}

\* Mutant for StreamInOrder: a connection is made known to the consumer after the replay.
MutActive(j) == conn[j].at = "live"
Active(j) == conn[j].at \in {"replaying", "live"}

-----------------------------------------------------------------------------
(* The client.                                                             *)

Connect(j) ==
    /\ tickets[j] = "issued"
    /\ tickets' = [tickets EXCEPT ![j] = "gone"]
    /\ conn' = [conn EXCEPT ![j].at = "accepting"]
    /\ UNCHANGED <<wire, lost, updates, faults, cache, overtaken>>

ExpireTicket(j) ==
    /\ tickets[j] \in {"minted", "issued"}
    /\ tickets' = [tickets EXCEPT ![j] = "gone"]
    /\ UNCHANGED <<wire, lost, updates, faults, streamVars>>

\* Nothing is awaited between the registration and the reading of the cache.
Register(j) ==
    /\ conn[j].at = "accepting"
    /\ conn' = [conn EXCEPT ![j].at = "replaying", ![j].todo = cache[j]]
    /\ UNCHANGED <<channelVars, cache, overtaken>>

ReplayOne(j) ==
    /\ conn[j].at = "replaying" /\ conn[j].todo # <<>>
    /\ conn' = [conn EXCEPT ![j].todo = Tail(@), ![j].sent = Append(@, Head(conn[j].todo)),
                            ![j].over = @ \/ Final(Head(conn[j].todo))]
    /\ UNCHANGED <<channelVars, cache, overtaken>>

ReplayEnds(j) ==
    /\ conn[j].at = "replaying" /\ conn[j].todo = <<>>
    /\ conn' = [conn EXCEPT ![j].at = IF conn[j].over THEN "closed" ELSE "live"]
    /\ UNCHANGED <<channelVars, cache, overtaken>>

ClientLeaves(j) ==
    /\ conn[j].at = "accepting" \/ Active(j)
    /\ conn' = [conn EXCEPT ![j] = Departed]
    /\ UNCHANGED <<channelVars, cache, overtaken>>

-----------------------------------------------------------------------------
(* The consumer of results.                                                *)

\* A final result closes the connection, whatever is left of the replay.
OnMessage(j) ==
    /\ wire[j] # <<>>
    /\ wire' = [wire EXCEPT ![j] = Tail(@)]
    /\ LET r == Head(wire[j]) IN
       IF r.graph
       THEN UNCHANGED streamVars
       ELSE /\ cache' = [cache EXCEPT ![j] = Append(@, r)]
            /\ overtaken' = IF Active(j) /\ conn[j].todo # <<>> THEN overtaken \cup {j} ELSE overtaken
            /\ conn' = IF ~Active(j) THEN conn
                       ELSE [conn EXCEPT ![j].sent = Append(@, r),
                                         ![j].at = IF Final(r) THEN "closed" ELSE @,
                                         ![j].todo = IF Final(r) THEN <<>> ELSE @]
    /\ UNCHANGED <<tickets, lost, updates, faults>>

\* The queue of results is exclusive to the process: what was in it goes with it.
StreamRestarts ==
    /\ Fault
    /\ \E j \in Jobs : wire[j] # <<>> \/ Active(j)
    /\ lost' = lost \cup {j \in Jobs : wire[j] # <<>>}
    /\ wire' = [j \in Jobs |-> <<>>]
    /\ conn' = [j \in Jobs |-> IF conn[j].at = "accepting" \/ Active(j)
                               THEN Departed ELSE conn[j]]
    /\ UNCHANGED <<tickets, updates, cache, overtaken>>

-----------------------------------------------------------------------------
StreamInit ==
    /\ cache = [j \in Jobs |-> <<>>]
    /\ conn = [j \in Jobs |-> Unwatched]
    /\ overtaken = {}

Replay(j) == Register(j) \/ ReplayOne(j) \/ ReplayEnds(j)

StreamNext ==
    \/ \E j \in Jobs : Connect(j) \/ ExpireTicket(j) \/ Replay(j) \/ ClientLeaves(j) \/ OnMessage(j)
    \/ StreamRestarts

-----------------------------------------------------------------------------
\* A client that is connected has been sent, or is about to be, everything in the cache,
\* each thing once, and in the order it came in: the replay and the live results leave no
\* gap and no overlap between them.  The connection is closed only after a final result.
\* The order is broken, and the end of the replay cut off by a final result, when a
\* result comes in during the replay: the consumer sends it without waiting.
StreamInOrder ==
    \A j \in Jobs :
        /\ Active(j) => Len(conn[j].sent) + Len(conn[j].todo) = Len(cache[j])
        /\ Active(j) /\ j \notin overtaken => conn[j].sent \o conn[j].todo = cache[j]
        /\ conn[j].at = "closed" =>
               /\ \E i \in DOMAIN conn[j].sent : Final(conn[j].sent[i])
               /\ j \notin overtaken => conn[j].sent = SubSeq(cache[j], 1, Len(conn[j].sent))
=============================================================================
