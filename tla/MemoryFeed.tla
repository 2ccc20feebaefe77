----------------------------- MODULE MemoryFeed -----------------------------
(***************************************************************************)
(* The memory service (MS9): one bucket, the conversation it holds, and    *)
(* the workers that append the turns of finished jobs to it.               *)
(*                                                                         *)
(* A turn is two messages.  Its first one carries the id of the job as its *)
(* idempotency key, which is unique in the table: that is what keeps a     *)
(* turn that is delivered twice from being stored twice, for as long as    *)
(* the message is there.                                                   *)
(***************************************************************************)
EXTENDS InferenceChannels

CONSTANTS
    Consumers,      \* processes of the update worker
    Nobody,         \* no job
    Editors,        \* PUTs and PATCHes of the bucket that can be under way at once
    Window,         \* how many turns the bucket's window holds (k in its configuration)
    MaxEdits        \* the bound on changes made to the bucket by hand

ASSUME MemoryAssumption == Nobody \notin Jobs /\ Window \in Nat /\ MaxEdits \in Nat

VARIABLES
    bucket,         \* whether the bucket is there, how it is read, and its message_count
    conversation,   \* its messages, in the order of their timestamps
    consumer,       \* the update each worker has in hand
    editor,         \* PUTs and PATCHes: the row each has read, and the type it is to have
    edits,          \* how many changes were made by hand
    handled,        \* history: jobs of which a single message was removed by hand
    miscounted      \* history: since the messages were last counted some were removed, or
                    \* a count was written back that was read before

memoryVars == <<bucket, conversation, consumer, editor, edits, handled, miscounted>>

MemoryBucket == [open: BOOLEAN, type: {"window", "summary"}, count: Nat]
Message == [job: Jobs, role: {"user", "assistant"}, keyed: BOOLEAN]
Editing == [at: {"idle", "loaded"}, type: {"window", "summary"}, count: Nat]
Free == [at |-> "idle", job |-> Nobody]
Done == [at |-> "idle", type |-> "window", count |-> 0]

MemoryTypeOK ==
    /\ bucket \in MemoryBucket
    /\ conversation \in Seq(Message)
    /\ consumer \in [Consumers -> [at: {"idle", "checked", "stored"}, job: Jobs \cup {Nobody}]]
    /\ editor \in [Editors -> Editing]
    /\ edits \in 0..MaxEdits
    /\ handled \subseteq Jobs /\ miscounted \in BOOLEAN

-----------------------------------------------------------------------------
(* Reading.                                                                *)

Last(s, n) == SubSeq(s, IF Len(s) > n THEN Len(s) - n + 1 ELSE 1, Len(s))

\* A window is the last k turns, taken as 2k messages.
History == Last(conversation, 2 * Window)

\* GetHistory: a bucket that summarises calls helpers the service does not have, so it
\* can only be read while it is empty.
HistoryReadable == bucket.open /\ (bucket.type = "window" \/ conversation = <<>>)

-----------------------------------------------------------------------------
(* The update worker.                                                      *)

\* Mutant for MemoryWhole: the key is looked for under the wrong field.
MutStored(j) == FALSE
Stored(j) == \E i \in DOMAIN conversation : conversation[i].job = j /\ conversation[i].keyed

Turn(j) == <<[job |-> j, role |-> "user", keyed |-> TRUE], [job |-> j, role |-> "assistant", keyed |-> FALSE]>>

\* The key is looked for in the transaction that stores the turn, before it.
TakeUpdate(c, j) ==
    /\ consumer[c] = Free
    /\ updates[j] > 0
    /\ updates' = [updates EXCEPT ![j] = @ - 1]
    /\ consumer' = [consumer EXCEPT ![c] = [at |-> IF Stored(j) THEN "stored" ELSE "checked", job |-> j]]
    /\ UNCHANGED <<tickets, wire, lost, faults, bucket, conversation, editor, edits, handled, miscounted>>

\* Both messages and the count, or nothing: the bucket is gone, or another worker has
\* stored the turn and the key of this one is refused.
StoreUpdate(c) ==
    LET j == consumer[c].job IN
    /\ consumer[c].at = "checked"
    /\ consumer' = [consumer EXCEPT ![c].at = "stored"]
    /\ IF bucket.open /\ ~Stored(j)
       THEN /\ conversation' = conversation \o Turn(j)
            /\ bucket' = [bucket EXCEPT !.count = Len(conversation')]
            /\ miscounted' = FALSE
       ELSE UNCHANGED <<conversation, bucket, miscounted>>
    /\ UNCHANGED <<channelVars, editor, edits, handled>>

\* Any other exception (the database is locked) is logged, and the message acknowledged.
StoreFails(c) ==
    /\ Fault
    /\ consumer[c].at = "checked"
    /\ consumer' = [consumer EXCEPT ![c].at = "stored"]
    /\ UNCHANGED <<tickets, wire, lost, updates, bucket, conversation, editor, edits, handled, miscounted>>

AckUpdate(c) ==
    /\ consumer[c].at = "stored"
    /\ consumer' = [consumer EXCEPT ![c] = Free]
    /\ UNCHANGED <<channelVars, bucket, conversation, editor, edits, handled, miscounted>>

\* A worker dies: what it had not acknowledged is delivered again.
ConsumerDies(c) ==
    /\ Fault
    /\ consumer[c] # Free
    /\ updates' = [updates EXCEPT ![consumer[c].job] = @ + 1]
    /\ consumer' = [consumer EXCEPT ![c] = Free]
    /\ UNCHANGED <<tickets, wire, lost, bucket, conversation, editor, edits, handled, miscounted>>

-----------------------------------------------------------------------------
(* The owner of the bucket.                                                *)

Edit == edits < MaxEdits /\ edits' = edits + 1

\* The messages go, their count stays.
ClearBucket ==
    /\ Edit
    /\ bucket.open /\ conversation # <<>>
    /\ conversation' = <<>>
    /\ miscounted' = TRUE
    /\ UNCHANGED <<channelVars, bucket, consumer, editor, handled>>

DeleteMessage(i) ==
    /\ Edit
    /\ handled' = handled \cup {conversation[i].job}
    /\ conversation' = SubSeq(conversation, 1, i - 1) \o SubSeq(conversation, i + 1, Len(conversation))
    /\ miscounted' = TRUE
    /\ UNCHANGED <<channelVars, bucket, consumer, editor>>

\* A PUT or PATCH reads the row; one that is not valid ends there.
LoadBucket(e, type) ==
    /\ Edit
    /\ editor[e].at = "idle" /\ bucket.open
    /\ editor' = [editor EXCEPT ![e] = [at |-> "loaded", type |-> type, count |-> bucket.count]]
    /\ UNCHANGED <<channelVars, bucket, conversation, consumer, handled, miscounted>>

\* It saves all of the row it has read, the count too, which brings back a bucket that was
\* deleted meanwhile.
SaveBucket(e) ==
    /\ editor[e].at = "loaded"
    /\ bucket' = [open |-> TRUE, type |-> editor[e].type, count |-> editor[e].count]
    /\ miscounted' = (miscounted \/ editor[e].count # bucket.count)
    /\ editor' = [editor EXCEPT ![e] = Done]
    /\ UNCHANGED <<channelVars, conversation, consumer, edits, handled>>

\* The messages go with the bucket.
DeleteBucket ==
    /\ Edit
    /\ bucket.open
    /\ bucket' = [bucket EXCEPT !.open = FALSE, !.count = 0]
    /\ conversation' = <<>>
    /\ miscounted' = FALSE
    /\ UNCHANGED <<channelVars, consumer, editor, handled>>

-----------------------------------------------------------------------------
MemoryInit ==
    /\ bucket \in [open: BOOLEAN, type: {"window"}, count: {0}]
    /\ conversation = <<>>
    /\ consumer = [c \in Consumers |-> Free]
    /\ editor = [e \in Editors |-> Done]
    /\ edits = 0
    /\ handled = {} /\ miscounted = FALSE

ConsumerNext(c) ==
    \/ \E j \in Jobs : TakeUpdate(c, j)
    \/ StoreUpdate(c) \/ StoreFails(c) \/ AckUpdate(c) \/ ConsumerDies(c)

EditorNext(e) ==
    \/ \E type \in {"window", "summary"} : LoadBucket(e, type)
    \/ SaveBucket(e)

MemoryNext ==
    \/ \E c \in Consumers : ConsumerNext(c)
    \/ ClearBucket \/ DeleteBucket
    \/ \E i \in DOMAIN conversation : DeleteMessage(i)
    \/ \E e \in Editors : EditorNext(e)

-----------------------------------------------------------------------------
\* Where the messages of a job are in the conversation.
MessagesOf(j) == {i \in DOMAIN conversation : conversation[i].job = j}

\* However often its turn is delivered, and to however many workers, a job has its two
\* messages in the conversation, side by side, or none; what is read of the conversation
\* starts with a question; and the bucket counts its messages.  Only what is done by hand
\* breaks that: the removal of a single message (a turn whose first message is gone is
\* stored again when it comes again) and, for the count, any removal and a PUT or PATCH
\* that overlaps what changes the count, which writes the former count back.
MemoryWhole ==
    /\ \A j \in Jobs \ handled :
        \/ MessagesOf(j) = {}
        \/ \E i \in MessagesOf(j) :
               MessagesOf(j) = {i, i + 1} /\ SubSeq(conversation, i, i + 1) = Turn(j)
    /\ handled = {} /\ History # <<>> => History[1].role = "user"
    /\ bucket.count = Len(conversation) \/ miscounted
=============================================================================
