---------------------------- MODULE DeletionSaga ----------------------------
(***************************************************************************)
(* Deleting a project, and deleting an account with all its projects, are  *)
(* sagas.  MS2 (projects) and MS1 (accounts) mark what is to go, write a   *)
(* saga with one step per service that has to clean up, and publish an     *)
(* event; every service cleans up and confirms; a finalizer of MS2 or MS1  *)
(* ticks off the steps and deletes the row when no step is pending.        *)
(*                                                                         *)
(* The services share nothing but RabbitMQ.  A step is one database        *)
(* transaction, or one autocommitted statement, or one publication with    *)
(* the local computation around it.  Every worker acknowledges whatever    *)
(* its handler does, so an exception loses the message, and only a crash   *)
(* has it delivered again.                                                 *)
(***************************************************************************)
EXTENDS Naturals, Sequences, FiniteSets

CONSTANTS
    Projects,       \* ids of projects; an id is never used twice
    Deleters,       \* DELETE requests for projects that can be under way at once
    SagaIds,        \* ids of project sagas
    ServiceOrder,   \* the services the API waits for, in the order of its list
    UserServices,   \* the services an account deletion waits for; "ProjectService" is MS2
    UserWaitsFor,   \* the services a project saga of an account deletion waits for
    NoProject,      \* not a project
    NoSaga,         \* not a saga
    MaxMishaps      \* the bound on what may go wrong

ProjectServices == {ServiceOrder[i] : i \in 1..Len(ServiceOrder)}

ResourceServices == UserServices \ {"ProjectService"}

ASSUME SagaAssumption ==
    /\ ServiceOrder \in Seq(STRING)
    /\ \A m, n \in 1..Len(ServiceOrder) : ServiceOrder[m] = ServiceOrder[n] => m = n
    /\ "ProjectService" \in UserServices
    /\ UserWaitsFor \subseteq ProjectServices /\ UserWaitsFor # {}
    /\ NoProject \notin Projects
    /\ NoSaga \notin SagaIds /\ IsFiniteSet(SagaIds)
    /\ MaxMishaps \in Nat

VARIABLES
    \* MS2
    row,            \* status of a project's row; "absent" when there is none
    sagas,          \* project sagas and their steps
    destroyer,      \* DELETE requests: step, project, saga, steps written
    editor,         \* a PUT or PATCH of a project: the row it has read
    initiator,      \* the worker that starts the project sagas of an account
    \* MS1
    user,           \* the account's row
    userSaga,       \* its saga and steps
    account,        \* the DELETE request for it
    \* RabbitMQ: copies of each message
    asked,          \* project.deletion.initiated, per queue and project
    confirmed,      \* resource.for_project.deleted.*, per service and project
    userAsked,      \* user.deletion.initiated, per queue
    userConfirmed,  \* resource.for_user.deleted.* and all_projects_for_user.deleted
    \* environment and history
    mishaps,        \* how many there have been
    born,           \* history: ids used for a project
    cleaned,        \* history: services that have cleaned up after a project
    userCleaned,    \* history: services that have cleaned up after the account
    listed,         \* history: projects the initiator has found active
    overlapped,     \* history: projects for which two initiations overlapped
    mixed,          \* history: projects a confirmation came for before the saga's steps were all written
    missed          \* history: projects a confirmation was dropped for

ms2 == <<row, sagas, destroyer, editor, initiator>>
ms1 == <<user, userSaga, account>>
queues == <<asked, confirmed, userAsked, userConfirmed>>
history == <<born, cleaned, userCleaned, listed, overlapped, mixed, missed>>
vars == <<ms2, ms1, queues, mishaps, history>>

RowStatus == {"absent", "active", "pending_deletion"}
SagaStatus == {"none", "in_progress", "completed", "failed"}
StepStatus == {"none", "pending", "completed"}

Saga == [status: SagaStatus, project: Projects \cup {NoProject}, awaits: SUBSET ProjectServices,
         steps: [ProjectServices -> StepStatus]]
UserSaga == [status: SagaStatus, steps: [UserServices -> StepStatus]]

NewSteps == [s \in ProjectServices |-> "none"]
NewSaga == [status |-> "none", project |-> NoProject, awaits |-> {}, steps |-> NewSteps]
Rest == [step |-> "idle", project |-> NoProject, saga |-> NoSaga, written |-> 0]
RestEdit == [step |-> "idle", project |-> NoProject, status |-> "absent"]
RestInit == [step |-> "idle", project |-> NoProject, todo |-> {}]

Destroyer == [step: {"idle", "loaded", "checked", "soft", "saga", "unpublished", "restored"},
              project: Projects \cup {NoProject}, saga: SagaIds \cup {NoSaga},
              written: 0..Len(ServiceOrder)]
Editor == [step: {"idle", "loaded"}, project: Projects \cup {NoProject}, status: RowStatus]
Initiator == [step: {"idle", "listed", "checked", "published"},
              project: Projects \cup {NoProject}, todo: SUBSET Projects]

Ms2OK ==
    /\ row \in [Projects -> RowStatus]
    /\ sagas \in [SagaIds -> Saga]
    /\ destroyer \in [Deleters -> Destroyer]
    /\ editor \in Editor
    /\ initiator \in Initiator

Ms1OK ==
    /\ user \in {"active", "inactive", "absent"}
    /\ userSaga \in UserSaga
    /\ account \in {"idle", "published"}

QueuesOK ==
    /\ asked \in [ProjectServices -> [Projects -> Nat]]
    /\ confirmed \in [ProjectServices -> [Projects -> Nat]]
    /\ userAsked \in [UserServices -> Nat]
    /\ userConfirmed \in [UserServices -> Nat]
    /\ mishaps \in Nat

HistoryOK ==
    /\ born \subseteq Projects
    /\ cleaned \in [Projects -> SUBSET ProjectServices]
    /\ userCleaned \subseteq ResourceServices
    /\ listed \subseteq Projects
    /\ overlapped \subseteq Projects
    /\ mixed \subseteq Projects
    /\ missed \subseteq Projects

TypeOK == Ms2OK /\ Ms1OK /\ QueuesOK /\ HistoryOK

-----------------------------------------------------------------------------
(* Mishaps, messages, sagas.                                               *)

\* A cleanup or a publication raises, with or without having had its effect, a
\* process crashes before it acknowledges its message or commits its transaction,
\* or a project is updated while it is deleted.
Mishap == mishaps < MaxMishaps /\ mishaps' = mishaps + 1

InProgress(p) == {i \in SagaIds : sagas[i].status = "in_progress" /\ sagas[i].project = p}

\* Mutant for NoSagaStranded: one service's queue is not bound to the event.
MutAnnounced(p) ==
    [s \in ProjectServices |-> [asked[s] EXCEPT ![p] = IF s = ServiceOrder[1] THEN @ ELSE @ + 1]]

\* Every service has a durable queue bound to the event.
Announced(p) == [s \in ProjectServices |-> [asked[s] EXCEPT ![p] = @ + 1]]

\* Mutant for AccountTakesAll: the finalizer looks at the step it has just ticked off,
\* and no other.
MutOutstanding(steps) == FALSE

\* A saga is done when no step is pending, whether or not all of them exist.
Outstanding(steps) == \E s \in DOMAIN steps : steps[s] = "pending"

\* The row is locked by the initiator's transaction until it commits.
Locked(p) == initiator.step = "published" /\ initiator.project = p

\* The bound on sagas: every initiation that passes its check finds an unused id.
UnderWay == {d \in Deleters : destroyer[d].step \in {"checked", "soft"}}
MayInitiate ==
    Cardinality({i \in SagaIds : sagas[i].status = "none"})
        > Cardinality(UnderWay) + (IF initiator.step \in {"checked", "published"} THEN 1 ELSE 0)

Overlap(p) == \/ \E d \in UnderWay : destroyer[d].project = p
              \/ initiator.project = p /\ initiator.step \in {"checked", "published"}

\* A publication is tried up to three times: a message the broker had accepted before
\* the connection failed is queued again.
Republish(s, p) ==
    /\ \/ asked[s][p] > 0 /\ asked' = [asked EXCEPT ![s][p] = @ + 1] /\ UNCHANGED confirmed
       \/ confirmed[s][p] > 0 /\ confirmed' = [confirmed EXCEPT ![s][p] = @ + 1] /\ UNCHANGED asked
    /\ Mishap
    /\ UNCHANGED <<ms2, ms1, userAsked, userConfirmed, history>>

-----------------------------------------------------------------------------
(* MS2, the API.  Requests are stateless and take the id of a project.     *)

CreateProject(p) ==
    /\ p \notin born
    /\ born' = born \cup {p}
    /\ row' = [row EXCEPT ![p] = "active"]
    /\ UNCHANGED <<sagas, destroyer, editor, initiator, ms1, queues, mishaps,
                   cleaned, userCleaned, listed, overlapped, mixed, missed>>

\* An update reads the whole row and saves all of it again, which inserts the row
\* if there is none any more.
EditLoad(p) ==
    /\ editor.step = "idle"
    /\ row[p] # "absent"
    /\ Mishap
    /\ editor' = [step |-> "loaded", project |-> p, status |-> row[p]]
    /\ UNCHANGED <<row, sagas, destroyer, initiator, ms1, queues, history>>

EditSave ==
    /\ editor.step = "loaded"
    /\ ~Locked(editor.project)
    /\ row' = [row EXCEPT ![editor.project] = editor.status]
    /\ editor' = RestEdit
    /\ UNCHANGED <<sagas, destroyer, initiator, ms1, queues, mishaps, history>>

DestroyLoad(d, p) ==
    /\ destroyer[d].step = "idle"
    /\ row[p] # "absent"
    /\ destroyer' = [destroyer EXCEPT ![d] = [Rest EXCEPT !.step = "loaded", !.project = p]]
    /\ UNCHANGED <<row, sagas, editor, initiator, ms1, queues, mishaps, history>>

\* A saga in progress is a conflict.  None of what follows is in a transaction.
DestroyCheck(d) ==
    LET p == destroyer[d].project IN
    /\ destroyer[d].step = "loaded"
    /\ IF InProgress(p) # {}
       THEN destroyer' = [destroyer EXCEPT ![d] = Rest] /\ UNCHANGED overlapped
       ELSE /\ MayInitiate
            /\ destroyer' = [destroyer EXCEPT ![d].step = "checked"]
            /\ overlapped' = IF Overlap(p) THEN overlapped \cup {p} ELSE overlapped
    /\ UNCHANGED <<row, sagas, editor, initiator, ms1, queues, mishaps,
                   born, cleaned, userCleaned, listed, mixed, missed>>

DestroySoft(d) ==
    /\ destroyer[d].step = "checked"
    /\ ~Locked(destroyer[d].project)
    /\ row' = [row EXCEPT ![destroyer[d].project] = "pending_deletion"]
    /\ destroyer' = [destroyer EXCEPT ![d].step = "soft"]
    /\ UNCHANGED <<sagas, editor, initiator, ms1, queues, mishaps, history>>

DestroySaga(d) ==
    /\ destroyer[d].step = "soft"
    /\ \E i \in SagaIds :
        /\ sagas[i].status = "none"
        /\ sagas' = [sagas EXCEPT ![i] = [NewSaga EXCEPT !.status = "in_progress",
                                                         !.project = destroyer[d].project,
                                                         !.awaits = ProjectServices]]
        /\ destroyer' = [destroyer EXCEPT ![d].step = "saga", ![d].saga = i]
    /\ UNCHANGED <<row, editor, initiator, ms1, queues, mishaps, history>>

\* A step that a finalizer has created meanwhile violates the uniqueness of steps,
\* and the request ends with an error that nothing handles.
DestroyStep(d) ==
    LET next == ServiceOrder[destroyer[d].written + 1]
        i == destroyer[d].saga
    IN  /\ destroyer[d].step = "saga"
        /\ destroyer[d].written < Len(ServiceOrder)
        /\ IF sagas[i].steps[next] = "none"
           THEN /\ sagas' = [sagas EXCEPT ![i].steps[next] = "pending"]
                /\ destroyer' = [destroyer EXCEPT ![d].written = @ + 1]
           ELSE /\ destroyer' = [destroyer EXCEPT ![d] = Rest]
                /\ UNCHANGED sagas
        /\ UNCHANGED <<row, editor, initiator, ms1, queues, mishaps, history>>

DestroyPublish(d) ==
    LET p == destroyer[d].project IN
    /\ destroyer[d].step = "saga"
    /\ destroyer[d].written = Len(ServiceOrder)
    /\ \/ /\ asked' = Announced(p)
          /\ destroyer' = [destroyer EXCEPT ![d] = Rest]
          /\ UNCHANGED mishaps
       \/ /\ Mishap
          /\ destroyer' = [destroyer EXCEPT ![d].step = "unpublished"]
          /\ UNCHANGED asked
       \/ /\ Mishap
          /\ asked' = Announced(p)
          /\ destroyer' = [destroyer EXCEPT ![d].step = "unpublished"]
    /\ UNCHANGED <<row, sagas, editor, initiator, ms1,
                   confirmed, userAsked, userConfirmed, history>>

\* After a failed publication: the row is saved as active, then the saga as failed.
DestroyRestore(d) ==
    /\ destroyer[d].step = "unpublished"
    /\ ~Locked(destroyer[d].project)
    /\ row' = [row EXCEPT ![destroyer[d].project] = "active"]
    /\ destroyer' = [destroyer EXCEPT ![d].step = "restored"]
    /\ UNCHANGED <<sagas, editor, initiator, ms1, queues, mishaps, history>>

DestroyFail(d) ==
    /\ destroyer[d].step = "restored"
    /\ sagas' = [sagas EXCEPT ![destroyer[d].saga].status = "failed"]
    /\ destroyer' = [destroyer EXCEPT ![d] = Rest]
    /\ UNCHANGED <<row, editor, initiator, ms1, queues, mishaps, history>>

DestroyCrash(d) ==
    /\ destroyer[d].step \notin {"idle", "loaded", "checked"}
    /\ Mishap
    /\ destroyer' = [destroyer EXCEPT ![d] = Rest]
    /\ UNCHANGED <<row, sagas, editor, initiator, ms1, queues, history>>

-----------------------------------------------------------------------------
(* The services that keep resources of projects.                           *)

\* Mutant for GoneIsCleaned: the service confirms even if its cleanup raised.
MutCleanup(s, p) ==
    /\ asked[s][p] > 0
    /\ \/ cleaned' = [cleaned EXCEPT ![p] = @ \cup {s}] /\ UNCHANGED mishaps
       \/ Mishap /\ UNCHANGED cleaned
    /\ confirmed' = [confirmed EXCEPT ![s][p] = @ + 1]
    /\ asked' = [asked EXCEPT ![s][p] = @ - 1]
    /\ UNCHANGED <<ms2, ms1, userAsked, userConfirmed,
                   born, userCleaned, listed, overlapped, mixed, missed>>

Confirm(s, p) == confirmed' = [confirmed EXCEPT ![s][p] = @ + 1]

\* One delivery of the event: the cleanup, the confirmation and the acknowledgement.
\* If the cleanup raises nothing is confirmed; if the confirmation cannot be
\* published it is lost; after a crash the event is handled again.
Cleanup(s, p) ==
    LET clean == cleaned' = [cleaned EXCEPT ![p] = @ \cup {s}]
        ack == asked' = [asked EXCEPT ![s][p] = @ - 1]
    IN  /\ asked[s][p] > 0
        /\ \/ clean /\ Confirm(s, p) /\ ack /\ UNCHANGED mishaps
           \/ Mishap /\ ack /\ UNCHANGED <<cleaned, confirmed>>
           \/ Mishap /\ clean /\ ack /\ UNCHANGED confirmed
           \/ Mishap /\ clean /\ UNCHANGED <<asked, confirmed>>
           \/ Mishap /\ clean /\ Confirm(s, p) /\ UNCHANGED asked
        /\ UNCHANGED <<ms2, ms1, userAsked, userConfirmed,
                       born, userCleaned, listed, overlapped, mixed, missed>>

-----------------------------------------------------------------------------
(* MS2, the finalizer of project sagas: one transaction per confirmation.  *)

\* Mutant for TypeOK: a status that is none of the choices of the field, which saving
\* a row does not check.
MutTicked(i, s) == [sagas[i].steps EXCEPT ![s] = "done"]

Ticked(i, s) == [sagas[i].steps EXCEPT ![s] = "completed"]

AllWritten(i) == \A s \in sagas[i].awaits : sagas[i].steps[s] # "none"

\* No saga in progress, or more than one, raises inside the handler; the confirmation
\* is acknowledged all the same.  A step that does not exist is created.
Finalize(s, p) ==
    /\ confirmed[s][p] > 0
    /\ \/ confirmed' = [confirmed EXCEPT ![s][p] = @ - 1] /\ UNCHANGED mishaps
       \/ Mishap /\ UNCHANGED confirmed
    /\ IF Cardinality(InProgress(p)) # 1
       THEN missed' = missed \cup {p} /\ UNCHANGED <<row, sagas, mixed>>
       ELSE /\ UNCHANGED missed
            /\ \E i \in InProgress(p) :
               /\ mixed' = IF AllWritten(i) THEN mixed ELSE mixed \cup {p}
               /\ IF Outstanding(Ticked(i, s))
                  THEN /\ sagas' = [sagas EXCEPT ![i].steps = Ticked(i, s)]
                       /\ UNCHANGED row
                  ELSE /\ ~Locked(p)
                       /\ sagas' = [sagas EXCEPT ![i].steps = Ticked(i, s), ![i].status = "completed"]
                       /\ row' = [row EXCEPT ![p] = "absent"]
    /\ UNCHANGED <<destroyer, editor, initiator, ms1, asked, userAsked, userConfirmed,
                   born, cleaned, userCleaned, listed, overlapped>>

-----------------------------------------------------------------------------
(* MS2, the worker that starts the project sagas of an account.            *)

InitiatorList ==
    /\ initiator.step = "idle"
    /\ userAsked["ProjectService"] > 0
    /\ LET active == {p \in Projects : row[p] = "active"}
       IN  /\ initiator' = [RestInit EXCEPT !.step = "listed", !.todo = active]
           /\ listed' = listed \cup active
    /\ UNCHANGED <<row, sagas, destroyer, editor, ms1, queues, mishaps,
                   born, cleaned, userCleaned, overlapped, mixed, missed>>

\* Mutant for OneSaga: the worker does not look for a saga in progress.
MutInitiatorCheck(p) ==
    /\ initiator.step = "listed"
    /\ p \in initiator.todo
    /\ MayInitiate
    /\ initiator' = [step |-> "checked", project |-> p, todo |-> initiator.todo \ {p}]
    /\ overlapped' = IF Overlap(p) THEN overlapped \cup {p} ELSE overlapped
    /\ UNCHANGED <<row, sagas, destroyer, editor, ms1, queues, mishaps,
                   born, cleaned, userCleaned, listed, mixed, missed>>

InitiatorCheck(p) ==
    /\ initiator.step = "listed"
    /\ p \in initiator.todo
    /\ IF InProgress(p) # {}
       THEN /\ initiator' = [initiator EXCEPT !.todo = @ \ {p}]
            /\ UNCHANGED overlapped
       ELSE /\ MayInitiate
            /\ initiator' = [step |-> "checked", project |-> p, todo |-> initiator.todo \ {p}]
            /\ overlapped' = IF Overlap(p) THEN overlapped \cup {p} ELSE overlapped
    /\ UNCHANGED <<row, sagas, destroyer, editor, ms1, queues, mishaps,
                   born, cleaned, userCleaned, listed, mixed, missed>>

BackToList == initiator' = [initiator EXCEPT !.step = "listed", !.project = NoProject]

\* The event goes out inside the transaction that creates the saga.  Saving a row that
\* is gone raises, and so does a failed publication: nothing is written.
InitiatorPublish ==
    LET p == initiator.project IN
    /\ initiator.step = "checked"
    /\ \/ row[p] = "absent" /\ BackToList /\ UNCHANGED <<asked, mishaps>>
       \/ /\ row[p] # "absent"
          /\ \/ /\ asked' = Announced(p)
                /\ initiator' = [initiator EXCEPT !.step = "published"]
                /\ UNCHANGED mishaps
             \/ Mishap /\ BackToList /\ UNCHANGED asked
             \/ Mishap /\ BackToList /\ asked' = Announced(p)
    /\ UNCHANGED <<row, sagas, destroyer, editor, ms1,
                   confirmed, userAsked, userConfirmed, history>>

InitiatorCommit ==
    /\ initiator.step = "published"
    /\ row' = [row EXCEPT ![initiator.project] = "pending_deletion"]
    /\ \E i \in SagaIds :
        /\ sagas[i].status = "none"
        /\ sagas' = [sagas EXCEPT ![i] =
               [status |-> "in_progress", project |-> initiator.project, awaits |-> UserWaitsFor,
                steps |-> [s \in ProjectServices |-> IF s \in UserWaitsFor THEN "pending" ELSE "none"]]]
    /\ BackToList
    /\ UNCHANGED <<destroyer, editor, ms1, queues, mishaps, history>>

UserConfirm(s) == userConfirmed' = [userConfirmed EXCEPT ![s] = @ + 1]

\* All the sagas have been started: MS2 confirms to MS1.
InitiatorConfirm ==
    LET ack == userAsked' = [userAsked EXCEPT !["ProjectService"] = @ - 1]
    IN  /\ initiator.step = "listed"
        /\ initiator.todo = {}
        /\ \/ UserConfirm("ProjectService") /\ ack /\ UNCHANGED mishaps
           \/ Mishap /\ ack /\ UNCHANGED userConfirmed
           \/ Mishap /\ UserConfirm("ProjectService") /\ UNCHANGED userAsked
        /\ initiator' = RestInit
        /\ UNCHANGED <<row, sagas, destroyer, editor, ms1, asked, confirmed, history>>

InitiatorCrash ==
    /\ initiator.step # "idle"
    /\ Mishap
    /\ initiator' = RestInit
    /\ UNCHANGED <<row, sagas, destroyer, editor, ms1, queues, history>>

-----------------------------------------------------------------------------
(* MS1: the account, its saga and the finalizer.                           *)

\* Every service's queue is bound to the event.
UserAnnounced == userAsked' = [s \in UserServices |-> userAsked[s] + 1]

\* The account is deactivated, the saga written and the event published in one
\* transaction; the event is out before it commits.
AccountPublish ==
    /\ account = "idle"
    /\ user = "active"
    /\ userSaga.status = "none"
    /\ \/ UserAnnounced /\ account' = "published" /\ UNCHANGED mishaps
       \/ Mishap /\ UNCHANGED <<userAsked, account>>
       \/ Mishap /\ UserAnnounced /\ UNCHANGED account
    /\ UNCHANGED <<ms2, user, userSaga, asked, confirmed, userConfirmed, history>>

AccountCommit ==
    /\ account = "published"
    /\ account' = "idle"
    /\ user' = "inactive"
    /\ userSaga' = [status |-> "in_progress", steps |-> [s \in UserServices |-> "pending"]]
    /\ UNCHANGED <<ms2, queues, mishaps, history>>

AccountCrash ==
    /\ account = "published"
    /\ Mishap
    /\ account' = "idle"
    /\ UNCHANGED <<ms2, user, userSaga, queues, history>>

UserClean(s) == userCleaned' = userCleaned \cup {s}

\* MS3 and MS7 delete what the account owns and confirm.
UserCleanup(s) ==
    LET ack == userAsked' = [userAsked EXCEPT ![s] = @ - 1]
    IN  /\ userAsked[s] > 0
        /\ \/ UserClean(s) /\ UserConfirm(s) /\ ack /\ UNCHANGED mishaps
           \/ Mishap /\ ack /\ UNCHANGED <<userCleaned, userConfirmed>>
           \/ Mishap /\ UserClean(s) /\ ack /\ UNCHANGED userConfirmed
           \/ Mishap /\ UserClean(s) /\ UNCHANGED <<userAsked, userConfirmed>>
           \/ Mishap /\ UserClean(s) /\ UserConfirm(s) /\ UNCHANGED userAsked
        /\ UNCHANGED <<ms2, ms1, asked, confirmed,
                       born, cleaned, listed, overlapped, mixed, missed>>

\* A confirmation without a saga in progress, or for a step that is done, changes nothing.
UserFinalize(s) ==
    LET ticked == [userSaga.steps EXCEPT ![s] = "completed"] IN
    /\ userConfirmed[s] > 0
    /\ \/ userConfirmed' = [userConfirmed EXCEPT ![s] = @ - 1] /\ UNCHANGED mishaps
       \/ Mishap /\ UNCHANGED userConfirmed
    /\ IF userSaga.status # "in_progress" \/ userSaga.steps[s] # "pending"
       THEN UNCHANGED <<user, userSaga>>
       ELSE IF Outstanding(ticked)
       THEN userSaga' = [userSaga EXCEPT !.steps = ticked] /\ UNCHANGED user
       ELSE userSaga' = [status |-> "completed", steps |-> ticked] /\ user' = "absent"
    /\ UNCHANGED <<ms2, account, asked, confirmed, userAsked, history>>

-----------------------------------------------------------------------------
Init ==
    /\ row = [p \in Projects |-> "absent"]
    /\ sagas = [i \in SagaIds |-> NewSaga]
    /\ destroyer = [d \in Deleters |-> Rest]
    /\ editor = RestEdit
    /\ initiator = RestInit
    /\ user = "active"
    /\ userSaga = [status |-> "none", steps |-> [s \in UserServices |-> "none"]]
    /\ account = "idle"
    /\ asked = [s \in ProjectServices |-> [p \in Projects |-> 0]]
    /\ confirmed = [s \in ProjectServices |-> [p \in Projects |-> 0]]
    /\ userAsked = [s \in UserServices |-> 0]
    /\ userConfirmed = [s \in UserServices |-> 0]
    /\ mishaps = 0
    /\ born = {}
    /\ cleaned = [p \in Projects |-> {}]
    /\ userCleaned = {}
    /\ listed = {}
    /\ overlapped = {}
    /\ mixed = {}
    /\ missed = {}

UserRequests ==
    \/ \E p \in Projects : CreateProject(p) \/ EditLoad(p)
    \/ \E d \in Deleters, p \in Projects : DestroyLoad(d, p)
    \/ AccountPublish

Faults ==
    \/ \E d \in Deleters : DestroyCrash(d)
    \/ InitiatorCrash
    \/ AccountCrash
    \/ \E s \in ProjectServices, p \in Projects : Republish(s, p)

DestroyNext(d) ==
    \/ DestroyCheck(d) \/ DestroySoft(d) \/ DestroySaga(d) \/ DestroyStep(d)
    \/ DestroyPublish(d) \/ DestroyRestore(d) \/ DestroyFail(d)

InitiatorNext ==
    \/ InitiatorList \/ InitiatorPublish \/ InitiatorCommit \/ InitiatorConfirm
    \/ \E p \in Projects : InitiatorCheck(p)

Work ==
    \/ EditSave
    \/ \E d \in Deleters : DestroyNext(d)
    \/ InitiatorNext
    \/ AccountCommit
    \/ \E s \in ProjectServices, p \in Projects : Cleanup(s, p) \/ Finalize(s, p)
    \/ \E s \in ResourceServices : UserCleanup(s)
    \/ \E s \in UserServices : UserFinalize(s)

Next == UserRequests \/ Faults \/ Work

Spec == Init /\ [][Next]_vars

-----------------------------------------------------------------------------
(* Properties.                                                             *)

\* No message, no request under way.
Quiet ==
    /\ \A d \in Deleters : destroyer[d].step = "idle"
    /\ editor.step = "idle" /\ initiator.step = "idle" /\ account = "idle"
    /\ \A s \in ProjectServices, p \in Projects : asked[s][p] = 0 /\ confirmed[s][p] = 0
    /\ \A s \in UserServices : userAsked[s] = 0 /\ userConfirmed[s] = 0

\* The check for a saga in progress (MS2 views.py and run_user_cleanup_initiator.py)
\* keeps a second one from being started, unless two initiations of the same
\* project look before either of them has written.
OneSaga ==
    \A p \in Projects : p \notin overlapped => \A i, j \in InProgress(p) : i = j

\* When a saga is completed and its project deleted, every service it waits for has
\* cleaned up.  One thing can break this, since the API writes the steps of a saga one
\* by one: a confirmation meant for an earlier saga, or for one that was rolled back
\* after its event went out, comes before all the steps are there.
GoneIsCleaned ==
    \A i \in SagaIds : sagas[i].status = "completed" =>
        sagas[i].project \in mixed \/ sagas[i].awaits \subseteq cleaned[sagas[i].project]

\* A saga that nothing will end any more has lost a confirmation: it came before the
\* transaction that creates the saga was committed, or there were two sagas, or it came
\* before the steps were all written, so that the request that writes them failed.
NoSagaStranded ==
    Quiet /\ mishaps = 0 =>
        \A i \in SagaIds : sagas[i].status = "in_progress" =>
            sagas[i].project \in missed \cup mixed

\* When MS1 deletes an account, MS3 and MS7 have deleted what it owned, and every
\* project found active has had a saga of its own, as long as nothing failed.
AccountTakesAll ==
    user = "absent" =>
        /\ userCleaned = ResourceServices
        /\ mishaps = 0 => \A p \in listed : \E i \in SagaIds : sagas[i].project = p
=============================================================================
