------------------------ MODULE DeletionSaga_proofs ------------------------
(***************************************************************************)
(* Proofs about the deletion sagas, for any projects, requests, sagas and  *)
(* services and any number of mishaps: types, one saga at a time, that a   *)
(* project is gone only when the services it waited for have cleaned up,   *)
(* that no saga waits for ever without having lost a confirmation, and     *)
(* what the deletion of an account takes with it.                          *)
(***************************************************************************)
EXTENDS DeletionSaga, FiniteSetTheorems, TLAPS

-----------------------------------------------------------------------------
(* How a step may change one record, or one count of messages.             *)

LEMMA SagaChange ==
    ASSUME sagas \in [SagaIds -> Saga], NEW i, NEW x, i \in SagaIds => x \in Saga,
           sagas' = [sagas EXCEPT ![i] = x]
    PROVE  sagas' \in [SagaIds -> Saga]
  OBVIOUS

\* The records a process starts from, and goes back to.
LEMMA RestTypes ==
    /\ NewSaga \in Saga
    /\ Rest \in Destroyer
    /\ RestEdit \in Editor
    /\ RestInit \in Initiator
<1>1. NewSteps \in [ProjectServices -> StepStatus]
  BY DEF NewSteps, StepStatus
<1>2. NewSaga \in Saga
  BY <1>1 DEF NewSaga, Saga, SagaStatus
<1>3. Rest \in Destroyer
  BY SagaAssumption DEF Rest, Destroyer
<1>4. RestEdit \in Editor /\ RestInit \in Initiator
  BY DEF RestEdit, Editor, RowStatus, RestInit, Initiator
<1> QED BY <1>2, <1>3, <1>4

\* The API's list gives a service for every step it writes.
LEMMA NextService ==
    ASSUME NEW n \in 0..Len(ServiceOrder), n < Len(ServiceOrder)
    PROVE  n + 1 \in 0..Len(ServiceOrder) /\ ServiceOrder[n + 1] \in ProjectServices
<1>1. Len(ServiceOrder) \in Nat
  BY SagaAssumption
<1>2. n + 1 \in 1..Len(ServiceOrder)
  BY <1>1
<1>3. ServiceOrder[n + 1] \in ProjectServices
  BY <1>2, Zenon DEF ProjectServices
<1> QED BY <1>1, <1>2, <1>3

LEMMA AnnouncedType ==
    ASSUME QueuesOK, NEW p
    PROVE  Announced(p) \in [ProjectServices -> [Projects -> Nat]]
<1>1. ASSUME NEW s \in ProjectServices
      PROVE  [asked[s] EXCEPT ![p] = @ + 1] \in [Projects -> Nat]
  <2>1. asked[s] \in [Projects -> Nat] /\ (p \in Projects => asked[s][p] + 1 \in Nat)
    BY DEF QueuesOK
  <2> DEFINE n == asked[s][p] + 1
  <2>2. p \in Projects => n \in Nat
    BY <2>1
  <2> HIDE DEF n
  <2>3. [asked[s] EXCEPT ![p] = n] \in [Projects -> Nat]
    BY <2>1, <2>2
  <2> QED BY <2>3 DEF n
<1> QED BY <1>1 DEF Announced

LEMMA MishapType ==
    ASSUME mishaps \in Nat, Mishap \/ UNCHANGED mishaps
    PROVE  mishaps' \in Nat
  BY DEF Mishap

\* One more, or one fewer, copy of a message.
LEMMA CountMore ==
    ASSUME NEW f \in [ProjectServices -> [Projects -> Nat]], NEW g,
           NEW s \in ProjectServices, NEW p \in Projects,
           g = [f EXCEPT ![s][p] = @ + 1] \/ g = f
    PROVE  g \in [ProjectServices -> [Projects -> Nat]]
<1>1. f[s][p] + 1 \in Nat
  OBVIOUS
<1>2. ASSUME NEW n \in Nat PROVE [f EXCEPT ![s][p] = n] \in [ProjectServices -> [Projects -> Nat]]
  OBVIOUS
<1> QED BY <1>1, <1>2

LEMMA CountLess ==
    ASSUME NEW f \in [ProjectServices -> [Projects -> Nat]], NEW g,
           NEW s \in ProjectServices, NEW p \in Projects, f[s][p] > 0,
           g = [f EXCEPT ![s][p] = @ - 1] \/ g = f
    PROVE  g \in [ProjectServices -> [Projects -> Nat]]
<1>1. f[s][p] - 1 \in Nat
  OBVIOUS
<1>2. ASSUME NEW n \in Nat PROVE [f EXCEPT ![s][p] = n] \in [ProjectServices -> [Projects -> Nat]]
  OBVIOUS
<1> QED BY <1>1, <1>2

-----------------------------------------------------------------------------
(* Types.                                                                  *)

\* A request under way has a project.
Addressed == \A d \in Deleters : destroyer[d].step # "idle" => destroyer[d].project \in Projects

\* The initiator works for an event that is not acknowledged yet.
Answerable == initiator.step # "idle" => userAsked["ProjectService"] > 0

LEMMA InitType == Init => TypeOK /\ Addressed /\ Answerable
<1> SUFFICES ASSUME Init PROVE TypeOK /\ Addressed /\ Answerable
  OBVIOUS
<1>1. Ms2OK
  BY RestTypes DEF Init, Ms2OK, RowStatus
<1>2. Ms1OK
  BY DEF Init, Ms1OK, UserSaga, SagaStatus, StepStatus
<1>3. QueuesOK /\ HistoryOK
  BY DEF Init, QueuesOK, HistoryOK
<1>4. Addressed /\ Answerable
  BY DEF Init, Addressed, Rest, Answerable, RestInit
<1> QED BY <1>1, <1>2, <1>3, <1>4 DEF TypeOK

\* A step that leaves a group of variables alone.
LEMMA Ms1Same == ASSUME Ms1OK, UNCHANGED ms1 PROVE Ms1OK'
  BY DEF Ms1OK, ms1
LEMMA QueuesSame == ASSUME QueuesOK, UNCHANGED queues, Mishap \/ UNCHANGED mishaps PROVE QueuesOK'
  BY MishapType DEF QueuesOK, queues
LEMMA HistorySame == ASSUME HistoryOK, UNCHANGED history PROVE HistoryOK'
  BY DEF HistoryOK, history

\* A request goes on, and keeps its project, or ends.
LEMMA DestroyerChange ==
    ASSUME destroyer \in [Deleters -> Destroyer], Addressed, NEW d \in Deleters, NEW x \in Destroyer,
           destroyer' = [destroyer EXCEPT ![d] = x],
           x.step # "idle" => x.project \in Projects
    PROVE  destroyer' \in [Deleters -> Destroyer] /\ Addressed'
  BY DEF Addressed

LEMMA DestroyerMoves ==
    ASSUME destroyer \in [Deleters -> Destroyer], Addressed, NEW d \in Deleters,
           destroyer[d].step # "idle",
           NEW step \in {"checked", "soft", "unpublished", "restored"},
           \/ destroyer' = [destroyer EXCEPT ![d].step = step]
           \/ destroyer' = [destroyer EXCEPT ![d] = Rest]
    PROVE  destroyer' \in [Deleters -> Destroyer] /\ Addressed'
<1> DEFINE x == [destroyer[d] EXCEPT !.step = step]
<1>1. destroyer[d] \in Destroyer /\ destroyer[d].project \in Projects
  BY DEF Addressed
<1>2. x \in Destroyer /\ x.project \in Projects
  BY <1>1 DEF Destroyer
<1>3. Rest \in Destroyer /\ Rest.step = "idle"
  BY RestTypes DEF Rest
<1>4. destroyer' = [destroyer EXCEPT ![d] = x] \/ destroyer' = [destroyer EXCEPT ![d] = Rest]
  OBVIOUS
<1> HIDE DEF x
<1> QED BY <1>2, <1>3, <1>4, DestroyerChange

LEMMA DestroyType ==
    ASSUME TypeOK, Addressed, NEW d \in Deleters, DestroyNext(d) \/ DestroyCrash(d)
    PROVE  TypeOK' /\ Addressed'
<1> USE DEF TypeOK
<1>0. /\ destroyer \in [Deleters -> Destroyer] /\ destroyer[d] \in Destroyer
      /\ destroyer[d].step # "idle" => destroyer[d].project \in Projects
  BY DEF Ms2OK, Addressed
<1>1. CASE DestroyCheck(d)
  <2>1. destroyer' \in [Deleters -> Destroyer] /\ Addressed'
    BY <1>0, <1>1, DestroyerMoves DEF DestroyCheck
  <2>2. Ms2OK'
    BY <1>1, <2>1 DEF Ms2OK, DestroyCheck
  <2>3. HistoryOK'
    BY <1>0, <1>1 DEF HistoryOK, DestroyCheck
  <2> QED BY <1>1, <2>1, <2>2, <2>3, Ms1Same, QueuesSame DEF DestroyCheck
<1>2. CASE DestroySoft(d)
  <2>1. destroyer' \in [Deleters -> Destroyer] /\ Addressed'
    BY <1>0, <1>2, DestroyerMoves DEF DestroySoft
  <2>2. Ms2OK'
    BY <1>2, <2>1 DEF Ms2OK, DestroySoft, RowStatus
  <2> QED BY <1>2, <2>1, <2>2, Ms1Same, QueuesSame, HistorySame DEF DestroySoft
<1>3. CASE DestroySaga(d)
  <2>1. PICK i \in SagaIds :
          /\ sagas' = [sagas EXCEPT ![i] = [NewSaga EXCEPT !.status = "in_progress",
                                                           !.project = destroyer[d].project,
                                                           !.awaits = ProjectServices]]
          /\ destroyer' = [destroyer EXCEPT ![d].step = "saga", ![d].saga = i]
    BY <1>3 DEF DestroySaga
  <2> DEFINE x == [NewSaga EXCEPT !.status = "in_progress", !.project = destroyer[d].project,
                                  !.awaits = ProjectServices]
             y == [destroyer[d] EXCEPT !.step = "saga", !.saga = i]
  <2>2. x \in Saga
    BY <1>0, RestTypes DEF Saga, SagaStatus, Destroyer
  <2>3. y \in Destroyer /\ y.project \in Projects
    BY <1>0, <1>3 DEF DestroySaga, Destroyer
  <2>4. sagas' = [sagas EXCEPT ![i] = x]
    BY <2>1
  <2>5. destroyer' = [destroyer EXCEPT ![d] = y]
    BY <2>1, <1>0
  <2> HIDE DEF x, y
  <2>6. sagas' \in [SagaIds -> Saga]
    BY <2>2, <2>4, SagaChange DEF Ms2OK
  <2>7. destroyer' \in [Deleters -> Destroyer] /\ Addressed'
    BY <1>0, <2>3, <2>5, DestroyerChange
  <2>8. Ms2OK'
    BY <1>3, <2>6, <2>7 DEF Ms2OK, DestroySaga
  <2> QED BY <1>3, <2>7, <2>8, Ms1Same, QueuesSame, HistorySame DEF DestroySaga
<1>4. CASE DestroyStep(d)
  <2> DEFINE i == destroyer[d].saga
             next == ServiceOrder[destroyer[d].written + 1]
             x == [sagas[i] EXCEPT !.steps = [sagas[i].steps EXCEPT ![next] = "pending"]]
             y == [destroyer[d] EXCEPT !.written = @ + 1]
  <2>1. /\ destroyer[d].step # "idle" /\ destroyer[d].written < Len(ServiceOrder)
        /\ destroyer[d].written \in 0..Len(ServiceOrder)
    BY <1>0, <1>4 DEF DestroyStep, Destroyer
  <2>2. destroyer[d].written + 1 \in 0..Len(ServiceOrder) /\ next \in ProjectServices
    BY <2>1, NextService
  <2>3. y \in Destroyer /\ y.project \in Projects
    BY <1>0, <2>1, <2>2 DEF Destroyer
  <2>4. i \in SagaIds => x \in Saga
    BY <2>2 DEF Ms2OK, Saga, StepStatus
  <2>5. \/ sagas' = [sagas EXCEPT ![i] = x] /\ destroyer' = [destroyer EXCEPT ![d] = y]
        \/ sagas' = sagas /\ destroyer' = [destroyer EXCEPT ![d] = Rest]
    BY <1>4 DEF DestroyStep
  <2> HIDE DEF x, y, i
  <2>6. sagas' \in [SagaIds -> Saga]
    BY <2>4, <2>5, SagaChange DEF Ms2OK
  <2>7. Rest \in Destroyer /\ Rest.step = "idle"
    BY RestTypes DEF Rest
  <2>8. destroyer' \in [Deleters -> Destroyer] /\ Addressed'
    BY <1>0, <2>3, <2>5, <2>7, DestroyerChange
  <2>9. Ms2OK'
    BY <1>4, <2>6, <2>8 DEF Ms2OK, DestroyStep
  <2> QED BY <1>4, <2>8, <2>9, Ms1Same, QueuesSame, HistorySame DEF DestroyStep
<1>5. CASE DestroyPublish(d)
  <2>1. destroyer' \in [Deleters -> Destroyer] /\ Addressed'
    BY <1>0, <1>5, DestroyerMoves DEF DestroyPublish
  <2>2. Ms2OK'
    BY <1>5, <2>1 DEF Ms2OK, DestroyPublish
  <2>3. asked' \in [ProjectServices -> [Projects -> Nat]]
    BY <1>5, AnnouncedType DEF DestroyPublish, QueuesOK
  <2>4. mishaps' \in Nat
    BY <1>5, MishapType DEF DestroyPublish, QueuesOK
  <2>5. QueuesOK'
    BY <1>5, <2>3, <2>4 DEF DestroyPublish, QueuesOK
  <2> QED BY <1>5, <2>1, <2>2, <2>5, Ms1Same, HistorySame DEF DestroyPublish
<1>6. CASE DestroyRestore(d)
  <2>1. destroyer' \in [Deleters -> Destroyer] /\ Addressed'
    BY <1>0, <1>6, DestroyerMoves DEF DestroyRestore
  <2>2. Ms2OK'
    BY <1>6, <2>1 DEF Ms2OK, DestroyRestore, RowStatus
  <2> QED BY <1>6, <2>1, <2>2, Ms1Same, QueuesSame, HistorySame DEF DestroyRestore
<1>7. CASE DestroyFail(d)
  <2> DEFINE i == destroyer[d].saga
             x == [sagas[i] EXCEPT !.status = "failed"]
  <2>1. destroyer' \in [Deleters -> Destroyer] /\ Addressed'
    BY <1>0, <1>7, DestroyerMoves DEF DestroyFail
  <2>2. i \in SagaIds => x \in Saga
    BY DEF Ms2OK, Saga, SagaStatus
  <2>3. sagas' = [sagas EXCEPT ![i] = x]
    BY <1>7 DEF DestroyFail
  <2> HIDE DEF x, i
  <2>4. sagas' \in [SagaIds -> Saga]
    BY <2>2, <2>3, SagaChange DEF Ms2OK
  <2>5. Ms2OK'
    BY <1>7, <2>1, <2>4 DEF Ms2OK, DestroyFail
  <2> QED BY <1>7, <2>1, <2>5, Ms1Same, QueuesSame, HistorySame DEF DestroyFail
<1>8. CASE DestroyCrash(d)
  <2>1. destroyer' \in [Deleters -> Destroyer] /\ Addressed'
    BY <1>0, <1>8, DestroyerMoves DEF DestroyCrash
  <2>2. Ms2OK'
    BY <1>8, <2>1 DEF Ms2OK, DestroyCrash
  <2> QED BY <1>8, <2>1, <2>2, Ms1Same, QueuesSame, HistorySame DEF DestroyCrash
<1> QED BY <1>1, <1>2, <1>3, <1>4, <1>5, <1>6, <1>7, <1>8 DEF DestroyNext

\* What MS2's workers do: the finalizer and the initiator of an account's project sagas.
LEMMA FinalizeType ==
    ASSUME TypeOK, Addressed, NEW s \in ProjectServices, NEW p \in Projects, Finalize(s, p)
    PROVE  TypeOK' /\ Addressed'
<1> USE DEF TypeOK
<1>1. confirmed' \in [ProjectServices -> [Projects -> Nat]]
  <2>1. /\ confirmed \in [ProjectServices -> [Projects -> Nat]] /\ confirmed[s][p] > 0
        /\ confirmed' = [confirmed EXCEPT ![s][p] = @ - 1] \/ confirmed' = confirmed
    BY DEF Finalize, QueuesOK
  <2> QED BY <2>1, CountLess
<1>2. QueuesOK'
  BY <1>1, MishapType DEF Finalize, QueuesOK
<1>3. HistoryOK'
  BY DEF Finalize, HistoryOK
<1>4. row' \in [Projects -> RowStatus]
  BY DEF Finalize, Ms2OK, RowStatus
<1>5. sagas' \in [SagaIds -> Saga]
  <2>1. CASE UNCHANGED sagas
    BY <2>1 DEF Ms2OK
  <2>2. ASSUME NEW i \in SagaIds, NEW status \in SagaStatus,
               sagas' = [sagas EXCEPT ![i] = [sagas[i] EXCEPT !.steps = Ticked(i, s), !.status = status]]
        PROVE  sagas' \in [SagaIds -> Saga]
    <3> DEFINE x == [sagas[i] EXCEPT !.steps = Ticked(i, s), !.status = status]
    <3>1. Ticked(i, s) \in [ProjectServices -> StepStatus]
      BY DEF Ms2OK, Saga, Ticked, StepStatus
    <3>2. x \in Saga
      BY <3>1, <2>2 DEF Ms2OK, Saga
    <3>3. sagas' = [sagas EXCEPT ![i] = x]
      BY <2>2
    <3> HIDE DEF x
    <3> QED BY <3>2, <3>3, SagaChange DEF Ms2OK
  <2>3. ASSUME NEW i \in SagaIds, sagas' = [sagas EXCEPT ![i].steps = Ticked(i, s)]
        PROVE  sagas' \in [SagaIds -> Saga]
    <3> DEFINE x == [sagas[i] EXCEPT !.steps = Ticked(i, s)]
    <3>1. Ticked(i, s) \in [ProjectServices -> StepStatus]
      BY DEF Ms2OK, Saga, Ticked, StepStatus
    <3>2. x \in Saga
      BY <3>1 DEF Ms2OK, Saga
    <3>3. sagas' = [sagas EXCEPT ![i] = x]
      BY <2>3
    <3> HIDE DEF x
    <3> QED BY <3>2, <3>3, SagaChange DEF Ms2OK
  <2>4. \/ UNCHANGED sagas
        \/ \E i \in SagaIds :
              \/ sagas' = [sagas EXCEPT ![i].steps = Ticked(i, s)]
              \/ sagas' = [sagas EXCEPT ![i].steps = Ticked(i, s), ![i].status = "completed"]
    BY DEF Finalize, InProgress
  <2>5. ASSUME NEW i \in SagaIds,
               sagas' = [sagas EXCEPT ![i].steps = Ticked(i, s), ![i].status = "completed"]
        PROVE  sagas' = [sagas EXCEPT ![i] = [sagas[i] EXCEPT !.steps = Ticked(i, s), !.status = "completed"]]
    BY <2>5 DEF Ms2OK
  <2>6. "completed" \in SagaStatus
    BY DEF SagaStatus
  <2> QED BY <2>1, <2>2, <2>3, <2>4, <2>5, <2>6
<1>6. Ms2OK' /\ Addressed'
  BY <1>4, <1>5 DEF Finalize, Ms2OK, Addressed
<1> QED BY <1>2, <1>3, <1>6, Ms1Same DEF Finalize

LEMMA InitiatorType ==
    ASSUME TypeOK, Addressed, Answerable, InitiatorNext \/ InitiatorCrash
    PROVE  TypeOK' /\ Addressed'
<1> USE DEF TypeOK
<1>0. UNCHANGED <<destroyer, editor, ms1>> /\ Addressed'
  BY DEF InitiatorNext, InitiatorList, InitiatorPublish, InitiatorCommit, InitiatorConfirm,
         InitiatorCheck, InitiatorCrash, Addressed
<1>1. CASE InitiatorList
  <2>1. Ms2OK' /\ HistoryOK'
    BY <1>0, <1>1 DEF Ms2OK, HistoryOK, InitiatorList, RestInit, Initiator
  <2> QED BY <1>0, <1>1, <2>1, Ms1Same, QueuesSame DEF InitiatorList
<1>2. ASSUME NEW p \in Projects, InitiatorCheck(p) PROVE TypeOK' /\ Addressed'
  <2>1. Ms2OK' /\ HistoryOK'
    BY <1>0, <1>2 DEF Ms2OK, HistoryOK, InitiatorCheck, Initiator
  <2> QED BY <1>0, <1>2, <2>1, Ms1Same, QueuesSame DEF InitiatorCheck
<1>3. CASE InitiatorPublish
  <2>1. Ms2OK'
    BY <1>0, <1>3 DEF Ms2OK, InitiatorPublish, BackToList, Initiator
  <2>2. asked' \in [ProjectServices -> [Projects -> Nat]]
    BY <1>3, AnnouncedType DEF InitiatorPublish, QueuesOK
  <2>3. mishaps' \in Nat
    BY <1>3, MishapType DEF InitiatorPublish, QueuesOK
  <2>4. QueuesOK'
    BY <1>3, <2>2, <2>3 DEF QueuesOK, InitiatorPublish
  <2> QED BY <1>0, <1>3, <2>1, <2>4, Ms1Same, HistorySame DEF InitiatorPublish
<1>4. CASE InitiatorCommit
  <2> DEFINE x == [status |-> "in_progress", project |-> initiator.project, awaits |-> UserWaitsFor,
                   steps |-> [s \in ProjectServices |-> IF s \in UserWaitsFor THEN "pending" ELSE "none"]]
  <2>1. PICK i \in SagaIds : sagas' = [sagas EXCEPT ![i] = x]
    BY <1>4 DEF InitiatorCommit
  <2>2. x \in Saga
    BY SagaAssumption DEF Ms2OK, Saga, SagaStatus, StepStatus, Initiator
  <2> HIDE DEF x
  <2>3. sagas' \in [SagaIds -> Saga]
    BY <2>1, <2>2, SagaChange DEF Ms2OK
  <2>4. Ms2OK'
    BY <1>0, <1>4, <2>3 DEF Ms2OK, InitiatorCommit, BackToList, Initiator, RowStatus
  <2> QED BY <1>0, <1>4, <2>4, Ms1Same, QueuesSame, HistorySame DEF InitiatorCommit
<1>5. CASE InitiatorConfirm
  <2>1. Ms2OK'
    BY <1>0, <1>5, RestTypes DEF Ms2OK, InitiatorConfirm
  <2>2. UNCHANGED asked /\ UNCHANGED confirmed
    BY <1>5 DEF InitiatorConfirm
  <2>3. userAsked' \in [UserServices -> Nat]
    <3>1. userAsked \in [UserServices -> Nat] /\ userAsked["ProjectService"] - 1 \in Nat
      BY <1>5, SagaAssumption DEF InitiatorConfirm, QueuesOK, Answerable
    <3> QED BY <1>5, <3>1 DEF InitiatorConfirm
  <2>4. QueuesOK'
    BY <1>5, <2>2, <2>3, MishapType DEF QueuesOK, InitiatorConfirm, UserConfirm
  <2> QED BY <1>0, <1>5, <2>1, <2>4, Ms1Same, HistorySame DEF InitiatorConfirm
<1>6. CASE InitiatorCrash
  <2>1. Ms2OK'
    BY <1>0, <1>6, RestTypes DEF Ms2OK, InitiatorCrash
  <2> QED BY <1>0, <1>6, <2>1, Ms1Same, QueuesSame, HistorySame DEF InitiatorCrash
<1> QED BY <1>1, <1>2, <1>3, <1>4, <1>5, <1>6 DEF InitiatorNext

\* The services that clean up, and MS1.
LEMMA CleanupType ==
    ASSUME TypeOK, NEW s \in ProjectServices, NEW p \in Projects, Cleanup(s, p)
    PROVE  TypeOK'
<1> USE DEF TypeOK
<1>1. /\ asked \in [ProjectServices -> [Projects -> Nat]] /\ asked[s][p] > 0
      /\ asked' = [asked EXCEPT ![s][p] = @ - 1] \/ asked' = asked
      /\ confirmed \in [ProjectServices -> [Projects -> Nat]]
      /\ confirmed' = [confirmed EXCEPT ![s][p] = @ + 1] \/ confirmed' = confirmed
  BY DEF Cleanup, Confirm, QueuesOK
<1>2. /\ asked' \in [ProjectServices -> [Projects -> Nat]]
      /\ confirmed' \in [ProjectServices -> [Projects -> Nat]]
  BY <1>1, CountMore, CountLess
<1>3. mishaps' \in Nat
  BY MishapType DEF Cleanup, QueuesOK
<1>4. QueuesOK'
  BY <1>2, <1>3 DEF QueuesOK, Cleanup
<1>5. cleaned' \in [Projects -> SUBSET ProjectServices]
  BY DEF HistoryOK, Cleanup
<1>6. HistoryOK'
  BY <1>5 DEF HistoryOK, Cleanup
<1>7. Ms2OK' /\ Ms1OK'
  BY DEF Ms2OK, Cleanup, ms2, Ms1Same, Ms1OK, ms1
<1> QED BY <1>4, <1>6, <1>7

LEMMA UserCleanupType ==
    ASSUME TypeOK, NEW s \in ResourceServices, UserCleanup(s)
    PROVE  TypeOK'
<1> USE DEF TypeOK
<1>1. s \in UserServices
  BY DEF ResourceServices
<1>2. /\ userAsked' \in [UserServices -> Nat]
      /\ userConfirmed' \in [UserServices -> Nat]
  BY <1>1 DEF QueuesOK, UserCleanup, UserConfirm
<1>3. QueuesOK'
  BY <1>2, MishapType DEF QueuesOK, UserCleanup
<1>4. HistoryOK'
  BY DEF HistoryOK, UserCleanup, UserClean
<1>5. Ms2OK' /\ Ms1OK'
  BY DEF Ms2OK, UserCleanup, ms2, Ms1OK, ms1
<1> QED BY <1>3, <1>4, <1>5

LEMMA UserFinalizeType ==
    ASSUME TypeOK, NEW s \in UserServices, UserFinalize(s)
    PROVE  TypeOK'
<1> USE DEF TypeOK
<1> DEFINE ticked == [userSaga.steps EXCEPT ![s] = "completed"]
<1>1. ticked \in [UserServices -> StepStatus]
  BY DEF Ms1OK, UserSaga, StepStatus
<1>2. /\ [userSaga EXCEPT !.steps = ticked] \in UserSaga
      /\ [status |-> "completed", steps |-> ticked] \in UserSaga
  BY <1>1 DEF Ms1OK, UserSaga, SagaStatus
<1>3. Ms1OK'
  BY <1>2 DEF Ms1OK, UserFinalize
<1>4. userConfirmed' \in [UserServices -> Nat]
  BY DEF QueuesOK, UserFinalize
<1>5. QueuesOK'
  BY <1>4, MishapType DEF QueuesOK, UserFinalize
<1>6. Ms2OK'
  BY DEF Ms2OK, UserFinalize, ms2
<1> QED BY <1>3, <1>5, <1>6, HistorySame DEF UserFinalize

LEMMA RequestType ==
    ASSUME TypeOK, Addressed, UserRequests \/ AccountCommit \/ AccountCrash \/ EditSave
    PROVE  TypeOK' /\ Addressed'
<1> USE DEF TypeOK
<1>1. ASSUME NEW p \in Projects, CreateProject(p) PROVE TypeOK' /\ Addressed'
  <2>1. Ms2OK' /\ HistoryOK' /\ Addressed'
    BY <1>1 DEF CreateProject, Ms2OK, HistoryOK, RowStatus, Addressed
  <2> QED BY <1>1, <2>1, Ms1Same, QueuesSame DEF CreateProject
<1>2. ASSUME NEW p \in Projects, EditLoad(p) PROVE TypeOK' /\ Addressed'
  <2>1. Ms2OK' /\ Addressed'
    BY <1>2 DEF EditLoad, Ms2OK, Editor, Addressed
  <2> QED BY <1>2, <2>1, Ms1Same, QueuesSame, HistorySame DEF EditLoad
<1>3. ASSUME NEW d \in Deleters, NEW p \in Projects, DestroyLoad(d, p) PROVE TypeOK' /\ Addressed'
  <2> DEFINE x == [Rest EXCEPT !.step = "loaded", !.project = p]
  <2>1. x \in Destroyer /\ x.project \in Projects
    BY RestTypes DEF Destroyer
  <2>2. destroyer' = [destroyer EXCEPT ![d] = x]
    BY <1>3 DEF DestroyLoad
  <2> HIDE DEF x
  <2>3. destroyer' \in [Deleters -> Destroyer] /\ Addressed'
    BY <2>1, <2>2, DestroyerChange DEF Ms2OK
  <2>4. Ms2OK'
    BY <1>3, <2>3 DEF DestroyLoad, Ms2OK
  <2> QED BY <1>3, <2>3, <2>4, Ms1Same, QueuesSame, HistorySame DEF DestroyLoad
<1>4. CASE AccountPublish
  <2>1. userAsked' \in [UserServices -> Nat]
    BY <1>4 DEF QueuesOK, AccountPublish, UserAnnounced
  <2>2. QueuesOK'
    BY <1>4, <2>1, MishapType DEF QueuesOK, AccountPublish
  <2>3. Ms1OK' /\ Ms2OK' /\ Addressed'
    BY <1>4 DEF Ms1OK, Ms2OK, AccountPublish, ms2, Addressed
  <2> QED BY <1>4, <2>2, <2>3, HistorySame DEF AccountPublish
<1>5. CASE AccountCommit
  <2>1. Ms1OK'
    BY <1>5 DEF Ms1OK, AccountCommit, UserSaga, SagaStatus, StepStatus
  <2>2. Ms2OK' /\ Addressed'
    BY <1>5 DEF Ms2OK, AccountCommit, ms2, Addressed
  <2> QED BY <1>5, <2>1, <2>2, QueuesSame, HistorySame DEF AccountCommit
<1>6. CASE AccountCrash
  <2>1. Ms1OK' /\ Ms2OK' /\ Addressed'
    BY <1>6 DEF Ms1OK, Ms2OK, AccountCrash, ms2, Addressed
  <2> QED BY <1>6, <2>1, QueuesSame, HistorySame DEF AccountCrash
<1>7. CASE EditSave
  <2>1. Ms2OK' /\ Addressed'
    BY <1>7, RestTypes DEF EditSave, Ms2OK, Editor, Addressed
  <2> QED BY <1>7, <2>1, Ms1Same, QueuesSame, HistorySame DEF EditSave
<1> QED BY <1>1, <1>2, <1>3, <1>4, <1>5, <1>6, <1>7 DEF UserRequests

LEMMA RepublishType ==
    ASSUME TypeOK, NEW s \in ProjectServices, NEW p \in Projects, Republish(s, p)
    PROVE  TypeOK'
<1> USE DEF TypeOK
<1>1. /\ asked \in [ProjectServices -> [Projects -> Nat]]
      /\ asked' = [asked EXCEPT ![s][p] = @ + 1] \/ asked' = asked
      /\ confirmed \in [ProjectServices -> [Projects -> Nat]]
      /\ confirmed' = [confirmed EXCEPT ![s][p] = @ + 1] \/ confirmed' = confirmed
  BY DEF Republish, QueuesOK
<1>2. /\ asked' \in [ProjectServices -> [Projects -> Nat]]
      /\ confirmed' \in [ProjectServices -> [Projects -> Nat]]
  BY <1>1, CountMore
<1>3. QueuesOK'
  BY <1>2, MishapType DEF QueuesOK, Republish
<1>4. Ms2OK' /\ Ms1OK'
  BY DEF Ms2OK, Republish, ms2, Ms1OK, ms1
<1> QED BY <1>3, <1>4, HistorySame DEF Republish

LEMMA TypeStep ==
    ASSUME TypeOK, Addressed, Answerable, [Next]_vars
    PROVE  TypeOK' /\ Addressed' /\ Answerable'
<1>1. CASE UNCHANGED vars
  BY <1>1 DEF vars, ms2, ms1, queues, history, TypeOK, Ms2OK, Ms1OK, QueuesOK, HistoryOK,
              Addressed, Answerable
<1>2. CASE UserRequests
  <2>1. UNCHANGED initiator
    BY <1>2 DEF UserRequests, CreateProject, EditLoad, DestroyLoad, AccountPublish, ms2
  <2>2. userAsked' = userAsked \/ userAsked' = [s \in UserServices |-> userAsked[s] + 1]
    BY <1>2 DEF UserRequests, CreateProject, EditLoad, DestroyLoad, AccountPublish, UserAnnounced, queues
  <2>3. Answerable'
    BY <2>1, <2>2, SagaAssumption DEF Answerable, TypeOK, QueuesOK
  <2> QED BY <1>2, <2>3, RequestType
<1>3. CASE Faults
  <2>1. ASSUME NEW d \in Deleters, DestroyCrash(d) PROVE TypeOK' /\ Addressed' /\ Answerable'
    BY <2>1, DestroyType DEF DestroyCrash, queues, Answerable
  <2>2. CASE InitiatorCrash
    BY <2>2, InitiatorType DEF InitiatorCrash, RestInit, Answerable
  <2>3. CASE AccountCrash
    BY <2>3, RequestType DEF AccountCrash, ms2, queues, Answerable
  <2>4. ASSUME NEW s \in ProjectServices, NEW p \in Projects, Republish(s, p)
        PROVE  TypeOK' /\ Addressed' /\ Answerable'
    BY <2>4, RepublishType DEF Republish, ms2, Addressed, Answerable
  <2> QED BY <1>3, <2>1, <2>2, <2>3, <2>4 DEF Faults
<1>4. CASE Work
  <2>1. CASE EditSave
    BY <2>1, RequestType DEF EditSave, queues, Answerable
  <2>2. ASSUME NEW d \in Deleters, DestroyNext(d) PROVE TypeOK' /\ Addressed' /\ Answerable'
    <3>1. UNCHANGED <<initiator, userAsked>>
      BY <2>2 DEF DestroyNext, DestroyCheck, DestroySoft, DestroySaga, DestroyStep, DestroyPublish,
                  DestroyRestore, DestroyFail, queues
    <3> QED BY <2>2, <3>1, DestroyType DEF Answerable
  <2>3. CASE InitiatorNext
    <3>1. Answerable'
      BY <2>3 DEF Answerable, InitiatorNext, InitiatorList, InitiatorPublish, InitiatorCommit,
                  InitiatorConfirm, InitiatorCheck, BackToList, RestInit, queues
    <3> QED BY <2>3, <3>1, InitiatorType
  <2>4. CASE AccountCommit
    BY <2>4, RequestType DEF AccountCommit, ms2, queues, Answerable
  <2>5. ASSUME NEW s \in ProjectServices, NEW p \in Projects, Cleanup(s, p) \/ Finalize(s, p)
        PROVE  TypeOK' /\ Addressed' /\ Answerable'
    <3>1. UNCHANGED <<initiator, userAsked, destroyer>>
      BY <2>5 DEF Cleanup, Finalize, ms2
    <3> QED BY <2>5, <3>1, CleanupType, FinalizeType DEF Answerable, Addressed
  <2>6. ASSUME NEW s \in ResourceServices, UserCleanup(s) PROVE TypeOK' /\ Addressed' /\ Answerable'
    <3>1. UNCHANGED <<initiator, destroyer>> /\ userAsked'["ProjectService"] = userAsked["ProjectService"]
      BY <2>6, SagaAssumption DEF UserCleanup, ms2, ResourceServices, TypeOK, QueuesOK
    <3> QED BY <2>6, <3>1, UserCleanupType DEF Answerable, Addressed
  <2>7. ASSUME NEW s \in UserServices, UserFinalize(s) PROVE TypeOK' /\ Addressed' /\ Answerable'
    BY <2>7, UserFinalizeType DEF UserFinalize, ms2, Answerable, Addressed
  <2> QED BY <1>4, <2>1, <2>2, <2>3, <2>4, <2>5, <2>6, <2>7 DEF Work
<1> QED BY <1>1, <1>2, <1>3, <1>4 DEF Next

\* Every row, saga, request, message and record of the past is of its type, and the initiator
\* never acknowledges an event it was not given.
THEOREM SagaTypeCorrect == Spec => []TypeOK
<1>1. Init => TypeOK /\ Addressed /\ Answerable
  BY InitType
<1>2. TypeOK /\ Addressed /\ Answerable /\ [Next]_vars => (TypeOK /\ Addressed /\ Answerable)'
  BY TypeStep
<1> QED BY <1>1, <1>2, PTL DEF Spec

-----------------------------------------------------------------------------
(* Proofs of what the deletion of a project promises: no second saga for   *)
(* it unless two initiations overlap, and no row that goes before the      *)
(* services the saga waits for have cleaned up.                            *)

TypeInv == TypeOK /\ Addressed /\ Answerable

-----------------------------------------------------------------------------
(* One saga at a time.                                                     *)

\* An initiation that has looked for a saga and not written its own yet.
DestroyerOn(d, p) == destroyer[d].step \in {"checked", "soft"} /\ destroyer[d].project = p
InitiatorOn(p) == initiator.step \in {"checked", "published"} /\ initiator.project = p

\* As long as no two initiations of a project overlap, one that is under way is the only
\* one, and has no saga beside it.
OneAtATime(p) ==
    /\ \A i, j \in InProgress(p) : i = j
    /\ \A d \in Deleters : DestroyerOn(d, p) =>
        /\ InProgress(p) = {} /\ ~InitiatorOn(p)
        /\ \A e \in Deleters : DestroyerOn(e, p) => e = d
    /\ InitiatorOn(p) => InProgress(p) = {}

OneInv == \A p \in Projects : p \notin overlapped => OneAtATime(p)

\* Most steps end initiations and sagas, and start none.
RecedesAt(p) ==
    /\ InProgress(p)' \subseteq InProgress(p)
    /\ \A d \in Deleters : DestroyerOn(d, p)' => DestroyerOn(d, p)
    /\ InitiatorOn(p)' => InitiatorOn(p)

Recedes == overlapped \subseteq overlapped' /\ \A p \in Projects : RecedesAt(p)

LEMMA RecedesKeepsAt == ASSUME NEW p, OneAtATime(p), RecedesAt(p) PROVE OneAtATime(p)'
<1> DEFINE I == InProgress(p)
           On(d) == DestroyerOn(d, p)
           At == InitiatorOn(p)
<1>1. /\ I' \subseteq I
      /\ \A d \in Deleters : On(d)' => On(d)
      /\ At' => At
  BY DEF RecedesAt
<1>2. /\ \A i, j \in I : i = j
      /\ \A d \in Deleters : On(d) => I = {} /\ ~At /\ \A e \in Deleters : On(e) => e = d
      /\ At => I = {}
  BY DEF OneAtATime
<1> HIDE DEF I, On, At
<1>3. /\ \A i, j \in I' : i = j
      /\ \A d \in Deleters : On(d)' => I' = {} /\ ~At' /\ \A e \in Deleters : On(e)' => e = d
      /\ At' => I' = {}
  BY <1>1, <1>2
<1> QED BY <1>3 DEF OneAtATime, I, On, At

LEMMA RecedesKeeps == ASSUME OneInv, Recedes PROVE OneInv'
<1> SUFFICES ASSUME NEW p \in Projects, p \notin overlapped' PROVE OneAtATime(p)'
  BY DEF OneInv
<1> QED BY RecedesKeepsAt DEF OneInv, Recedes

LEMMA SameSagas == ASSUME UNCHANGED sagas, NEW p PROVE InProgress(p)' = InProgress(p)
  BY DEF InProgress

LEMMA OneInit == Init => OneInv
  BY DEF Init, OneInv, OneAtATime, InProgress, DestroyerOn, InitiatorOn, NewSaga, Rest, RestInit

\* A saga that is over, or whose steps change, is not one more.
LEMMA FewerSagas ==
    ASSUME TypeOK, NEW i, NEW x, sagas' = [sagas EXCEPT ![i] = x],
           i \in SagaIds => /\ x.status = sagas[i].status \/ x.status # "in_progress"
                            /\ x.project = sagas[i].project
    PROVE  \A p \in Projects : InProgress(p)' \subseteq InProgress(p)
  BY DEF InProgress, TypeOK, Ms2OK

LEMMA OneDestroy ==
    ASSUME TypeInv, OneInv, NEW d \in Deleters, DestroyNext(d) \/ DestroyCrash(d)
    PROVE  OneInv'
<1> USE DEF TypeInv
<1>0. /\ destroyer \in [Deleters -> Destroyer] /\ destroyer[d] \in Destroyer
      /\ sagas \in [SagaIds -> Saga]
      /\ destroyer[d].step # "idle" => destroyer[d].project \in Projects
  BY DEF TypeOK, Ms2OK, Addressed
<1>1. CASE DestroyCheck(d)
  <2> DEFINE q == destroyer[d].project
  <2>1. CASE InProgress(q) # {}
    <3>1. Recedes
      BY <1>0, <1>1, <2>1, SameSagas
      DEF DestroyCheck, Recedes, RecedesAt, DestroyerOn, InitiatorOn, Destroyer, Rest
    <3> QED BY <3>1, RecedesKeeps
  <2>2. CASE InProgress(q) = {}
    <3>1. /\ destroyer' = [destroyer EXCEPT ![d].step = "checked"]
          /\ overlapped' = IF Overlap(q) THEN overlapped \cup {q} ELSE overlapped
          /\ UNCHANGED <<sagas, initiator>>
      BY <1>1, <2>2 DEF DestroyCheck
    <3> SUFFICES ASSUME NEW p \in Projects, p \notin overlapped' PROVE OneAtATime(p)'
      BY DEF OneInv
    <3>2. OneAtATime(p) /\ InProgress(p)' = InProgress(p)
      BY <3>1, SameSagas DEF OneInv
    <3>3. CASE p # q
      <4>1. RecedesAt(p)
        BY <1>0, <3>1, <3>2, <3>3 DEF RecedesAt, DestroyerOn, InitiatorOn, Destroyer
      <4> QED BY <3>2, <4>1, RecedesKeepsAt
    <3>4. CASE p = q
      <4>1. ~Overlap(p)
        BY <3>1, <3>4
      <4>2. ~InitiatorOn(p)' /\ \A e \in Deleters : DestroyerOn(e, p)' => e = d
        BY <1>0, <3>1, <4>1 DEF Overlap, UnderWay, DestroyerOn, InitiatorOn
      <4>3. InProgress(p)' = {}
        BY <2>2, <3>2, <3>4
      <4> QED BY <4>2, <4>3 DEF OneAtATime
    <3> QED BY <3>3, <3>4
  <2> QED BY <2>1, <2>2
<1>2. CASE DestroySoft(d)
  <2>1. Recedes
    BY <1>0, <1>2, SameSagas DEF DestroySoft, Recedes, RecedesAt, DestroyerOn, InitiatorOn, Destroyer, history
  <2> QED BY <2>1, RecedesKeeps
<1>3. CASE DestroySaga(d)
  <2> DEFINE q == destroyer[d].project
  <2>1. PICK i \in SagaIds :
          /\ sagas' = [sagas EXCEPT ![i] = [NewSaga EXCEPT !.status = "in_progress", !.project = q,
                                                           !.awaits = ProjectServices]]
          /\ destroyer' = [destroyer EXCEPT ![d].step = "saga", ![d].saga = i]
          /\ destroyer[d].step = "soft"
          /\ UNCHANGED <<initiator, overlapped>>
    BY <1>3 DEF DestroySaga, history
  <2> SUFFICES ASSUME NEW p \in Projects, p \notin overlapped PROVE OneAtATime(p)'
    BY <2>1 DEF OneInv
  <2>2. OneAtATime(p)
    BY DEF OneInv
  <2>3. InProgress(p)' \subseteq InProgress(p) \cup (IF p = q THEN {i} ELSE {})
    BY <1>0, <2>1 DEF InProgress, NewSaga
  <2>4. /\ \A e \in Deleters : DestroyerOn(e, p)' => DestroyerOn(e, p) /\ e # d
        /\ InitiatorOn(p)' = InitiatorOn(p)
    BY <1>0, <2>1 DEF DestroyerOn, InitiatorOn, Destroyer
  <2>5. CASE p # q
    BY <2>2, <2>3, <2>4, <2>5, RecedesKeepsAt DEF RecedesAt
  <2>6. CASE p = q
    <3>1. DestroyerOn(d, p)
      BY <2>1, <2>6 DEF DestroyerOn
    <3>2. InProgress(p) = {} /\ ~InitiatorOn(p) /\ \A e \in Deleters : DestroyerOn(e, p) => e = d
      BY <2>2, <3>1 DEF OneAtATime
    <3>3. /\ \A j, k \in InProgress(p)' : j = k
          /\ ~InitiatorOn(p)' /\ \A e \in Deleters : ~DestroyerOn(e, p)'
      BY <2>3, <2>4, <2>6, <3>2
    <3> QED BY <3>3 DEF OneAtATime
  <2> QED BY <2>5, <2>6
<1>4. CASE DestroyStep(d)
  <2> DEFINE i == destroyer[d].saga
             next == ServiceOrder[destroyer[d].written + 1]
             x == [sagas[i] EXCEPT !.steps = [sagas[i].steps EXCEPT ![next] = "pending"]]
  <2>1. sagas' = [sagas EXCEPT ![i] = x] \/ sagas' = sagas
    BY <1>4 DEF DestroyStep
  <2>2. i \in SagaIds => x.status = sagas[i].status /\ x.project = sagas[i].project
    BY <1>0 DEF Saga
  <2> HIDE DEF x, i
  <2>3. \A p \in Projects : InProgress(p)' \subseteq InProgress(p)
    BY <2>1, <2>2, FewerSagas, SameSagas
  <2>4. Recedes
    BY <1>0, <1>4, <2>3 DEF DestroyStep, Recedes, RecedesAt, DestroyerOn, InitiatorOn, Destroyer, Rest, history
  <2> QED BY <2>4, RecedesKeeps
<1>5. CASE DestroyPublish(d)
  <2>1. Recedes
    BY <1>0, <1>5, SameSagas DEF DestroyPublish, Recedes, RecedesAt, DestroyerOn, InitiatorOn, Destroyer, Rest, history
  <2> QED BY <2>1, RecedesKeeps
<1>6. CASE DestroyRestore(d)
  <2>1. Recedes
    BY <1>0, <1>6, SameSagas DEF DestroyRestore, Recedes, RecedesAt, DestroyerOn, InitiatorOn, Destroyer, history
  <2> QED BY <2>1, RecedesKeeps
<1>7. CASE DestroyFail(d)
  <2> DEFINE i == destroyer[d].saga
             x == [sagas[i] EXCEPT !.status = "failed"]
  <2>1. sagas' = [sagas EXCEPT ![i] = x]
    BY <1>7 DEF DestroyFail
  <2>2. i \in SagaIds => x.status # "in_progress" /\ x.project = sagas[i].project
    BY <1>0 DEF Saga
  <2> HIDE DEF x, i
  <2>3. \A p \in Projects : InProgress(p)' \subseteq InProgress(p)
    BY <2>1, <2>2, FewerSagas
  <2>4. Recedes
    BY <1>0, <1>7, <2>3 DEF DestroyFail, Recedes, RecedesAt, DestroyerOn, InitiatorOn, Destroyer, Rest, history
  <2> QED BY <2>4, RecedesKeeps
<1>8. CASE DestroyCrash(d)
  <2>1. Recedes
    BY <1>0, <1>8, SameSagas DEF DestroyCrash, Recedes, RecedesAt, DestroyerOn, InitiatorOn, Destroyer, Rest, history
  <2> QED BY <2>1, RecedesKeeps
<1> QED BY <1>1, <1>2, <1>3, <1>4, <1>5, <1>6, <1>7, <1>8 DEF DestroyNext

LEMMA OneFinalize ==
    ASSUME TypeInv, OneInv, NEW s \in ProjectServices, NEW p \in Projects, Finalize(s, p)
    PROVE  OneInv'
<1>1. sagas \in [SagaIds -> Saga]
  BY DEF TypeInv, TypeOK, Ms2OK
<1>2. ASSUME NEW i \in SagaIds, sagas' = [sagas EXCEPT ![i].steps = Ticked(i, s)]
      PROVE  \A q \in Projects : InProgress(q)' \subseteq InProgress(q)
  <2> DEFINE x == [sagas[i] EXCEPT !.steps = Ticked(i, s)]
  <2>1. sagas' = [sagas EXCEPT ![i] = x]
    BY <1>2
  <2>2. x.status = sagas[i].status /\ x.project = sagas[i].project
    BY <1>1 DEF Saga
  <2> HIDE DEF x
  <2> QED BY <2>1, <2>2, FewerSagas DEF TypeInv
<1>3. ASSUME NEW i \in SagaIds,
             sagas' = [sagas EXCEPT ![i].steps = Ticked(i, s), ![i].status = "completed"]
      PROVE  \A q \in Projects : InProgress(q)' \subseteq InProgress(q)
  <2> DEFINE x == [sagas[i] EXCEPT !.steps = Ticked(i, s), !.status = "completed"]
  <2>1. sagas' = [sagas EXCEPT ![i] = x]
    BY <1>1, <1>3
  <2>2. x.status # "in_progress" /\ x.project = sagas[i].project
    BY <1>1 DEF Saga
  <2> HIDE DEF x
  <2> QED BY <2>1, <2>2, FewerSagas DEF TypeInv
<1>4. \A q \in Projects : InProgress(q)' \subseteq InProgress(q)
  <2>1. \/ UNCHANGED sagas
        \/ \E i \in SagaIds :
              \/ sagas' = [sagas EXCEPT ![i].steps = Ticked(i, s)]
              \/ sagas' = [sagas EXCEPT ![i].steps = Ticked(i, s), ![i].status = "completed"]
    BY DEF Finalize, InProgress
  <2> QED BY <1>2, <1>3, <2>1, SameSagas
<1>5. Recedes
  BY <1>4 DEF Finalize, Recedes, RecedesAt, DestroyerOn, InitiatorOn
<1> QED BY <1>5, RecedesKeeps

LEMMA OneInitiator ==
    ASSUME TypeInv, OneInv, InitiatorNext \/ InitiatorCrash
    PROVE  OneInv'
<1>0. sagas \in [SagaIds -> Saga] /\ initiator \in Initiator
  BY DEF TypeInv, TypeOK, Ms2OK
<1>1. CASE InitiatorList \/ InitiatorPublish \/ InitiatorConfirm \/ InitiatorCrash
  <2>1. UNCHANGED <<sagas, destroyer, overlapped>>
    BY <1>1 DEF InitiatorList, InitiatorPublish, InitiatorConfirm, InitiatorCrash, history
  <2>2. \/ initiator'.step \in {"idle", "listed"}
        \/ initiator.step = "checked" /\ initiator'.project = initiator.project
    <3>1. CASE InitiatorList
      BY <3>1 DEF InitiatorList, RestInit
    <3>2. CASE InitiatorPublish
      <4>1. initiator.step = "checked"
        BY <3>2 DEF InitiatorPublish
      <4>2. \/ initiator' = [initiator EXCEPT !.step = "listed", !.project = NoProject]
            \/ initiator' = [initiator EXCEPT !.step = "published"]
        BY <3>2 DEF InitiatorPublish, BackToList
      <4> QED BY <1>0, <4>1, <4>2 DEF Initiator
    <3>3. CASE InitiatorConfirm \/ InitiatorCrash
      BY <3>3 DEF InitiatorConfirm, InitiatorCrash, RestInit
    <3> QED BY <1>1, <3>1, <3>2, <3>3
  <2>3. Recedes
    BY <2>1, <2>2, SameSagas DEF Recedes, RecedesAt, DestroyerOn, InitiatorOn
  <2> QED BY <2>3, RecedesKeeps
<1>2. ASSUME NEW q \in Projects, InitiatorCheck(q) PROVE OneInv'
  <2>0. UNCHANGED <<sagas, destroyer>> /\ initiator.step = "listed"
    BY <1>2 DEF InitiatorCheck
  <2>1. CASE InProgress(q) # {}
    <3>1. Recedes
      BY <1>0, <1>2, <2>1, SameSagas
      DEF InitiatorCheck, Recedes, RecedesAt, DestroyerOn, InitiatorOn, Initiator
    <3> QED BY <3>1, RecedesKeeps
  <2>2. CASE InProgress(q) = {}
    <3>1. /\ initiator' = [step |-> "checked", project |-> q, todo |-> initiator.todo \ {q}]
          /\ overlapped' = IF Overlap(q) THEN overlapped \cup {q} ELSE overlapped
      BY <1>2, <2>2 DEF InitiatorCheck
    <3> SUFFICES ASSUME NEW p \in Projects, p \notin overlapped' PROVE OneAtATime(p)'
      BY DEF OneInv
    <3>2. OneAtATime(p) /\ InProgress(p)' = InProgress(p)
      BY <2>0, <3>1, SameSagas DEF OneInv
    <3>3. CASE p # q
      <4>1. RecedesAt(p)
        BY <2>0, <3>1, <3>2, <3>3 DEF RecedesAt, DestroyerOn, InitiatorOn
      <4> QED BY <3>2, <4>1, RecedesKeepsAt
    <3>4. CASE p = q
      <4>1. \A e \in Deleters : ~DestroyerOn(e, p)'
        BY <2>0, <3>1, <3>4 DEF Overlap, UnderWay, DestroyerOn
      <4> QED BY <2>2, <3>2, <3>4, <4>1 DEF OneAtATime
    <3> QED BY <3>3, <3>4
  <2> QED BY <2>1, <2>2
<1>3. CASE InitiatorCommit
  <2> DEFINE q == initiator.project
  <2>1. PICK i \in SagaIds :
          /\ sagas' = [sagas EXCEPT ![i] =
               [status |-> "in_progress", project |-> q, awaits |-> UserWaitsFor,
                steps |-> [s \in ProjectServices |-> IF s \in UserWaitsFor THEN "pending" ELSE "none"]]]
          /\ initiator.step = "published" /\ initiator'.step = "listed"
          /\ UNCHANGED <<destroyer, overlapped>>
    BY <1>0, <1>3 DEF InitiatorCommit, BackToList, history, Initiator
  <2> SUFFICES ASSUME NEW p \in Projects, p \notin overlapped PROVE OneAtATime(p)'
    BY <2>1 DEF OneInv
  <2>2. OneAtATime(p)
    BY DEF OneInv
  <2>3. InProgress(p)' \subseteq InProgress(p) \cup (IF p = q THEN {i} ELSE {})
    BY <1>0, <2>1 DEF InProgress
  <2>4. ~InitiatorOn(p)' /\ \A d \in Deleters : DestroyerOn(d, p)' = DestroyerOn(d, p)
    BY <2>1 DEF InitiatorOn, DestroyerOn
  <2>5. CASE p # q
    BY <2>2, <2>3, <2>4, <2>5, RecedesKeepsAt DEF RecedesAt
  <2>6. CASE p = q
    <3>1. InitiatorOn(p)
      BY <2>1, <2>6 DEF InitiatorOn
    <3>2. InProgress(p) = {} /\ \A d \in Deleters : ~DestroyerOn(d, p)
      BY <2>2, <3>1 DEF OneAtATime
    <3> QED BY <2>3, <2>4, <2>6, <3>2 DEF OneAtATime
  <2> QED BY <2>5, <2>6
<1> QED BY <1>1, <1>2, <1>3 DEF InitiatorNext

\* No other step touches the initiations, the sagas or their overlaps.
LEMMA OneRest ==
    ASSUME TypeInv, OneInv,
           \/ UserRequests \/ AccountCommit \/ AccountCrash \/ EditSave \/ UNCHANGED vars
           \/ \E s \in ProjectServices, p \in Projects : Cleanup(s, p) \/ Republish(s, p)
           \/ \E s \in ResourceServices : UserCleanup(s)
           \/ \E s \in UserServices : UserFinalize(s)
    PROVE  OneInv'
<1>1. UNCHANGED <<sagas, initiator, overlapped>>
  BY DEF UserRequests, CreateProject, EditLoad, DestroyLoad, AccountPublish, AccountCommit, AccountCrash,
         EditSave, Cleanup, Republish, UserCleanup, UserFinalize, vars, ms2, history
<1>2. CASE UNCHANGED destroyer
  <2>1. Recedes
    BY <1>1, <1>2, SameSagas DEF Recedes, RecedesAt, DestroyerOn, InitiatorOn
  <2> QED BY <2>1, RecedesKeeps
<1>3. ASSUME NEW d \in Deleters, NEW p \in Projects, DestroyLoad(d, p) PROVE OneInv'
  <2>1. destroyer \in [Deleters -> Destroyer]
    BY DEF TypeInv, TypeOK, Ms2OK
  <2>2. Recedes
    BY <1>1, <1>3, <2>1, SameSagas DEF DestroyLoad, Recedes, RecedesAt, DestroyerOn, InitiatorOn, Rest
  <2> QED BY <2>2, RecedesKeeps
<1> QED BY <1>2, <1>3
    DEF UserRequests, CreateProject, EditLoad, AccountPublish, AccountCommit, AccountCrash,
        EditSave, Cleanup, Republish, UserCleanup, UserFinalize, vars, ms2

LEMMA OneStep == ASSUME TypeInv, OneInv, [Next]_vars PROVE OneInv'
  BY OneDestroy, OneFinalize, OneInitiator, OneRest DEF Next, Faults, Work

\* Two sagas never run for one project, unless two initiations overlapped: the check for a
\* saga in progress, which no transaction and no lock ties to the saga written after it.
THEOREM OneSagaAlways == Spec => []OneSaga
<1>1. Init => TypeInv /\ OneInv
  BY InitType, OneInit DEF TypeInv
<1>2. TypeInv /\ OneInv /\ [Next]_vars => (TypeInv /\ OneInv)'
  BY TypeStep, OneStep DEF TypeInv
<1>3. OneInv => OneSaga
  BY DEF OneInv, OneAtATime, OneSaga
<1> QED BY <1>1, <1>2, <1>3, PTL DEF Spec

-----------------------------------------------------------------------------
(* What is gone has been cleaned up.                                       *)

\* A confirmation is only ever sent by a service that has cleaned up.
ConfirmedTrue ==
    \A s \in ProjectServices, p \in Projects : confirmed[s][p] > 0 => s \in cleaned[p]

\* So is a step that is ticked off, and a saga ends when all it waits for are.
SagaTrue(i) ==
    /\ \A s \in ProjectServices : sagas[i].steps[s] = "completed" =>
           sagas[i].project \in Projects /\ s \in cleaned[sagas[i].project]
    /\ sagas[i].status = "completed" =>
           \/ sagas[i].project \in mixed
           \/ \A s \in sagas[i].awaits : sagas[i].steps[s] = "completed"

CleanInv == ConfirmedTrue /\ \A i \in SagaIds : SagaTrue(i)

Grows == mixed \subseteq mixed' /\ \A p \in Projects : cleaned[p] \subseteq cleaned'[p]

LEMMA CleanInit == Init => CleanInv
  BY DEF Init, CleanInv, ConfirmedTrue, SagaTrue, NewSaga, NewSteps

\* A saga that is not ticked off, and not ended, stays true.
LEMMA SagaTrueKept ==
    ASSUME NEW i, SagaTrue(i), Grows, NEW y, y = sagas'[i],
           y.project = sagas[i].project, y.awaits = sagas[i].awaits,
           \A s \in ProjectServices : (y.steps[s] = "completed") = (sagas[i].steps[s] = "completed"),
           sagas[i].awaits \subseteq ProjectServices,
           y.status = "completed" => sagas[i].status = "completed"
    PROVE  SagaTrue(i)'
  BY DEF SagaTrue, Grows

LEMMA SameSagasTrue ==
    ASSUME CleanInv, TypeOK, Grows, UNCHANGED sagas
    PROVE  \A i \in SagaIds : SagaTrue(i)'
<1> SUFFICES ASSUME NEW i \in SagaIds PROVE SagaTrue(i)'
  OBVIOUS
<1>1. sagas[i].awaits \subseteq ProjectServices
  BY DEF TypeOK, Ms2OK, Saga
<1> QED BY <1>1, SagaTrueKept DEF CleanInv

LEMMA CleanDestroy ==
    ASSUME TypeInv, CleanInv, NEW d \in Deleters, DestroyNext(d) \/ DestroyCrash(d)
    PROVE  CleanInv'
<1>0. /\ sagas \in [SagaIds -> Saga]
      /\ TypeOK
  BY DEF TypeInv, TypeOK, Ms2OK
<1>1. Grows /\ ConfirmedTrue'
  BY DEF CleanInv, ConfirmedTrue, Grows, DestroyNext, DestroyCheck, DestroySoft, DestroySaga, DestroyStep,
         DestroyPublish, DestroyRestore, DestroyFail, DestroyCrash, queues, history
<1>2. CASE UNCHANGED sagas
  BY <1>0, <1>1, <1>2, SameSagasTrue DEF CleanInv
<1>3. CASE DestroySaga(d)
  <2>1. PICK i \in SagaIds :
          sagas' = [sagas EXCEPT ![i] = [NewSaga EXCEPT !.status = "in_progress",
                                                       !.project = destroyer[d].project,
                                                       !.awaits = ProjectServices]]
    BY <1>3 DEF DestroySaga
  <2> SUFFICES ASSUME NEW j \in SagaIds PROVE SagaTrue(j)'
    BY <1>1 DEF CleanInv
  <2>2. CASE j # i
    <3>1. sagas'[j] = sagas[j] /\ sagas[j].awaits \subseteq ProjectServices
      BY <1>0, <2>1, <2>2 DEF Saga
    <3> QED BY <1>1, <3>1, SagaTrueKept DEF CleanInv
  <2>3. CASE j = i
    <3>1. sagas'[j].steps = NewSteps /\ sagas'[j].status = "in_progress"
      BY <1>0, <2>1, <2>3 DEF NewSaga
    <3> QED BY <3>1 DEF SagaTrue, NewSteps
  <2> QED BY <2>2, <2>3
<1>4. CASE DestroyStep(d)
  <2> DEFINE i == destroyer[d].saga
             next == ServiceOrder[destroyer[d].written + 1]
             x == [sagas[i] EXCEPT !.steps = [sagas[i].steps EXCEPT ![next] = "pending"]]
  <2>1. \/ sagas' = [sagas EXCEPT ![i] = x] /\ sagas[i].steps[next] = "none"
        \/ UNCHANGED sagas
    BY <1>4 DEF DestroyStep
  <2> SUFFICES ASSUME sagas' = [sagas EXCEPT ![i] = x], sagas[i].steps[next] = "none",
                      NEW j \in SagaIds
               PROVE  SagaTrue(j)'
    BY <1>1, <1>2, <2>1 DEF CleanInv
  <2>2. sagas[j] \in Saga /\ sagas[j].awaits \subseteq ProjectServices
    BY <1>0 DEF Saga
  <2>3. CASE j # i
    <3>1. sagas'[j] = sagas[j]
      BY <1>0, <2>3
    <3> QED BY <1>1, <2>2, <3>1, SagaTrueKept DEF CleanInv
  <2>4. CASE j = i
    <3>1. /\ x.project = sagas[j].project /\ x.awaits = sagas[j].awaits /\ x.status = sagas[j].status
          /\ x.steps = [sagas[j].steps EXCEPT ![next] = "pending"]
      BY <2>2, <2>4 DEF Saga
    <3>2. \A s \in ProjectServices : (x.steps[s] = "completed") = (sagas[j].steps[s] = "completed")
      BY <2>2, <2>4, <3>1 DEF Saga
    <3>3. sagas'[j] = x
      BY <1>0, <2>4
    <3> HIDE DEF x, i
    <3> QED BY <1>1, <2>2, <3>1, <3>2, <3>3, SagaTrueKept DEF CleanInv
  <2> QED BY <2>3, <2>4
<1>5. CASE DestroyFail(d)
  <2> DEFINE i == destroyer[d].saga
             x == [sagas[i] EXCEPT !.status = "failed"]
  <2>1. sagas' = [sagas EXCEPT ![i] = x]
    BY <1>5 DEF DestroyFail
  <2> SUFFICES ASSUME NEW j \in SagaIds PROVE SagaTrue(j)'
    BY <1>1 DEF CleanInv
  <2>2. sagas[j] \in Saga /\ sagas[j].awaits \subseteq ProjectServices
    BY <1>0 DEF Saga
  <2>3. sagas'[j] = sagas[j] \/ sagas'[j] = [sagas[j] EXCEPT !.status = "failed"]
    BY <1>0, <2>1
  <2> HIDE DEF x, i
  <2>4. /\ sagas'[j].project = sagas[j].project /\ sagas'[j].awaits = sagas[j].awaits
        /\ sagas'[j].steps = sagas[j].steps
        /\ sagas'[j].status = "completed" => sagas[j].status = "completed"
    BY <2>2, <2>3 DEF Saga
  <2> QED BY <1>1, <2>2, <2>4, SagaTrueKept DEF CleanInv
<1>6. UNCHANGED sagas \/ DestroySaga(d) \/ DestroyStep(d) \/ DestroyFail(d)
  BY DEF DestroyNext, DestroyCheck, DestroySoft, DestroyPublish, DestroyRestore, DestroyCrash
<1> QED BY <1>2, <1>3, <1>4, <1>5, <1>6

\* The finalizer ticks off what a confirmation says, and ends the saga when no step is pending:
\* if all the steps were written, none is left undone.
LEMMA CleanFinalize ==
    ASSUME TypeInv, CleanInv, NEW s \in ProjectServices, NEW p \in Projects, Finalize(s, p)
    PROVE  CleanInv'
<1>0. /\ sagas \in [SagaIds -> Saga] /\ TypeOK
      /\ confirmed \in [ProjectServices -> [Projects -> Nat]]
      /\ mixed \subseteq Projects
  BY DEF TypeInv, TypeOK, Ms2OK, QueuesOK, HistoryOK
<1>1. UNCHANGED cleaned /\ mixed \subseteq mixed' /\ Grows
  BY DEF Finalize, Grows
<1>2. ConfirmedTrue'
  <2>1. confirmed' = [confirmed EXCEPT ![s][p] = @ - 1] \/ confirmed' = confirmed
    BY DEF Finalize
  <2>2. confirmed[s][p] > 0
    BY DEF Finalize
  <2> QED BY <1>0, <1>1, <2>1, <2>2 DEF ConfirmedTrue, CleanInv
<1>3. s \in cleaned[p]
  BY DEF CleanInv, ConfirmedTrue, Finalize
<1>4. CASE UNCHANGED sagas
  BY <1>0, <1>1, <1>2, <1>4, SameSagasTrue DEF CleanInv
<1>5. ASSUME NEW i \in InProgress(p),
             mixed' = IF AllWritten(i) THEN mixed ELSE mixed \cup {p},
             \/ /\ Outstanding(Ticked(i, s))
                /\ sagas' = [sagas EXCEPT ![i].steps = Ticked(i, s)]
             \/ /\ ~Outstanding(Ticked(i, s))
                /\ sagas' = [sagas EXCEPT ![i].steps = Ticked(i, s), ![i].status = "completed"]
      PROVE  CleanInv'
  <2> SUFFICES ASSUME NEW j \in SagaIds PROVE SagaTrue(j)'
    BY <1>2 DEF CleanInv
  <2>1. sagas[j] \in Saga /\ sagas[j].awaits \subseteq ProjectServices
    BY <1>0 DEF Saga
  <2>2. CASE j # i
    <3>1. sagas'[j] = sagas[j]
      BY <1>0, <1>5, <2>2
    <3> QED BY <1>1, <2>1, <3>1, SagaTrueKept DEF CleanInv
  <2>3. CASE j = i
    <3> DEFINE ticked == Ticked(i, s)
    <3>1. /\ sagas[j].status = "in_progress" /\ sagas[j].project = p
          /\ ticked \in [ProjectServices -> StepStatus]
          /\ ticked = [sagas[j].steps EXCEPT ![s] = "completed"]
      BY <2>1, <2>3 DEF InProgress, Saga, Ticked, StepStatus
    <3>2. /\ sagas'[j].project = p /\ sagas'[j].awaits = sagas[j].awaits /\ sagas'[j].steps = ticked
          /\ sagas'[j].status = "completed" => ~Outstanding(ticked)
      <4>1. CASE /\ Outstanding(ticked)
                 /\ sagas' = [sagas EXCEPT ![i].steps = ticked]
        <5>1. sagas'[j] = [sagas[j] EXCEPT !.steps = ticked]
          BY <1>0, <2>3, <4>1
        <5> HIDE DEF ticked
        <5> QED BY <2>1, <3>1, <5>1 DEF Saga
      <4>2. CASE /\ ~Outstanding(ticked)
                 /\ sagas' = [sagas EXCEPT ![i].steps = ticked, ![i].status = "completed"]
        <5>1. sagas'[j] = [sagas[j] EXCEPT !.steps = ticked, !.status = "completed"]
          BY <1>0, <2>3, <4>2
        <5>2. ~Outstanding(ticked)
          BY <4>2
        <5> HIDE DEF ticked
        <5>3. /\ sagas'[j].project = p /\ sagas'[j].awaits = sagas[j].awaits
              /\ sagas'[j].steps = ticked
          BY <2>1, <3>1, <5>1 DEF Saga
        <5> QED BY <5>2, <5>3
      <4> QED BY <1>5, <4>1, <4>2
    <3>3. \A t \in ProjectServices : ticked[t] = "completed" => t \in cleaned'[p]
      <4> SUFFICES ASSUME NEW t \in ProjectServices, t # s, ticked[t] = "completed"
                   PROVE  t \in cleaned[p]
        BY <1>1, <1>3
      <4>1. sagas[j].steps[t] = "completed"
        BY <2>1, <3>1 DEF Saga
      <4> QED BY <3>1, <4>1 DEF CleanInv, SagaTrue
    <3>4. CASE AllWritten(i)
      <4>1. ASSUME ~Outstanding(ticked), NEW t \in sagas[j].awaits PROVE ticked[t] = "completed"
        <5>1. t \in ProjectServices /\ ticked[t] \in {"none", "pending", "completed"}
          BY <2>1, <3>1 DEF StepStatus
        <5>2. ticked[t] # "none"
          BY <2>1, <2>3, <3>1, <3>4, <5>1 DEF AllWritten, Saga
        <5>3. ticked[t] # "pending"
          BY <3>1, <4>1, <5>1 DEF Outstanding
        <5> QED BY <5>1, <5>2, <5>3
      <4> HIDE DEF ticked
      <4> QED BY <3>2, <3>3, <4>1 DEF SagaTrue
    <3>5. CASE ~AllWritten(i)
      <4>1. p \in mixed'
        BY <1>5, <3>5
      <4> HIDE DEF ticked
      <4> QED BY <3>2, <3>3, <4>1 DEF SagaTrue
    <3> QED BY <3>4, <3>5
  <2> QED BY <2>2, <2>3
<1> QED BY <1>4, <1>5 DEF Finalize

LEMMA CleanInitiator ==
    ASSUME TypeInv, CleanInv, InitiatorNext \/ InitiatorCrash
    PROVE  CleanInv'
<1>0. sagas \in [SagaIds -> Saga] /\ TypeOK
  BY DEF TypeInv, TypeOK, Ms2OK
<1>1. Grows /\ ConfirmedTrue'
  BY DEF CleanInv, ConfirmedTrue, Grows, InitiatorNext, InitiatorList, InitiatorCheck, InitiatorPublish,
         InitiatorCommit, InitiatorConfirm, InitiatorCrash, queues, history
<1>2. CASE UNCHANGED sagas
  BY <1>0, <1>1, <1>2, SameSagasTrue DEF CleanInv
<1>3. CASE InitiatorCommit
  <2> DEFINE new == [s \in ProjectServices |-> IF s \in UserWaitsFor THEN "pending" ELSE "none"]
  <2>1. PICK i \in SagaIds :
          sagas' = [sagas EXCEPT ![i] = [status |-> "in_progress", project |-> initiator.project,
                                         awaits |-> UserWaitsFor, steps |-> new]]
    BY <1>3 DEF InitiatorCommit
  <2> SUFFICES ASSUME NEW j \in SagaIds PROVE SagaTrue(j)'
    BY <1>1 DEF CleanInv
  <2>2. CASE j # i
    <3>1. sagas'[j] = sagas[j] /\ sagas[j].awaits \subseteq ProjectServices
      BY <1>0, <2>1, <2>2 DEF Saga
    <3> QED BY <1>1, <3>1, SagaTrueKept DEF CleanInv
  <2>3. CASE j = i
    <3>1. sagas'[j].steps = new /\ sagas'[j].status = "in_progress"
      BY <1>0, <2>1, <2>3
    <3>2. \A s \in ProjectServices : new[s] # "completed"
      OBVIOUS
    <3> HIDE DEF new
    <3> QED BY <3>1, <3>2 DEF SagaTrue
  <2> QED BY <2>2, <2>3
<1>4. UNCHANGED sagas \/ InitiatorCommit
  BY DEF InitiatorNext, InitiatorList, InitiatorCheck, InitiatorPublish, InitiatorConfirm, InitiatorCrash
<1> QED BY <1>2, <1>3, <1>4

LEMMA CleanRest ==
    ASSUME TypeInv, CleanInv,
           \/ UserRequests \/ AccountCommit \/ AccountCrash \/ EditSave \/ UNCHANGED vars
           \/ \E s \in ResourceServices : UserCleanup(s)
           \/ \E s \in UserServices : UserFinalize(s)
    PROVE  CleanInv'
<1>1. UNCHANGED <<sagas, confirmed, cleaned, mixed>>
  BY DEF UserRequests, CreateProject, EditLoad, DestroyLoad, AccountPublish, AccountCommit, AccountCrash,
         EditSave, UserCleanup, UserFinalize, vars, ms2, queues, history
<1> QED BY <1>1, SameSagasTrue DEF CleanInv, ConfirmedTrue, Grows, TypeInv

\* A service cleans up before it confirms, and a confirmation that is sent again says the same.
LEMMA CleanService ==
    ASSUME TypeInv, CleanInv, NEW s \in ProjectServices, NEW p \in Projects,
           Cleanup(s, p) \/ Republish(s, p)
    PROVE  CleanInv'
<1>0. /\ TypeOK /\ confirmed \in [ProjectServices -> [Projects -> Nat]]
      /\ cleaned \in [Projects -> SUBSET ProjectServices]
  BY DEF TypeInv, TypeOK, QueuesOK, HistoryOK
<1>1. UNCHANGED <<sagas, mixed>>
  BY DEF Cleanup, Republish, ms2, history
<1>2. \/ /\ cleaned' = [cleaned EXCEPT ![p] = @ \cup {s}]
         /\ confirmed' = confirmed \/ confirmed' = [confirmed EXCEPT ![s][p] = @ + 1]
      \/ /\ cleaned' = cleaned
         /\ \/ confirmed' = confirmed
            \/ confirmed[s][p] > 0 /\ confirmed' = [confirmed EXCEPT ![s][p] = @ + 1]
  BY DEF Cleanup, Confirm, Republish, history
<1>3. Grows
  BY <1>0, <1>1, <1>2 DEF Grows
<1>4. ConfirmedTrue'
  <2> SUFFICES ASSUME NEW t \in ProjectServices, NEW q \in Projects, confirmed'[t][q] > 0
               PROVE  t \in cleaned'[q]
    BY DEF ConfirmedTrue
  <2>1. \/ confirmed[t][q] > 0
        \/ t = s /\ q = p /\ cleaned' = [cleaned EXCEPT ![p] = @ \cup {s}]
    BY <1>0, <1>2
  <2> QED BY <1>0, <1>3, <2>1 DEF CleanInv, ConfirmedTrue, Grows
<1> QED BY <1>0, <1>1, <1>3, <1>4, SameSagasTrue DEF CleanInv

LEMMA CleanStep == ASSUME TypeInv, CleanInv, [Next]_vars PROVE CleanInv'
  BY CleanDestroy, CleanFinalize, CleanInitiator, CleanRest, CleanService DEF Next, Faults, Work

\* A project's row goes only when every service its saga waits for has removed what it kept of
\* the project, unless a confirmation was counted before the steps were all written.
THEOREM GoneIsCleanedAlways == Spec => []GoneIsCleaned
<1>1. Init => TypeInv /\ CleanInv
  BY InitType, CleanInit DEF TypeInv
<1>2. TypeInv /\ CleanInv /\ [Next]_vars => (TypeInv /\ CleanInv)'
  BY TypeStep, CleanStep DEF TypeInv
<1>3. TypeInv /\ CleanInv => GoneIsCleaned
  <2> SUFFICES ASSUME TypeInv, CleanInv, NEW i \in SagaIds, sagas[i].status = "completed",
                      sagas[i].project \notin mixed, NEW s \in sagas[i].awaits
               PROVE  s \in cleaned[sagas[i].project]
    BY DEF GoneIsCleaned
  <2>1. s \in ProjectServices
    BY DEF TypeInv, TypeOK, Ms2OK, Saga
  <2> QED BY <2>1 DEF CleanInv, SagaTrue
<1> QED BY <1>1, <1>2, <1>3, PTL DEF Spec

-----------------------------------------------------------------------------
(* Nobody waits for ever.                                                  *)

\* A saga that exists keeps its project and what it waits for.
SagasStay ==
    \A i \in SagaIds : sagas[i].status # "none" =>
        sagas'[i].status # "none" /\ sagas'[i].project = sagas[i].project /\ sagas'[i].awaits = sagas[i].awaits

LEMMA SagasAlwaysStay == ASSUME TypeOK, [Next]_vars PROVE SagasStay
<1>0. sagas \in [SagaIds -> Saga]
  BY DEF TypeOK, Ms2OK
<1>1. CASE UNCHANGED sagas
  BY <1>1 DEF SagasStay
<1>2. ASSUME NEW i \in SagaIds, NEW x, sagas[i].status = "none", sagas' = [sagas EXCEPT ![i] = x]
      PROVE  SagasStay
  BY <1>0, <1>2 DEF SagasStay
<1>3. ASSUME NEW i, NEW x, sagas' = [sagas EXCEPT ![i] = x],
             i \in SagaIds => /\ x.status # "none" \/ x.status = sagas[i].status
                              /\ x.project = sagas[i].project /\ x.awaits = sagas[i].awaits
      PROVE  SagasStay
  BY <1>0, <1>3 DEF SagasStay
<1>4. ASSUME NEW d \in Deleters, DestroyNext(d) PROVE SagasStay
  <2>1. UNCHANGED sagas \/ DestroySaga(d) \/ DestroyStep(d) \/ DestroyFail(d)
    BY <1>4 DEF DestroyNext, DestroyCheck, DestroySoft, DestroyPublish, DestroyRestore
  <2>2. CASE DestroySaga(d)
    BY <1>2, <2>2 DEF DestroySaga
  <2>3. CASE DestroyStep(d)
    <3> DEFINE i == destroyer[d].saga
               next == ServiceOrder[destroyer[d].written + 1]
               x == [sagas[i] EXCEPT !.steps = [sagas[i].steps EXCEPT ![next] = "pending"]]
    <3>1. UNCHANGED sagas \/ sagas' = [sagas EXCEPT ![i] = x]
      BY <2>3 DEF DestroyStep
    <3>2. i \in SagaIds => x.status = sagas[i].status /\ x.project = sagas[i].project /\ x.awaits = sagas[i].awaits
      BY <1>0 DEF Saga
    <3> HIDE DEF x, i
    <3> QED BY <1>1, <1>3, <3>1, <3>2
  <2>4. CASE DestroyFail(d)
    <3> DEFINE i == destroyer[d].saga
               x == [sagas[i] EXCEPT !.status = "failed"]
    <3>1. sagas' = [sagas EXCEPT ![i] = x]
      BY <2>4 DEF DestroyFail
    <3>2. i \in SagaIds => x.status # "none" /\ x.project = sagas[i].project /\ x.awaits = sagas[i].awaits
      BY <1>0 DEF Saga
    <3> HIDE DEF x, i
    <3> QED BY <1>3, <3>1, <3>2
  <2> QED BY <1>1, <2>1, <2>2, <2>3, <2>4
<1>5. ASSUME NEW s \in ProjectServices, NEW p \in Projects, Finalize(s, p) PROVE SagasStay
  <2>1. ASSUME NEW i \in SagaIds, NEW t,
               \/ sagas' = [sagas EXCEPT ![i].steps = t]
               \/ sagas' = [sagas EXCEPT ![i].steps = t, ![i].status = "completed"]
        PROVE  SagasStay
    <3>1. CASE sagas' = [sagas EXCEPT ![i].steps = t]
      <4> DEFINE x == [sagas[i] EXCEPT !.steps = t]
      <4>1. x.status = sagas[i].status /\ x.project = sagas[i].project /\ x.awaits = sagas[i].awaits
        BY <1>0 DEF Saga
      <4>2. sagas' = [sagas EXCEPT ![i] = x]
        BY <3>1
      <4> HIDE DEF x
      <4> QED BY <1>3, <4>1, <4>2
    <3>2. CASE sagas' = [sagas EXCEPT ![i].steps = t, ![i].status = "completed"]
      <4> DEFINE x == [sagas[i] EXCEPT !.steps = t, !.status = "completed"]
      <4>1. x.status # "none" /\ x.project = sagas[i].project /\ x.awaits = sagas[i].awaits
        BY <1>0 DEF Saga
      <4>2. sagas' = [sagas EXCEPT ![i] = x]
        BY <1>0, <3>2
      <4> HIDE DEF x
      <4> QED BY <1>3, <4>1, <4>2
    <3> QED BY <2>1, <3>1, <3>2
  <2> QED BY <1>1, <1>5, <2>1 DEF Finalize, InProgress
<1>6. ASSUME InitiatorNext PROVE SagasStay
  <2>1. UNCHANGED sagas \/ InitiatorCommit
    BY <1>6 DEF InitiatorNext, InitiatorList, InitiatorCheck, InitiatorPublish, InitiatorConfirm
  <2> QED BY <1>1, <1>2, <2>1 DEF InitiatorCommit
<1>7. Faults \/ UserRequests \/ UNCHANGED vars => UNCHANGED sagas
  BY DEF Faults, UserRequests, DestroyCrash, InitiatorCrash, AccountCrash, Republish, CreateProject, EditLoad,
         DestroyLoad, AccountPublish, vars, ms2
<1>8. Work => \/ UNCHANGED sagas \/ InitiatorNext
              \/ \E d \in Deleters : DestroyNext(d)
              \/ \E s \in ProjectServices, p \in Projects : Finalize(s, p)
  BY DEF Work, EditSave, AccountCommit, Cleanup, UserCleanup, UserFinalize, ms2
<1> QED BY <1>1, <1>4, <1>5, <1>6, <1>7, <1>8 DEF Next

-----------------------------------------------------------------------------
(* The requests that write the steps of a saga.                            *)

\* A request that has written a saga is the only one that has, and the saga is there.
Owns(d) == destroyer[d].step \in {"saga", "unpublished", "restored"}

WriterOf(d) ==
    /\ Owns(d) =>
        /\ destroyer[d].saga \in SagaIds
        /\ sagas[destroyer[d].saga].status # "none"
        /\ sagas[destroyer[d].saga].project = destroyer[d].project
        /\ sagas[destroyer[d].saga].awaits = ProjectServices
    /\ destroyer[d].step \in {"loaded", "checked", "soft"} => destroyer[d].written = 0

OneWriter ==
    \A d, e \in Deleters :
        Owns(d) /\ Owns(e) /\ destroyer[d].saga = destroyer[e].saga => d = e

SagasNamed ==
    /\ \A i \in SagaIds : IF sagas[i].status = "none" THEN sagas[i].project = NoProject
                          ELSE sagas[i].project \in Projects
    /\ initiator.step \in {"checked", "published"} => initiator.project \in Projects

WriterInv == (\A d \in Deleters : WriterOf(d)) /\ OneWriter /\ SagasNamed

LEMMA WriterInit == Init => WriterInv
  BY DEF Init, WriterInv, WriterOf, Owns, OneWriter, SagasNamed, Rest, RestInit, NewSaga

LEMMA WriterSame ==
    ASSUME TypeOK, WriterInv, SagasStay, NEW d \in Deleters, UNCHANGED destroyer[d]
    PROVE  WriterOf(d)'
<1>1. destroyer'[d] = destroyer[d]
  OBVIOUS
<1> QED BY <1>1 DEF WriterInv, WriterOf, Owns, SagasStay

\* Only an initiation makes a saga of one that was not there.
LEMMA UnusedStays ==
    ASSUME TypeInv, WriterInv, [Next]_vars, NEW i \in SagaIds, sagas[i].status = "none",
           ~InitiatorCommit, \A d \in Deleters : ~DestroySaga(d)
    PROVE  sagas'[i] = sagas[i]
<1>0. sagas \in [SagaIds -> Saga] /\ \A d \in Deleters : WriterOf(d)
  BY DEF TypeInv, TypeOK, Ms2OK, WriterInv
<1>1. ASSUME NEW d \in Deleters, DestroyNext(d) PROVE sagas'[i] = sagas[i]
  <2>1. UNCHANGED sagas \/ DestroyStep(d) \/ DestroyFail(d)
    BY <1>1 DEF DestroyNext, DestroyCheck, DestroySoft, DestroyPublish, DestroyRestore
  <2>2. CASE DestroyStep(d) \/ DestroyFail(d)
    <3>1. destroyer[d].saga # i
      BY <1>0, <2>2 DEF DestroyStep, DestroyFail, WriterOf, Owns
    <3> QED BY <1>0, <2>2, <3>1 DEF DestroyStep, DestroyFail
  <2> QED BY <2>1, <2>2
<1>2. ASSUME NEW s \in ProjectServices, NEW p \in Projects, Finalize(s, p) PROVE sagas'[i] = sagas[i]
  <2>1. i \notin InProgress(p)
    BY DEF InProgress
  <2> QED BY <1>0, <1>2, <2>1 DEF Finalize
<1>3. InitiatorNext => UNCHANGED sagas
  BY DEF InitiatorNext, InitiatorList, InitiatorCheck, InitiatorPublish, InitiatorConfirm
<1>4. Faults \/ UserRequests \/ UNCHANGED vars => UNCHANGED sagas
  BY DEF Faults, UserRequests, DestroyCrash, InitiatorCrash, AccountCrash, Republish, CreateProject, EditLoad,
         DestroyLoad, AccountPublish, vars, ms2
<1>5. Work => \/ UNCHANGED sagas \/ InitiatorNext
              \/ \E d \in Deleters : DestroyNext(d)
              \/ \E s \in ProjectServices, p \in Projects : Finalize(s, p)
  BY DEF Work, EditSave, AccountCommit, Cleanup, UserCleanup, UserFinalize, ms2
<1> QED BY <1>1, <1>2, <1>3, <1>4, <1>5 DEF Next

\* What goes on at the initiator has a project.
LEMMA InitiatorNamed ==
    ASSUME TypeInv, WriterInv, [Next]_vars
    PROVE  initiator'.step \in {"checked", "published"} => initiator'.project \in Projects
<1>0. initiator \in Initiator /\ (initiator.step \in {"checked", "published"} => initiator.project \in Projects)
  BY DEF TypeInv, TypeOK, Ms2OK, WriterInv, SagasNamed
<1>1. CASE UNCHANGED initiator
  BY <1>0, <1>1
<1>2. CASE InitiatorNext
  <2>1. CASE InitiatorConfirm
    BY <2>1 DEF InitiatorConfirm, RestInit
  <2>5. CASE InitiatorList
    <3>1. PICK active : initiator' = [RestInit EXCEPT !.step = "listed", !.todo = active]
      BY <2>5 DEF InitiatorList
    <3> QED BY <3>1 DEF RestInit
  <2>2. CASE InitiatorCommit
    BY <1>0, <2>2 DEF InitiatorCommit, BackToList, Initiator
  <2>3. CASE InitiatorPublish
    <3>1. /\ initiator.step = "checked"
          /\ \/ initiator' = [initiator EXCEPT !.step = "listed", !.project = NoProject]
             \/ initiator' = [initiator EXCEPT !.step = "published"]
      BY <2>3 DEF InitiatorPublish, BackToList
    <3> QED BY <1>0, <3>1 DEF Initiator
  <2>4. ASSUME NEW p \in Projects, InitiatorCheck(p)
        PROVE  initiator'.step \in {"checked", "published"} => initiator'.project \in Projects
    <3>1. /\ initiator.step = "listed"
          /\ \/ initiator' = [initiator EXCEPT !.todo = @ \ {p}]
             \/ initiator' = [step |-> "checked", project |-> p, todo |-> initiator.todo \ {p}]
      BY <2>4 DEF InitiatorCheck
    <3> QED BY <1>0, <3>1 DEF Initiator
  <2> QED BY <1>2, <2>1, <2>2, <2>3, <2>4, <2>5 DEF InitiatorNext
<1>3. CASE InitiatorCrash
  BY <1>3 DEF InitiatorCrash, RestInit
<1>4. UNCHANGED initiator \/ InitiatorNext \/ InitiatorCrash
  BY DEF Next, Faults, UserRequests, Work, DestroyCrash, AccountCrash, Republish, CreateProject, EditLoad,
         DestroyLoad, AccountPublish, vars, ms2, EditSave, AccountCommit, Cleanup, Finalize, UserCleanup, UserFinalize,
         DestroyNext, DestroyCheck, DestroySoft, DestroySaga, DestroyStep, DestroyPublish, DestroyRestore, DestroyFail
<1> QED BY <1>1, <1>2, <1>3, <1>4

\* A saga that starts gets its project, one that goes on keeps it.
LEMMA NamedStep == ASSUME TypeInv, WriterInv, [Next]_vars PROVE SagasNamed'
<1>0. /\ sagas \in [SagaIds -> Saga] /\ SagasStay /\ SagasNamed
      /\ \A d \in Deleters : destroyer[d].step # "idle" => destroyer[d].project \in Projects
  BY SagasAlwaysStay DEF TypeInv, TypeOK, Ms2OK, WriterInv, Addressed
<1>1. ASSUME NEW i \in SagaIds, sagas[i].status = "none"
      PROVE  IF sagas'[i].status = "none" THEN sagas'[i].project = NoProject ELSE sagas'[i].project \in Projects
  <2>1. sagas[i].project = NoProject
    BY <1>0, <1>1 DEF SagasNamed
  <2>2. CASE sagas'[i] = sagas[i]
    BY <1>1, <2>1, <2>2
  <2>3. ASSUME NEW d \in Deleters, DestroySaga(d)
        PROVE  sagas'[i] = sagas[i] \/ (sagas'[i].status = "in_progress" /\ sagas'[i].project \in Projects)
    <3>1. destroyer[d].project \in Projects
      BY <1>0, <2>3 DEF DestroySaga
    <3> QED BY <1>0, <2>3, <3>1 DEF DestroySaga, NewSaga
  <2>4. ASSUME InitiatorCommit
        PROVE  sagas'[i] = sagas[i] \/ (sagas'[i].status = "in_progress" /\ sagas'[i].project \in Projects)
    <3>1. initiator.project \in Projects
      BY <1>0, <2>4 DEF InitiatorCommit, SagasNamed
    <3> QED BY <1>0, <2>4, <3>1 DEF InitiatorCommit
  <2> QED BY <1>1, <2>2, <2>3, <2>4, UnusedStays
<1>2. ASSUME NEW i \in SagaIds, sagas[i].status # "none"
      PROVE  sagas'[i].status # "none" /\ sagas'[i].project \in Projects
  BY <1>0, <1>2 DEF SagasStay, SagasNamed
<1> QED BY <1>1, <1>2, InitiatorNamed DEF SagasNamed

LEMMA WriterStep == ASSUME TypeInv, WriterInv, [Next]_vars PROVE WriterInv'
<1>0. /\ destroyer \in [Deleters -> Destroyer] /\ sagas \in [SagaIds -> Saga] /\ TypeOK
      /\ SagasStay /\ OneWriter /\ \A d \in Deleters : WriterOf(d)
  BY SagasAlwaysStay DEF TypeInv, TypeOK, Ms2OK, WriterInv
<1>1. SagasNamed'
  BY NamedStep
\* A request that does not come to own a saga.
<1>2. ASSUME NEW d \in Deleters, NEW x, destroyer' = [destroyer EXCEPT ![d] = x],
             x.step \in {"saga", "unpublished", "restored"} => Owns(d) /\ x.saga = destroyer[d].saga /\ x.project = destroyer[d].project,
             x.step \in {"loaded", "checked", "soft"} => x.written = 0
      PROVE  (\A e \in Deleters : WriterOf(e)') /\ OneWriter'
  <2>1. \A e \in Deleters : destroyer'[e] = IF e = d THEN x ELSE destroyer[e]
    BY <1>0, <1>2
  <2>2. \A e \in Deleters : Owns(e)' => Owns(e) /\ destroyer'[e].saga = destroyer[e].saga
                                     /\ destroyer'[e].project = destroyer[e].project
    BY <1>2, <2>1 DEF Owns
  <2>3. OneWriter'
    BY <1>0, <2>2 DEF OneWriter
  <2>4. ASSUME NEW e \in Deleters PROVE WriterOf(e)'
    <3>1. destroyer'[e].step \in {"loaded", "checked", "soft"} => destroyer'[e].written = 0
      BY <1>0, <1>2, <2>1 DEF WriterOf
    <3>2. Owns(e)' => /\ destroyer'[e].saga \in SagaIds
                      /\ sagas'[destroyer'[e].saga].status # "none"
                      /\ sagas'[destroyer'[e].saga].project = destroyer'[e].project
                      /\ sagas'[destroyer'[e].saga].awaits = ProjectServices
      BY <1>0, <2>2 DEF WriterOf, SagasStay
    <3> QED BY <3>1, <3>2 DEF WriterOf
  <2> QED BY <2>3, <2>4
<1>3. CASE UNCHANGED destroyer
  <2>1. \A d \in Deleters : WriterOf(d)'
    BY <1>0, <1>3, WriterSame
  <2>2. OneWriter'
    BY <1>0, <1>3 DEF OneWriter, Owns
  <2> QED BY <1>1, <2>1, <2>2 DEF WriterInv
<1>4. ASSUME NEW d \in Deleters, DestroySaga(d) PROVE (\A e \in Deleters : WriterOf(e)') /\ OneWriter'
  <2>1. PICK i \in SagaIds :
          /\ sagas[i].status = "none"
          /\ sagas' = [sagas EXCEPT ![i] = [NewSaga EXCEPT !.status = "in_progress",
                                                           !.project = destroyer[d].project,
                                                           !.awaits = ProjectServices]]
          /\ destroyer' = [destroyer EXCEPT ![d].step = "saga", ![d].saga = i]
    BY <1>4 DEF DestroySaga
  <2>2. /\ destroyer'[d].step = "saga" /\ destroyer'[d].saga = i /\ destroyer'[d].project = destroyer[d].project
        /\ \A e \in Deleters : e # d => destroyer'[e] = destroyer[e]
    BY <1>0, <2>1 DEF Destroyer
  <2>3. sagas'[i].status = "in_progress" /\ sagas'[i].project = destroyer[d].project /\ sagas'[i].awaits = ProjectServices
    BY <1>0, <2>1 DEF NewSaga
  <2>4. \A e \in Deleters : e # d /\ Owns(e)' => Owns(e) /\ destroyer'[e].saga = destroyer[e].saga /\ destroyer[e].saga # i
    BY <1>0, <2>1, <2>2 DEF Owns, WriterOf
  <2>5. OneWriter'
    BY <1>0, <2>2, <2>4 DEF OneWriter
  <2>6. ASSUME NEW e \in Deleters PROVE WriterOf(e)'
    <3>1. CASE e = d
      BY <2>2, <2>3, <3>1 DEF WriterOf
    <3>2. CASE e # d
      BY <1>0, <2>2, <3>2, WriterSame DEF WriterInv
    <3> QED BY <3>1, <3>2
  <2> QED BY <2>5, <2>6
<1>5. ASSUME NEW d \in Deleters, DestroyNext(d) \/ DestroyCrash(d) \/ (\E p \in Projects : DestroyLoad(d, p))
      PROVE  (\A e \in Deleters : WriterOf(e)') /\ OneWriter'
  <2>0. destroyer[d] \in Destroyer
    BY <1>0
  <2>1. CASE DestroyCheck(d)
    <3>1. PICK x : /\ destroyer' = [destroyer EXCEPT ![d] = x]
                   /\ x = Rest \/ x = [destroyer[d] EXCEPT !.step = "checked"]
                   /\ destroyer[d].step = "loaded"
      <4>1. destroyer[d].step = "loaded"
        BY <2>1 DEF DestroyCheck
      <4>2. destroyer' = [destroyer EXCEPT ![d] = Rest] \/ destroyer' = [destroyer EXCEPT ![d] = [destroyer[d] EXCEPT !.step = "checked"]]
        BY <1>0, <2>1 DEF DestroyCheck
      <4> QED BY <4>1, <4>2
    <3>2. x.step \in {"idle", "checked"} /\ (x.step = "checked" => x.written = 0)
      BY <1>0, <2>0, <3>1 DEF Rest, WriterOf, Destroyer
    <3> QED BY <1>2, <3>1, <3>2
  <2>2. CASE DestroySoft(d)
    <3> DEFINE x == [destroyer[d] EXCEPT !.step = "soft"]
    <3>1. destroyer' = [destroyer EXCEPT ![d] = x] /\ x.step = "soft" /\ x.written = 0
      BY <1>0, <2>0, <2>2 DEF DestroySoft, WriterOf, Destroyer
    <3> HIDE DEF x
    <3> QED BY <1>2, <3>1
  <2>3. ASSUME NEW n, NEW t \in {"saga", "unpublished", "restored"}, Owns(d),
               destroyer' = [destroyer EXCEPT ![d] = [destroyer[d] EXCEPT !.step = t, !.written = n]]
        PROVE  (\A e \in Deleters : WriterOf(e)') /\ OneWriter'
    <3> DEFINE x == [destroyer[d] EXCEPT !.step = t, !.written = n]
    <3>1. x.step = t /\ x.saga = destroyer[d].saga /\ x.project = destroyer[d].project
      BY <2>0 DEF Destroyer
    <3>2. destroyer' = [destroyer EXCEPT ![d] = x]
      BY <2>3
    <3> HIDE DEF x
    <3> QED BY <1>2, <2>3, <3>1, <3>2
  <2>4. ASSUME destroyer' = [destroyer EXCEPT ![d] = Rest] PROVE (\A e \in Deleters : WriterOf(e)') /\ OneWriter'
    <3>1. Rest.step = "idle"
      BY DEF Rest
    <3> QED BY <1>2, <2>4, <3>1
  <2>5. CASE DestroyStep(d)
    <3>1. destroyer[d].step = "saga" /\ Owns(d)
      BY <2>5 DEF DestroyStep, Owns
    <3>2. \/ destroyer' = [destroyer EXCEPT ![d] = Rest]
          \/ destroyer' = [destroyer EXCEPT ![d].written = @ + 1]
      BY <2>5 DEF DestroyStep
    <3>3. CASE destroyer' = [destroyer EXCEPT ![d].written = @ + 1]
      <4>1. destroyer' = [destroyer EXCEPT ![d] = [destroyer[d] EXCEPT !.step = "saga", !.written = destroyer[d].written + 1]]
        BY <1>0, <2>0, <3>1, <3>3 DEF Destroyer
      <4> QED BY <2>3, <3>1, <4>1
    <3> QED BY <2>4, <3>2, <3>3
  <2>6. CASE DestroyPublish(d) \/ DestroyRestore(d)
    <3>1. Owns(d)
      BY <2>6 DEF DestroyPublish, DestroyRestore, Owns
    <3>2. \/ destroyer' = [destroyer EXCEPT ![d] = Rest]
          \/ \E t \in {"unpublished", "restored"} : destroyer' = [destroyer EXCEPT ![d].step = t]
      BY <2>6 DEF DestroyPublish, DestroyRestore
    <3>3. ASSUME NEW t \in {"unpublished", "restored"}, destroyer' = [destroyer EXCEPT ![d].step = t]
          PROVE  (\A e \in Deleters : WriterOf(e)') /\ OneWriter'
      <4>1. destroyer' = [destroyer EXCEPT ![d] = [destroyer[d] EXCEPT !.step = t, !.written = destroyer[d].written]]
        BY <1>0, <2>0, <3>3 DEF Destroyer
      <4> QED BY <2>3, <3>1, <4>1
    <3> QED BY <2>4, <3>2, <3>3
  <2>7. CASE DestroyFail(d) \/ DestroyCrash(d)
    BY <2>4, <2>7 DEF DestroyFail, DestroyCrash
  <2>8. ASSUME NEW p \in Projects, DestroyLoad(d, p) PROVE (\A e \in Deleters : WriterOf(e)') /\ OneWriter'
    <3> DEFINE x == [Rest EXCEPT !.step = "loaded", !.project = p]
    <3>1. destroyer' = [destroyer EXCEPT ![d] = x] /\ x.step = "loaded" /\ x.written = 0
      BY <2>8 DEF DestroyLoad, Rest
    <3> HIDE DEF x
    <3> QED BY <1>2, <3>1
  <2> QED BY <1>4, <1>5, <2>1, <2>2, <2>5, <2>6, <2>7, <2>8 DEF DestroyNext
<1>6. \/ UNCHANGED destroyer
      \/ \E d \in Deleters : DestroyNext(d) \/ DestroyCrash(d) \/ (\E p \in Projects : DestroyLoad(d, p))
  BY DEF Next, Faults, UserRequests, Work, InitiatorCrash, AccountCrash, Republish, CreateProject, EditLoad,
         AccountPublish, vars, ms2, EditSave, AccountCommit, Cleanup, Finalize, UserCleanup, UserFinalize,
         InitiatorNext, InitiatorList, InitiatorCheck, InitiatorPublish, InitiatorCommit, InitiatorConfirm
<1> QED BY <1>1, <1>3, <1>5, <1>6 DEF WriterInv

-----------------------------------------------------------------------------
(* NoSagaStranded.                                                         *)

\* The request that writes the steps of a saga.
Writes(d, i) == destroyer[d].step = "saga" /\ destroyer[d].saga = i

PendingAt(i) == {s \in ProjectServices : sagas[i].steps[s] = "pending"}

\* A service will confirm, or has confirmed, that it cleaned up after a project.
Announcing(s, p) == asked[s][p] > 0 \/ confirmed[s][p] > 0

\* The first k steps of a saga are there and pending.
WrittenTo(i, k) ==
    \A n \in 1..Len(ServiceOrder) : sagas[i].steps[ServiceOrder[n]] = IF n <= k THEN "pending" ELSE "none"

\* A saga that will go on: its request writes it and will publish the event, or every step
\* that is pending will be ticked off.
Served(i) ==
    \/ \E d \in Deleters : Writes(d, i) /\ IF destroyer[d].written = Len(ServiceOrder) THEN PendingAt(i) # {}
                                           ELSE WrittenTo(i, destroyer[d].written)
    \/ /\ \A d \in Deleters : ~Writes(d, i)
       /\ PendingAt(i) # {}
       /\ \A s \in PendingAt(i) : Announcing(s, sagas[i].project)

\* One of the sagas of a project that are in progress goes on, and the one the initiator is
\* about to commit will.
GoesOn(p) ==
    /\ InProgress(p) # {} => \E i \in InProgress(p) : Served(i)
    /\ Locked(p) => InProgress(p) # {} \/ \A s \in ProjectServices : Announcing(s, p)

StrandInv ==
    mishaps = 0 =>
        /\ \A d \in Deleters : destroyer[d].step \notin {"unpublished", "restored"}
        /\ \A p \in Projects \ (missed \cup mixed) : GoesOn(p)

LEMMA StrandInit == Init => StrandInv
<1> SUFFICES ASSUME Init PROVE StrandInv
  OBVIOUS
<1>1. \A d \in Deleters : destroyer[d].step = "idle"
  BY DEF Init, Rest
<1>2. \A p : InProgress(p) = {} /\ ~Locked(p)
  BY DEF Init, InProgress, NewSaga, Locked, RestInit
<1> QED BY <1>1, <1>2 DEF StrandInv, GoesOn

LEMMA NoMishap == ASSUME mishaps \in Nat, Mishap PROVE mishaps' # 0
  BY DEF Mishap

\* What goes on still does after a step that touches neither it nor its request.
LEMMA ServedKept ==
    ASSUME NEW i, Served(i), sagas'[i] = sagas[i],
           \A d \in Deleters : Writes(d, i) \/ Writes(d, i)' => destroyer'[d] = destroyer[d],
           \A s \in ProjectServices : Announcing(s, sagas[i].project) => Announcing(s, sagas[i].project)'
    PROVE  Served(i)'
<1>1. PendingAt(i)' = PendingAt(i) /\ \A k : (\A n \in 1..Len(ServiceOrder) : sagas'[i].steps[ServiceOrder[n]] = IF n <= k THEN "pending" ELSE "none") <=> WrittenTo(i, k)
  BY DEF PendingAt, WrittenTo
<1>2. \A d \in Deleters : Writes(d, i)' <=> Writes(d, i)
  BY DEF Writes
<1>3. ASSUME NEW d \in Deleters, Writes(d, i),
             IF destroyer[d].written = Len(ServiceOrder) THEN PendingAt(i) # {} ELSE WrittenTo(i, destroyer[d].written)
      PROVE  Served(i)'
  <2>1. destroyer'[d] = destroyer[d]
    BY <1>3
  <2>2. IF destroyer'[d].written = Len(ServiceOrder) THEN PendingAt(i)' # {} ELSE WrittenTo(i, destroyer[d].written)'
    BY <1>1, <1>3, <2>1 DEF WrittenTo
  <2>3. WrittenTo(i, destroyer[d].written)' <=> (\A n \in 1..Len(ServiceOrder) : sagas'[i].steps[ServiceOrder[n]] = IF n <= destroyer'[d].written THEN "pending" ELSE "none")
    BY <2>1 DEF WrittenTo
  <2> QED BY <1>2, <1>3, <2>1, <2>2, <2>3 DEF Served, WrittenTo
<1>4. CASE /\ \A d \in Deleters : ~Writes(d, i)
           /\ PendingAt(i) # {}
           /\ \A s \in PendingAt(i) : Announcing(s, sagas[i].project)
  <2>1. /\ \A d \in Deleters : ~Writes(d, i)'
        /\ PendingAt(i)' # {}
        /\ \A s \in PendingAt(i)' : Announcing(s, sagas[i].project)'
    BY <1>1, <1>2, <1>4 DEF PendingAt
  <2> QED BY <2>1 DEF Served
<1> QED BY <1>3, <1>4 DEF Served

\* Nothing that touches no saga of a project, no request that writes one, and loses no
\* confirmation of it keeps its sagas from going on.
LEMMA ElsewhereKept ==
    ASSUME NEW p, InProgress(p) # {} => \E i \in InProgress(p) : Served(i),
           \A i \in SagaIds : sagas'[i] = sagas[i] \/ (i \notin InProgress(p) /\ i \notin InProgress(p)'),
           \A i \in InProgress(p), d \in Deleters :
               Writes(d, i) \/ Writes(d, i)' => destroyer'[d] = destroyer[d],
           \A s \in ProjectServices : Announcing(s, p) => Announcing(s, p)'
    PROVE  InProgress(p)' = InProgress(p) /\ (InProgress(p)' # {} => \E i \in InProgress(p)' : Served(i)')
<1>1. InProgress(p)' = InProgress(p)
  BY DEF InProgress
<1>2. ASSUME NEW i \in InProgress(p), Served(i) PROVE Served(i)'
  <2>1. i \in SagaIds /\ sagas[i].project = p /\ sagas'[i] = sagas[i]
    BY DEF InProgress
  <2>2. \A d \in Deleters : Writes(d, i) \/ Writes(d, i)' => destroyer'[d] = destroyer[d]
    OBVIOUS
  <2>3. \A s \in ProjectServices : Announcing(s, sagas[i].project) => Announcing(s, p)'
    BY <2>1
  <2>4. \A s \in ProjectServices : Announcing(s, p)' <=> Announcing(s, sagas[i].project)'
    BY <2>1 DEF Announcing
  <2> QED BY <1>2, <2>1, <2>2, <2>3, <2>4, ServedKept
<1> QED BY <1>1, <1>2

LEMMA Kept ==
    ASSUME NEW p, GoesOn(p),
           \A i \in SagaIds : sagas'[i] = sagas[i] \/ (i \notin InProgress(p) /\ i \notin InProgress(p)'),
           \A i \in InProgress(p), d \in Deleters :
               Writes(d, i) \/ Writes(d, i)' => destroyer'[d] = destroyer[d],
           \A s \in ProjectServices : Announcing(s, p) => Announcing(s, p)',
           Locked(p)' => Locked(p)
    PROVE  GoesOn(p)'
<1>1. InProgress(p)' = InProgress(p) /\ (InProgress(p)' # {} => \E i \in InProgress(p)' : Served(i)')
  BY ElsewhereKept DEF GoesOn
<1>2. Locked(p)' => InProgress(p)' # {} \/ \A s \in ProjectServices : Announcing(s, p)'
  BY <1>1 DEF GoesOn
<1> QED BY <1>1, <1>2 DEF GoesOn

\* What the proofs about a step start from.
Whole == TypeInv /\ WriterInv /\ SagasStay /\ OneWriter' /\ SagasNamed'

LEMMA StrandDestroySaga ==
    ASSUME Whole, NEW d \in Deleters, DestroySaga(d), NEW q, GoesOn(q)
    PROVE  GoesOn(q)'
<1>0. /\ destroyer \in [Deleters -> Destroyer] /\ sagas \in [SagaIds -> Saga]
      /\ (\A e \in Deleters : WriterOf(e)) /\ OneWriter'
  BY DEF Whole, TypeInv, TypeOK, Ms2OK, WriterInv
<1> DEFINE p == destroyer[d].project
<1>1. PICK i \in SagaIds :
        /\ sagas[i].status = "none"
        /\ sagas' = [sagas EXCEPT ![i] = [NewSaga EXCEPT !.status = "in_progress",
                                                         !.project = destroyer[d].project,
                                                         !.awaits = ProjectServices]]
        /\ destroyer' = [destroyer EXCEPT ![d].step = "saga", ![d].saga = i]
  BY DEF DestroySaga
<1>2. /\ sagas'[i].status = "in_progress" /\ sagas'[i].project = p /\ sagas'[i].steps = NewSteps
      /\ \A j \in SagaIds : j # i => sagas'[j] = sagas[j]
  BY <1>0, <1>1 DEF NewSaga
<1>3. /\ destroyer[d].step = "soft" /\ destroyer[d].written = 0
      /\ destroyer'[d].step = "saga" /\ destroyer'[d].saga = i /\ destroyer'[d].written = 0
      /\ \A e \in Deleters : e # d => destroyer'[e] = destroyer[e]
  BY <1>0, <1>1 DEF DestroySaga, WriterOf, Destroyer
<1>4. UNCHANGED <<asked, confirmed, initiator>>
  BY DEF DestroySaga, queues
<1>5. i \notin InProgress(q)
  BY <1>1 DEF InProgress
<1>6. CASE q # p
  <2>1. i \notin InProgress(q)'
    BY <1>2, <1>6 DEF InProgress
  <2>2. \A j \in InProgress(q), e \in Deleters :
            Writes(e, j) \/ Writes(e, j)' => destroyer'[e] = destroyer[e]
    BY <1>3, <1>5 DEF Writes
  <2>3. (\A s \in ProjectServices : Announcing(s, q) => Announcing(s, q)') /\ (Locked(q)' => Locked(q))
    BY <1>4 DEF Announcing, Locked
  <2> QED BY <1>2, <1>5, <2>1, <2>2, <2>3, Kept
<1>7. CASE q = p
  <2>1. i \in InProgress(q)'
    BY <1>2, <1>7 DEF InProgress
  <2>2. Writes(d, i)'
    BY <1>3 DEF Writes
  <2>3. Len(ServiceOrder) # 0
    <3>1. PICK s : s \in UserWaitsFor
      BY SagaAssumption
    <3>2. s \in ProjectServices
      BY <3>1, SagaAssumption
    <3> QED BY <3>2 DEF ProjectServices
  <2>4. \A n \in 1..Len(ServiceOrder) : sagas'[i].steps[ServiceOrder[n]] = IF n <= destroyer'[d].written THEN "pending" ELSE "none"
    <3> SUFFICES ASSUME NEW n \in 1..Len(ServiceOrder) PROVE sagas'[i].steps[ServiceOrder[n]] = "none" /\ ~(n <= 0)
      BY <1>3
    <3>1. ServiceOrder[n] \in ProjectServices
      BY Zenon DEF ProjectServices
    <3> QED BY <1>2, <3>1, SagaAssumption DEF NewSteps
  <2>5. Served(i)'
    BY <1>3, <2>2, <2>3, <2>4 DEF Served, WrittenTo
  <2> QED BY <2>1, <2>5 DEF GoesOn
<1> QED BY <1>6, <1>7

LEMMA StrandDestroyStep ==
    ASSUME Whole, NEW d \in Deleters, DestroyStep(d), NEW q, GoesOn(q)
    PROVE  GoesOn(q)'
<1>0. /\ destroyer \in [Deleters -> Destroyer] /\ sagas \in [SagaIds -> Saga]
      /\ (\A e \in Deleters : WriterOf(e)) /\ OneWriter /\ SagasStay
  BY DEF Whole, TypeInv, TypeOK, Ms2OK, WriterInv
<1>a. PICK p, i, k, next : /\ p = destroyer[d].project /\ i = destroyer[d].saga
                           /\ k = destroyer[d].written /\ next = ServiceOrder[k + 1]
  OBVIOUS
<1>1. /\ destroyer[d].step = "saga" /\ i \in SagaIds /\ sagas[i].project = p
      /\ k \in 0..Len(ServiceOrder) /\ k < Len(ServiceOrder) /\ Len(ServiceOrder) \in Nat
  BY <1>0, <1>a, SagaAssumption DEF DestroyStep, WriterOf, Owns, Destroyer
<1>2. /\ next \in ProjectServices /\ k + 1 \in 1..Len(ServiceOrder)
  <2>1. k + 1 \in 0..Len(ServiceOrder) /\ ServiceOrder[k + 1] \in ProjectServices
    BY <1>1, NextService
  <2> QED BY <1>1, <1>a, <2>1
<1>3. \/ /\ sagas[i].steps[next] = "none"
         /\ sagas' = [sagas EXCEPT ![i].steps[next] = "pending"]
         /\ destroyer' = [destroyer EXCEPT ![d].written = k + 1]
      \/ /\ sagas[i].steps[next] # "none"
         /\ destroyer' = [destroyer EXCEPT ![d] = Rest]
         /\ sagas' = sagas
  BY <1>a DEF DestroyStep
<1>4. UNCHANGED <<asked, confirmed, initiator>>
  BY DEF DestroyStep, queues
<1>5. /\ \A e \in Deleters : e # d => destroyer'[e] = destroyer[e]
      /\ \A j \in SagaIds : j # i => sagas'[j] = sagas[j]
      /\ sagas'[i].status = sagas[i].status /\ sagas'[i].project = p
      /\ Writes(d, i) /\ \A j : j # i => ~Writes(d, j) /\ ~Writes(d, j)'
  <2>1. CASE /\ sagas' = [sagas EXCEPT ![i].steps[next] = "pending"]
             /\ destroyer' = [destroyer EXCEPT ![d].written = k + 1]
    <3>1. destroyer'[d].saga = i /\ destroyer'[d].step = destroyer[d].step
      BY <1>0, <1>a, <2>1 DEF Destroyer
    <3>2. sagas'[i].status = sagas[i].status /\ sagas'[i].project = sagas[i].project
      BY <1>0, <1>1, <2>1 DEF Saga
    <3> QED BY <1>0, <1>1, <2>1, <3>1, <3>2, <1>a DEF Writes
  <2>2. CASE destroyer' = [destroyer EXCEPT ![d] = Rest] /\ sagas' = sagas
    BY <1>0, <1>1, <1>a, <2>2 DEF Writes, Rest
  <2> QED BY <1>3, <2>1, <2>2
<1>6. (\A s \in ProjectServices : Announcing(s, q) => Announcing(s, q)') /\ (Locked(q)' => Locked(q))
  BY <1>4 DEF Announcing, Locked
<1>7. CASE i \notin InProgress(q)
  <2>1. i \notin InProgress(q)'
    BY <1>1, <1>5, <1>7 DEF InProgress
  <2>2. \A j \in InProgress(q), e \in Deleters :
            Writes(e, j) \/ Writes(e, j)' => destroyer'[e] = destroyer[e]
    BY <1>5, <1>7
  <2> QED BY <1>5, <1>6, <1>7, <2>1, <2>2, Kept
<1>8. CASE i \in InProgress(q)
  <2>1. i \in InProgress(q)'
    BY <1>1, <1>5, <1>8 DEF InProgress
  <2>2. PICK j \in InProgress(q) : Served(j)
    BY <1>8 DEF GoesOn
  <2>3. CASE j # i
    <3>1. j \in SagaIds /\ sagas'[j] = sagas[j] /\ sagas[j].project = q
      BY <1>5, <2>3 DEF InProgress
    <3>2. \A e \in Deleters : Writes(e, j) \/ Writes(e, j)' => destroyer'[e] = destroyer[e]
      BY <1>5, <2>3
    <3>3. \A s \in ProjectServices : Announcing(s, sagas[j].project) => Announcing(s, sagas[j].project)'
      BY <1>4, <3>1 DEF Announcing
    <3>4. Served(j)'
      BY <2>2, <3>1, <3>2, <3>3, ServedKept
    <3>5. j \in InProgress(q)'
      BY <3>1 DEF InProgress
    <3> QED BY <2>1, <3>4, <3>5 DEF GoesOn
  <2>4. CASE j = i
    <3>1. WrittenTo(i, k)
      <4>1. \A e \in Deleters : Writes(e, i) => e = d
        BY <1>0, <1>5 DEF Writes, OneWriter, Owns
      <4>2. k # Len(ServiceOrder)
        BY <1>1
      <4> QED BY <1>5, <1>a, <2>2, <2>4, <4>1, <4>2 DEF Served
    <3>2. sagas[i].steps[next] = "none"
      <4>1. ~(k + 1 <= k)
        BY <1>1
      <4> QED BY <1>2, <1>a, <3>1, <4>1 DEF WrittenTo
    <3>3. /\ sagas' = [sagas EXCEPT ![i].steps[next] = "pending"]
          /\ destroyer' = [destroyer EXCEPT ![d].written = k + 1]
      BY <1>3, <3>2
    <3>4. sagas'[i].steps = [sagas[i].steps EXCEPT ![next] = "pending"] /\ sagas[i].steps \in [ProjectServices -> StepStatus]
      BY <1>0, <1>1, <3>3 DEF Saga
    <3>5. destroyer'[d].written = k + 1 /\ destroyer'[d].step = "saga" /\ destroyer'[d].saga = i
      BY <1>0, <1>1, <3>3, <1>a DEF Destroyer
    <3>6. sagas'[i].steps[next] = "pending"
      BY <1>2, <3>4
    <3>7. next \in PendingAt(i)'
      BY <1>2, <3>6 DEF PendingAt
    <3>8. \A n \in 1..Len(ServiceOrder) : sagas'[i].steps[ServiceOrder[n]] = IF n <= k + 1 THEN "pending" ELSE "none"
      <4> SUFFICES ASSUME NEW n \in 1..Len(ServiceOrder)
                   PROVE  sagas'[i].steps[ServiceOrder[n]] = IF n <= k + 1 THEN "pending" ELSE "none"
        OBVIOUS
      <4>0. ServiceOrder[n] \in ProjectServices
        BY Zenon DEF ProjectServices
      <4>1. CASE n = k + 1
        BY <1>1, <1>a, <3>6, <4>1
      <4>2. CASE n # k + 1
        <5>1. ServiceOrder[n] # next
          BY <1>2, <1>a, <4>2, SagaAssumption
        <5>2. sagas'[i].steps[ServiceOrder[n]] = sagas[i].steps[ServiceOrder[n]]
          BY <3>4, <4>0, <5>1
        <5>3. (n <= k + 1) <=> (n <= k)
          BY <1>1, <4>2
        <5> QED BY <3>1, <5>2, <5>3 DEF WrittenTo
      <4> QED BY <4>1, <4>2
    <3>9. Served(i)'
      <4>1. Writes(d, i)'
        BY <3>5 DEF Writes
      <4>2. \A n \in 1..Len(ServiceOrder) : sagas'[i].steps[ServiceOrder[n]] = IF n <= destroyer'[d].written THEN "pending" ELSE "none"
        BY <3>5, <3>8
      <4>3. PendingAt(i)' # {}
        BY <3>7
      <4> QED BY <4>1, <4>2, <4>3 DEF Served, WrittenTo
    <3> QED BY <2>1, <3>9 DEF GoesOn
  <2> QED BY <2>3, <2>4
<1> QED BY <1>7, <1>8

LEMMA AnnouncedAll ==
    ASSUME QueuesOK, NEW p \in Projects, asked' = Announced(p), UNCHANGED confirmed
    PROVE  /\ \A s \in ProjectServices : Announcing(s, p)'
           /\ \A s \in ProjectServices, q \in Projects : Announcing(s, q) => Announcing(s, q)'
<1>1. ASSUME NEW s \in ProjectServices, NEW q \in Projects
      PROVE  asked'[s][q] = IF q = p THEN asked[s][q] + 1 ELSE asked[s][q]
  <2>1. asked'[s] = [asked[s] EXCEPT ![p] = @ + 1]
    BY DEF Announced
  <2>2. asked[s] \in [Projects -> Nat]
    BY DEF QueuesOK
  <2> QED BY <2>1, <2>2
<1>2. \A s \in ProjectServices, q \in Projects : asked[s][q] \in Nat
  BY DEF QueuesOK
<1>3. \A s \in ProjectServices : asked'[s][p] > 0
  BY <1>1, <1>2
<1>4. \A s \in ProjectServices, q \in Projects : asked[s][q] > 0 => asked'[s][q] > 0
  BY <1>1, <1>2
<1> QED BY <1>3, <1>4 DEF Announcing

LEMMA StrandDestroyPublish ==
    ASSUME Whole, NEW d \in Deleters, DestroyPublish(d), mishaps' = 0, NEW q \in Projects, GoesOn(q)
    PROVE  GoesOn(q)'
<1>0. /\ destroyer \in [Deleters -> Destroyer] /\ sagas \in [SagaIds -> Saga] /\ QueuesOK /\ mishaps \in Nat
      /\ (\A e \in Deleters : WriterOf(e)) /\ OneWriter
      /\ \A e \in Deleters : destroyer[e].step # "idle" => destroyer[e].project \in Projects
  BY DEF Whole, TypeInv, TypeOK, Ms2OK, WriterInv, Addressed, QueuesOK
<1>a. PICK p, i : p = destroyer[d].project /\ i = destroyer[d].saga
  OBVIOUS
<1>1. /\ destroyer[d].step = "saga" /\ p \in Projects /\ destroyer[d].written = Len(ServiceOrder)
      /\ i \in SagaIds /\ sagas[i].project = p
  BY <1>0, <1>a DEF DestroyPublish, WriterOf, Owns
<1>2. /\ asked' = Announced(p) /\ UNCHANGED confirmed
      /\ destroyer' = [destroyer EXCEPT ![d] = Rest] /\ UNCHANGED <<sagas, initiator>>
  BY <1>0, <1>a, NoMishap DEF DestroyPublish
<1>3. /\ \A e \in Deleters : e # d => destroyer'[e] = destroyer[e]
      /\ Writes(d, i) /\ \A j : ~Writes(d, j)'
      /\ \A j : j # i => ~Writes(d, j)
  BY <1>0, <1>1, <1>2, <1>a DEF Writes, Rest
<1>4. /\ \A s \in ProjectServices : Announcing(s, p)'
      /\ \A s \in ProjectServices : Announcing(s, q) => Announcing(s, q)'
  BY <1>0, <1>1, <1>2, AnnouncedAll
<1>5. Locked(q)' => Locked(q)
  BY <1>2 DEF Locked
<1>6. CASE i \notin InProgress(q)
  <2>1. \A j \in InProgress(q), e \in Deleters :
            Writes(e, j) \/ Writes(e, j)' => destroyer'[e] = destroyer[e]
    BY <1>3, <1>6
  <2> QED BY <1>2, <1>4, <1>5, <2>1, Kept
<1>7. CASE i \in InProgress(q)
  <2>1. InProgress(q)' = InProgress(q) /\ q = p
    BY <1>1, <1>2, <1>7 DEF InProgress
  <2>2. PICK j \in InProgress(q) : Served(j)
    BY <1>7 DEF GoesOn
  <2>3. CASE j # i
    <3>1. sagas'[j] = sagas[j] /\ sagas[j].project = q
      BY <1>2 DEF InProgress
    <3>2. \A e \in Deleters : Writes(e, j) \/ Writes(e, j)' => destroyer'[e] = destroyer[e]
      BY <1>3, <2>3
    <3>3. \A s \in ProjectServices : Announcing(s, sagas[j].project) => Announcing(s, sagas[j].project)'
      BY <1>4, <3>1 DEF Announcing
    <3>4. Served(j)'
      BY <2>2, <3>1, <3>2, <3>3, ServedKept
    <3> QED BY <2>1, <3>4 DEF GoesOn
  <2>4. CASE j = i
    <3>1. \A e \in Deleters : ~Writes(e, i)'
      BY <1>0, <1>3 DEF Writes, OneWriter, Owns
    <3>2. PendingAt(i) # {}
      <4>1. \A e \in Deleters : Writes(e, i) => e = d
        BY <1>0, <1>3 DEF Writes, OneWriter, Owns
      <4> QED BY <1>1, <1>3, <2>2, <2>4, <4>1 DEF Served
    <3>3. PendingAt(i)' = PendingAt(i)
      BY <1>2 DEF PendingAt
    <3>4. \A s \in PendingAt(i)' : Announcing(s, sagas[i].project)'
      BY <1>1, <1>2, <1>4 DEF PendingAt, Announcing
    <3>5. Served(i)'
      BY <3>1, <3>2, <3>3, <3>4 DEF Served
    <3> QED BY <1>7, <2>1, <3>5 DEF GoesOn
  <2> QED BY <2>3, <2>4
<1> QED BY <1>6, <1>7

LEMMA StrandInitiatorPublish ==
    ASSUME Whole, InitiatorPublish, mishaps' = 0, NEW q \in Projects, GoesOn(q)
    PROVE  GoesOn(q)'
<1>0. /\ initiator \in Initiator /\ QueuesOK /\ mishaps \in Nat
      /\ (initiator.step \in {"checked", "published"} => initiator.project \in Projects)
  BY DEF Whole, TypeInv, TypeOK, Ms2OK, WriterInv, SagasNamed, QueuesOK
<1>a. PICK p : p = initiator.project
  OBVIOUS
<1>1. /\ UNCHANGED <<sagas, destroyer, confirmed>> /\ p \in Projects
      /\ \/ initiator' = [initiator EXCEPT !.step = "listed", !.project = NoProject] /\ UNCHANGED asked
         \/ asked' = Announced(p) /\ initiator' = [initiator EXCEPT !.step = "published"]
  BY <1>0, <1>a, NoMishap DEF InitiatorPublish, BackToList
<1>2. CASE initiator' = [initiator EXCEPT !.step = "listed", !.project = NoProject] /\ UNCHANGED asked
  <2>1. ~Locked(q)'
    BY <1>0, <1>2 DEF Locked, Initiator
  <2> QED BY <1>1, <1>2, <2>1, Kept DEF Announcing
<1>3. CASE asked' = Announced(p) /\ initiator' = [initiator EXCEPT !.step = "published"]
  <2>1. /\ \A s \in ProjectServices : Announcing(s, p)'
        /\ \A s \in ProjectServices : Announcing(s, q) => Announcing(s, q)'
    BY <1>0, <1>1, <1>3, AnnouncedAll
  <2>2. InProgress(q)' = InProgress(q) /\ (InProgress(q)' # {} => \E i \in InProgress(q)' : Served(i)')
    BY <1>1, <2>1, ElsewhereKept DEF GoesOn
  <2>3. Locked(q)' => q = p
    BY <1>0, <1>3, <1>a DEF Locked, Initiator
  <2> QED BY <2>1, <2>2, <2>3 DEF GoesOn
<1> QED BY <1>1, <1>2, <1>3

LEMMA StrandInitiatorCommit ==
    ASSUME Whole, InitiatorCommit, NEW q, GoesOn(q)
    PROVE  GoesOn(q)'
<1>0. /\ initiator \in Initiator /\ sagas \in [SagaIds -> Saga] /\ \A e \in Deleters : WriterOf(e)
  BY DEF Whole, TypeInv, TypeOK, Ms2OK, WriterInv
<1>a. PICK p : p = initiator.project
  OBVIOUS
<1>1. PICK i \in SagaIds :
        /\ sagas[i].status = "none"
        /\ sagas' = [sagas EXCEPT ![i] =
               [status |-> "in_progress", project |-> initiator.project, awaits |-> UserWaitsFor,
                steps |-> [s \in ProjectServices |-> IF s \in UserWaitsFor THEN "pending" ELSE "none"]]]
  BY DEF InitiatorCommit
<1>2. /\ sagas'[i].status = "in_progress" /\ sagas'[i].project = p
      /\ sagas'[i].steps = [s \in ProjectServices |-> IF s \in UserWaitsFor THEN "pending" ELSE "none"]
      /\ \A j \in SagaIds : j # i => sagas'[j] = sagas[j]
  BY <1>0, <1>1, <1>a
<1>3. UNCHANGED <<destroyer, asked, confirmed>> /\ ~Locked(q)'
  BY <1>0 DEF InitiatorCommit, queues, BackToList, Locked, Initiator
<1>4. i \notin InProgress(q)
  BY <1>1 DEF InProgress
<1>5. \A e \in Deleters : ~Writes(e, i) /\ ~Writes(e, i)'
  BY <1>0, <1>1, <1>3 DEF Writes, WriterOf, Owns
<1>6. CASE q # p
  <2>1. i \notin InProgress(q)'
    BY <1>2, <1>6 DEF InProgress
  <2> QED BY <1>2, <1>3, <1>4, <2>1, Kept DEF Announcing
<1>7. CASE q = p
  <2>1. i \in InProgress(q)'
    BY <1>2, <1>7 DEF InProgress
  <2>2. CASE InProgress(q) # {}
    <3>1. PICK j \in InProgress(q) : Served(j)
      BY <2>2 DEF GoesOn
    <3>2. sagas'[j] = sagas[j] /\ j \in InProgress(q)'
      BY <1>2, <1>4 DEF InProgress
    <3>3. Served(j)'
      BY <1>3, <3>1, <3>2, ServedKept DEF Announcing
    <3> QED BY <1>3, <3>2, <3>3 DEF GoesOn
  <2>3. CASE InProgress(q) = {}
    <3>1. \A s \in ProjectServices : Announcing(s, q)
      BY <1>7, <1>a, <2>3 DEF GoesOn, Locked, InitiatorCommit
    <3>2. PendingAt(i)' # {}
      <4>1. PICK s : s \in UserWaitsFor /\ s \in ProjectServices
        BY SagaAssumption
      <4>2. sagas'[i].steps[s] = "pending"
        BY <1>2, <4>1
      <4> QED BY <4>1, <4>2 DEF PendingAt
    <3>3. \A s \in PendingAt(i)' : Announcing(s, sagas[i].project)'
      BY <1>2, <1>3, <1>7, <3>1 DEF PendingAt, Announcing
    <3>4. Served(i)'
      BY <1>5, <3>2, <3>3 DEF Served
    <3> QED BY <1>3, <2>1, <3>4 DEF GoesOn
  <2> QED BY <2>2, <2>3
<1> QED BY <1>6, <1>7

\* The saga a confirmation is for, when it is not dropped.
LEMMA TheOnly ==
    ASSUME NEW p, Cardinality(InProgress(p)) = 1, NEW i \in InProgress(p)
    PROVE  InProgress(p) = {i}
<1>1. InProgress(p) \subseteq SagaIds
  BY DEF InProgress
<1>2. IsFiniteSet(InProgress(p))
  BY <1>1, SagaAssumption, FS_Subset
<1>3. \E x : InProgress(p) = {x}
  BY <1>2, FS_Singleton
<1> QED BY <1>3

LEMMA StrandFinalize ==
    ASSUME Whole, NEW s \in ProjectServices, NEW p \in Projects, Finalize(s, p), mishaps' = 0,
           NEW q \in Projects, q \notin missed' \cup mixed', GoesOn(q)
    PROVE  GoesOn(q)'
<1>0. /\ sagas \in [SagaIds -> Saga] /\ QueuesOK /\ mishaps \in Nat
      /\ OneWriter /\ \A e \in Deleters : WriterOf(e)
  BY DEF Whole, TypeInv, TypeOK, Ms2OK, WriterInv, QueuesOK
<1>1. UNCHANGED <<destroyer, initiator, asked>> /\ confirmed' = [confirmed EXCEPT ![s][p] = @ - 1]
  BY <1>0, NoMishap DEF Finalize
<1>2. \A t \in ProjectServices : t # s \/ q # p => (Announcing(t, q) => Announcing(t, q)')
  <2>1. \A t \in ProjectServices : confirmed[t] \in [Projects -> Nat]
    BY <1>0 DEF QueuesOK
  <2>2. \A t \in ProjectServices : t # s \/ q # p => confirmed'[t][q] = confirmed[t][q]
    BY <1>0, <1>1, <2>1 DEF QueuesOK
  <2> QED BY <1>1, <2>2 DEF Announcing
<1>3. Locked(q)' <=> Locked(q)
  BY <1>1 DEF Locked
<1>4. CASE q # p
  <2>1. \A t \in ProjectServices : Announcing(t, q) => Announcing(t, q)'
    BY <1>2, <1>4
  <2>2. \A i \in SagaIds : sagas'[i] = sagas[i] \/ (i \notin InProgress(q) /\ i \notin InProgress(q)')
    <3>1. UNCHANGED sagas \/ \E i \in InProgress(p) : \E t :
              \/ sagas' = [sagas EXCEPT ![i].steps = t]
              \/ sagas' = [sagas EXCEPT ![i].steps = t, ![i].status = "completed"]
      BY DEF Finalize
    <3>2. ASSUME NEW i \in InProgress(p), NEW t,
                 \/ sagas' = [sagas EXCEPT ![i].steps = t]
                 \/ sagas' = [sagas EXCEPT ![i].steps = t, ![i].status = "completed"]
          PROVE  /\ \A j \in SagaIds : j # i => sagas'[j] = sagas[j]
                 /\ i \notin InProgress(q) /\ i \notin InProgress(q)'
      <4>1. i \in SagaIds /\ sagas[i].project = p
        BY DEF InProgress
      <4>2. sagas'[i].project = p
        BY <1>0, <3>2, <4>1 DEF Saga
      <4> QED BY <1>0, <1>4, <3>2, <4>1, <4>2 DEF InProgress
    <3> QED BY <3>1, <3>2
  <2> QED BY <1>1, <1>3, <2>1, <2>2, Kept
<1>5. CASE q = p
  <2>1. Cardinality(InProgress(p)) = 1
    BY <1>5 DEF Finalize
  <2>2. PICK i \in InProgress(p) :
          /\ mixed' = IF AllWritten(i) THEN mixed ELSE mixed \cup {p}
          /\ IF Outstanding(Ticked(i, s))
             THEN sagas' = [sagas EXCEPT ![i].steps = Ticked(i, s)]
             ELSE /\ ~Locked(p)
                  /\ sagas' = [sagas EXCEPT ![i].steps = Ticked(i, s), ![i].status = "completed"]
    BY <2>1 DEF Finalize
  <2>3. InProgress(p) = {i} /\ Served(i) /\ AllWritten(i) /\ i \in SagaIds /\ sagas[i].project = p
    BY <1>5, <2>1, <2>2, TheOnly DEF GoesOn, InProgress
  <2>4. \A j \in SagaIds : j # i => sagas'[j] = sagas[j]
    BY <1>0, <2>2, <2>3
  <2>5. CASE ~Outstanding(Ticked(i, s))
    <3>1. sagas'[i].status = "completed"
      BY <1>0, <2>2, <2>3, <2>5 DEF Saga
    <3>2. InProgress(p)' = {}
      BY <2>3, <2>4, <3>1 DEF InProgress
    <3> QED BY <1>3, <1>5, <2>2, <2>5, <3>2 DEF GoesOn
  <2>6. CASE Outstanding(Ticked(i, s))
    <3>1. /\ sagas'[i].status = "in_progress" /\ sagas'[i].project = p
          /\ sagas'[i].steps = [sagas[i].steps EXCEPT ![s] = "completed"]
          /\ sagas[i].steps \in [ProjectServices -> StepStatus]
      BY <1>0, <2>2, <2>3, <2>6 DEF Saga, InProgress, Ticked
    <3>2. i \in InProgress(p)'
      BY <2>3, <3>1 DEF InProgress
    <3>3. PICK t \in ProjectServices : [sagas[i].steps EXCEPT ![s] = "completed"][t] = "pending"
      BY <2>6, <3>1 DEF Outstanding, Ticked
    <3>4. t \in PendingAt(i)'
      BY <3>1, <3>3 DEF PendingAt
    <3>5. \A u \in PendingAt(i)' : u \in PendingAt(i) /\ u # s
      BY <3>1 DEF PendingAt
    <3>6. \A e \in Deleters : Writes(e, i)' <=> Writes(e, i)
      BY <1>1 DEF Writes
    <3>7. CASE \A e \in Deleters : ~Writes(e, i)
      <4>1. \A u \in PendingAt(i) : Announcing(u, p)
        BY <2>3, <3>7 DEF Served
      <4>2. \A u \in PendingAt(i)' : Announcing(u, sagas[i].project)'
        BY <1>2, <1>5, <3>1, <3>5, <4>1 DEF PendingAt, Announcing
      <4>3. Served(i)'
        BY <3>4, <3>6, <3>7, <4>2 DEF Served
      <4> QED BY <1>5, <3>2, <4>3 DEF GoesOn
    <3>8. ASSUME NEW e \in Deleters, Writes(e, i) PROVE GoesOn(q)'
      <4>1. \A u \in ProjectServices : sagas[i].steps[u] # "none"
        BY <1>0, <2>3, <3>8 DEF AllWritten, WriterOf, Owns, Writes
      <4>2. destroyer[e].written = Len(ServiceOrder)
        <5>1. \A g \in Deleters : Writes(g, i) => g = e
          BY <1>0, <3>8 DEF Writes, OneWriter, Owns
        <5>2. SUFFICES ASSUME WrittenTo(i, destroyer[e].written), destroyer[e].written # Len(ServiceOrder) PROVE FALSE
          BY <2>3, <3>8, <5>1 DEF Served
        <5>3. PICK k : k = destroyer[e].written /\ k \in 0..Len(ServiceOrder) /\ Len(ServiceOrder) \in Nat
          BY SagaAssumption DEF Whole, TypeInv, TypeOK, Ms2OK, Destroyer
        <5>4. Len(ServiceOrder) \in 1..Len(ServiceOrder) /\ ~(Len(ServiceOrder) <= k)
          BY <5>2, <5>3
        <5>5. ServiceOrder[Len(ServiceOrder)] \in ProjectServices
          BY <5>4, Zenon DEF ProjectServices
        <5>6. sagas[i].steps[ServiceOrder[Len(ServiceOrder)]] = "none"
          BY <5>2, <5>3, <5>4 DEF WrittenTo
        <5> QED BY <4>1, <5>5, <5>6
      <4>3. destroyer'[e].written = Len(ServiceOrder)
        BY <1>1, <4>2
      <4>4. Served(i)'
        BY <3>4, <3>6, <3>8, <4>3 DEF Served
      <4> QED BY <1>5, <3>2, <4>4 DEF GoesOn
    <3> QED BY <3>7, <3>8
  <2> QED BY <2>5, <2>6
<1> QED BY <1>4, <1>5

LEMMA StrandCleanup ==
    ASSUME Whole, NEW s \in ProjectServices, NEW p \in Projects, Cleanup(s, p), mishaps' = 0,
           NEW q \in Projects, GoesOn(q)
    PROVE  GoesOn(q)'
<1>0. mishaps \in Nat /\ QueuesOK
  BY DEF Whole, TypeInv, TypeOK, QueuesOK
<1>1. /\ confirmed' = [confirmed EXCEPT ![s][p] = @ + 1] /\ asked' = [asked EXCEPT ![s][p] = @ - 1]
      /\ UNCHANGED <<sagas, destroyer, initiator>>
  BY <1>0, NoMishap DEF Cleanup, Confirm, ms2
<1>2. \A t \in ProjectServices : Announcing(t, q) => Announcing(t, q)'
  <2>1. ASSUME NEW t \in ProjectServices PROVE Announcing(t, q) => Announcing(t, q)'
    <3>1. /\ confirmed[t] \in [Projects -> Nat] /\ asked[t] \in [Projects -> Nat]
          /\ confirmed[t][q] \in Nat
      BY <1>0 DEF QueuesOK
    <3>2. CASE t = s /\ q = p
      <4>1. confirmed'[t][q] = confirmed[t][q] + 1
        BY <1>0, <1>1, <3>1, <3>2 DEF QueuesOK
      <4>2. confirmed'[t][q] > 0
        BY <3>1, <4>1
      <4> QED BY <4>2 DEF Announcing
    <3>3. CASE t # s \/ q # p
      <4>1. confirmed'[t][q] = confirmed[t][q] /\ asked'[t][q] = asked[t][q]
        BY <1>0, <1>1, <3>1, <3>3 DEF QueuesOK
      <4> QED BY <4>1 DEF Announcing
    <3> QED BY <3>2, <3>3
  <2> QED BY <2>1
<1>3. Locked(q)' <=> Locked(q)
  BY <1>1 DEF Locked
<1> QED BY <1>1, <1>2, <1>3, Kept

LEMMA StrandDestroy ==
    ASSUME Whole, NEW d \in Deleters, mishaps' = 0, NEW q \in Projects, GoesOn(q),
           destroyer[d].step \notin {"unpublished", "restored"},
           DestroyNext(d) \/ (\E p \in Projects : DestroyLoad(d, p))
    PROVE  GoesOn(q)' /\ destroyer'[d].step \notin {"unpublished", "restored"}
<1>0. destroyer \in [Deleters -> Destroyer] /\ mishaps \in Nat
  BY DEF Whole, TypeInv, TypeOK, Ms2OK, QueuesOK
<1>1. CASE DestroyCheck(d) \/ DestroySoft(d) \/ \E p \in Projects : DestroyLoad(d, p)
  <2>1. /\ UNCHANGED <<sagas, asked, confirmed, initiator>>
        /\ destroyer[d].step \in {"idle", "loaded", "checked"}
    BY <1>1 DEF DestroyCheck, DestroySoft, DestroyLoad, queues
  <2>2. \E x : destroyer' = [destroyer EXCEPT ![d] = x] /\ x.step \in {"idle", "loaded", "checked", "soft"}
    <3>1. \/ destroyer' = [destroyer EXCEPT ![d] = Rest]
          \/ destroyer' = [destroyer EXCEPT ![d] = [destroyer[d] EXCEPT !.step = "checked"]]
          \/ destroyer' = [destroyer EXCEPT ![d] = [destroyer[d] EXCEPT !.step = "soft"]]
          \/ \E p : destroyer' = [destroyer EXCEPT ![d] = [Rest EXCEPT !.step = "loaded", !.project = p]]
      BY <1>1 DEF DestroyCheck, DestroySoft, DestroyLoad
    <3>2. /\ Rest.step = "idle" /\ [destroyer[d] EXCEPT !.step = "checked"].step = "checked"
          /\ [destroyer[d] EXCEPT !.step = "soft"].step = "soft"
          /\ \A p : [Rest EXCEPT !.step = "loaded", !.project = p].step = "loaded"
      BY <1>0 DEF Rest, Destroyer
    <3>3. ASSUME NEW x, destroyer' = [destroyer EXCEPT ![d] = x], x.step \in {"idle", "loaded", "checked", "soft"}
          PROVE  \E y : destroyer' = [destroyer EXCEPT ![d] = y] /\ y.step \in {"idle", "loaded", "checked", "soft"}
      BY <3>3
    <3> DEFINE Loaded(p) == [Rest EXCEPT !.step = "loaded", !.project = p]
               chk == [destroyer[d] EXCEPT !.step = "checked"]
               sft == [destroyer[d] EXCEPT !.step = "soft"]
    <3>4. /\ Rest.step = "idle" /\ chk.step = "checked" /\ sft.step = "soft"
          /\ \A p : Loaded(p).step = "loaded"
      BY <3>2
    <3>5. \/ destroyer' = [destroyer EXCEPT ![d] = Rest] \/ destroyer' = [destroyer EXCEPT ![d] = chk]
          \/ destroyer' = [destroyer EXCEPT ![d] = sft] \/ \E p : destroyer' = [destroyer EXCEPT ![d] = Loaded(p)]
      BY <3>1
    <3> HIDE DEF Loaded, chk, sft
    <3> QED BY <3>3, <3>4, <3>5, Zenon
  <2>3. destroyer'[d].step \in {"idle", "loaded", "checked", "soft"} /\ \A e \in Deleters : e # d => destroyer'[e] = destroyer[e]
    BY <1>0, <2>2
  <2>4. \A j \in InProgress(q), e \in Deleters :
            Writes(e, j) \/ Writes(e, j)' => destroyer'[e] = destroyer[e]
    BY <2>1, <2>3 DEF Writes
  <2> QED BY <2>1, <2>3, <2>4, Kept DEF Announcing, Locked
<1>2. CASE DestroySaga(d)
  <2>1. destroyer'[d].step = "saga"
    BY <1>0, <1>2 DEF DestroySaga, Destroyer
  <2> QED BY <1>2, <2>1, StrandDestroySaga
<1>3. CASE DestroyStep(d)
  <2>1. destroyer'[d].step \in {"saga", "idle"}
    BY <1>0, <1>3 DEF DestroyStep, Destroyer, Rest
  <2> QED BY <1>3, <2>1, StrandDestroyStep
<1>4. CASE DestroyPublish(d)
  <2>1. destroyer'[d].step = "idle"
    BY <1>0, <1>4, NoMishap DEF DestroyPublish, Rest
  <2> QED BY <1>4, <2>1, StrandDestroyPublish
<1>5. ~DestroyRestore(d) /\ ~DestroyFail(d)
  BY DEF DestroyRestore, DestroyFail
<1> QED BY <1>1, <1>2, <1>3, <1>4, <1>5 DEF DestroyNext

LEMMA StrandInitiator ==
    ASSUME Whole, InitiatorNext, mishaps' = 0, NEW q \in Projects, GoesOn(q)
    PROVE  GoesOn(q)' /\ UNCHANGED destroyer
<1>0. initiator \in Initiator
  BY DEF Whole, TypeInv, TypeOK, Ms2OK
<1>1. CASE InitiatorList \/ InitiatorConfirm \/ \E p \in Projects : InitiatorCheck(p)
  <2>1. UNCHANGED <<sagas, destroyer, asked, confirmed>>
    BY <1>1 DEF InitiatorList, InitiatorConfirm, InitiatorCheck, queues
  <2>2. initiator'.step \in {"idle", "listed", "checked"}
    <3>1. \/ \E x : initiator' = [RestInit EXCEPT !.step = "listed", !.todo = x]
          \/ initiator' = RestInit
          \/ \E p : initiator.step = "listed" /\ initiator' = [initiator EXCEPT !.todo = @ \ {p}]
          \/ \E p : initiator' = [step |-> "checked", project |-> p, todo |-> initiator.todo \ {p}]
      BY <1>1 DEF InitiatorList, InitiatorConfirm, InitiatorCheck
    <3>2. ASSUME NEW x, initiator' = [RestInit EXCEPT !.step = "listed", !.todo = x] PROVE initiator'.step = "listed"
      BY <3>2 DEF RestInit
    <3>3. ASSUME NEW p, initiator.step = "listed", initiator' = [initiator EXCEPT !.todo = @ \ {p}]
          PROVE  initiator'.step = "listed"
      BY <1>0, <3>3 DEF Initiator
    <3>4. ASSUME NEW p, initiator' = [step |-> "checked", project |-> p, todo |-> initiator.todo \ {p}]
          PROVE  initiator'.step = "checked"
      BY <3>4
    <3>5. initiator' = RestInit => initiator'.step = "idle"
      BY DEF RestInit
    <3> QED BY <3>1, <3>2, <3>3, <3>4, <3>5
  <2>3. ~Locked(q)'
    BY <2>2 DEF Locked
  <2> QED BY <2>1, <2>3, Kept DEF Announcing
<1>2. CASE InitiatorPublish
  BY <1>2, StrandInitiatorPublish DEF InitiatorPublish
<1>3. CASE InitiatorCommit
  BY <1>3, StrandInitiatorCommit DEF InitiatorCommit
<1> QED BY <1>1, <1>2, <1>3 DEF InitiatorNext

LEMMA StrandStep == ASSUME TypeInv, WriterInv, WriterInv', StrandInv, [Next]_vars PROVE StrandInv'
<1>0. Whole /\ mishaps \in Nat /\ destroyer \in [Deleters -> Destroyer]
  BY SagasAlwaysStay DEF Whole, WriterInv, TypeInv, TypeOK, QueuesOK, Ms2OK
<1>1. missed \subseteq missed' /\ mixed \subseteq mixed'
  <2>1. UNCHANGED <<missed, mixed>> \/ \E s \in ProjectServices, p \in Projects : Finalize(s, p)
    BY DEF Next, Faults, UserRequests, Work, InitiatorCrash, AccountCrash, Republish, CreateProject, EditLoad,
           AccountPublish, vars, EditSave, AccountCommit, Cleanup, UserCleanup, UserFinalize, history,
           InitiatorNext, InitiatorList, InitiatorCheck, InitiatorPublish, InitiatorCommit, InitiatorConfirm,
           DestroyNext, DestroyCheck, DestroySoft, DestroySaga, DestroyStep, DestroyPublish, DestroyRestore, DestroyFail,
           DestroyLoad, DestroyCrash
  <2> QED BY <2>1 DEF Finalize
<1>2. mishaps' = 0 => mishaps = 0
  <2>1. Mishap \/ UNCHANGED mishaps
    BY DEF Next, Faults, UserRequests, Work, InitiatorCrash, AccountCrash, Republish, CreateProject, EditLoad,
           AccountPublish, vars, EditSave, AccountCommit, Cleanup, Finalize, UserCleanup, UserFinalize,
           InitiatorNext, InitiatorList, InitiatorCheck, InitiatorPublish, InitiatorCommit, InitiatorConfirm,
           DestroyNext, DestroyCheck, DestroySoft, DestroySaga, DestroyStep, DestroyPublish, DestroyRestore, DestroyFail,
           DestroyLoad, DestroyCrash
  <2> QED BY <1>0, <2>1, NoMishap
<1> SUFFICES ASSUME mishaps' = 0
             PROVE  /\ \A d \in Deleters : destroyer'[d].step \notin {"unpublished", "restored"}
                    /\ \A p \in Projects : p \notin missed' \cup mixed' => GoesOn(p)'
  BY DEF StrandInv
<1>3. /\ \A d \in Deleters : destroyer[d].step \notin {"unpublished", "restored"}
      /\ \A p \in Projects : p \notin missed' \cup mixed' => GoesOn(p)
  BY <1>1, <1>2 DEF StrandInv
<1>4. ASSUME UNCHANGED <<sagas, destroyer, initiator, asked, confirmed>>
      PROVE  /\ \A d \in Deleters : destroyer'[d].step \notin {"unpublished", "restored"}
             /\ \A p \in Projects : p \notin missed' \cup mixed' => GoesOn(p)'
  <2>1. ASSUME NEW p \in Projects, GoesOn(p) PROVE GoesOn(p)'
    BY <1>4, <2>1, Kept DEF Announcing, Locked
  <2> QED BY <1>3, <1>4, <2>1
<1>5. ASSUME NEW d \in Deleters, DestroyNext(d) \/ (\E p \in Projects : DestroyLoad(d, p))
      PROVE  /\ \A e \in Deleters : destroyer'[e].step \notin {"unpublished", "restored"}
             /\ \A p \in Projects : p \notin missed' \cup mixed' => GoesOn(p)'
  <2>1. \A e \in Deleters : e # d => destroyer'[e] = destroyer[e]
    BY <1>0, <1>5 DEF DestroyNext, DestroyCheck, DestroySoft, DestroySaga, DestroyStep, DestroyPublish, DestroyRestore,
                      DestroyFail, DestroyLoad
  <2>2. ASSUME NEW p \in Projects, GoesOn(p)
        PROVE  GoesOn(p)' /\ destroyer'[d].step \notin {"unpublished", "restored"}
    BY <1>0, <1>3, <1>5, <2>2, StrandDestroy
  <2>3. destroyer'[d].step \notin {"unpublished", "restored"}
    <3>1. ~DestroyRestore(d) /\ ~DestroyFail(d)
      BY <1>3 DEF DestroyRestore, DestroyFail
    <3>2. DestroyPublish(d) => destroyer'[d].step = "idle"
      BY <1>0, NoMishap DEF DestroyPublish, Rest
    <3>3. DestroyCheck(d) => destroyer'[d].step \in {"idle", "checked"}
      BY <1>0 DEF DestroyCheck, Rest, Destroyer
    <3>4. DestroySoft(d) \/ DestroySaga(d) \/ DestroyStep(d) => destroyer'[d].step \in {"soft", "saga", "idle"}
      BY <1>0 DEF DestroySoft, DestroySaga, DestroyStep, Rest, Destroyer
    <3>5. \A p \in Projects : DestroyLoad(d, p) => destroyer'[d].step = "loaded"
      BY <1>0 DEF DestroyLoad, Rest
    <3> QED BY <1>5, <3>1, <3>2, <3>3, <3>4, <3>5 DEF DestroyNext
  <2> QED BY <1>3, <2>1, <2>2, <2>3
<1>6. ASSUME InitiatorNext
      PROVE  /\ \A e \in Deleters : destroyer'[e].step \notin {"unpublished", "restored"}
             /\ \A p \in Projects : p \notin missed' \cup mixed' => GoesOn(p)'
  <2>1. UNCHANGED destroyer
    BY <1>6 DEF InitiatorNext, InitiatorList, InitiatorCheck, InitiatorPublish, InitiatorCommit, InitiatorConfirm
  <2>2. ASSUME NEW p \in Projects, GoesOn(p) PROVE GoesOn(p)'
    BY <1>0, <1>6, <2>2, StrandInitiator
  <2> QED BY <1>3, <2>1, <2>2
<1>7. ASSUME NEW s \in ProjectServices, NEW p \in Projects, Cleanup(s, p) \/ Finalize(s, p)
      PROVE  /\ \A e \in Deleters : destroyer'[e].step \notin {"unpublished", "restored"}
             /\ \A q \in Projects : q \notin missed' \cup mixed' => GoesOn(q)'
  <2>1. UNCHANGED destroyer
    BY <1>7 DEF Cleanup, Finalize, ms2
  <2>2. ASSUME NEW q \in Projects, GoesOn(q), q \notin missed' \cup mixed' PROVE GoesOn(q)'
    BY <1>0, <1>7, <2>2, StrandCleanup, StrandFinalize
  <2> QED BY <1>3, <2>1, <2>2
<1>8. ~Faults
  BY <1>0, NoMishap DEF Faults, DestroyCrash, InitiatorCrash, AccountCrash, Republish
<1>9. UserRequests => \/ UNCHANGED <<sagas, destroyer, initiator, asked, confirmed>>
                      \/ \E d \in Deleters, p \in Projects : DestroyLoad(d, p)
  BY DEF UserRequests, CreateProject, EditLoad, AccountPublish, ms1, ms2, queues
<1>10. Work => \/ UNCHANGED <<sagas, destroyer, initiator, asked, confirmed>>
               \/ InitiatorNext
               \/ \E d \in Deleters : DestroyNext(d)
               \/ \E s \in ProjectServices, p \in Projects : Cleanup(s, p) \/ Finalize(s, p)
  BY DEF Work, EditSave, AccountCommit, UserCleanup, UserFinalize, ms1, ms2, queues
<1>11. UNCHANGED vars => UNCHANGED <<sagas, destroyer, initiator, asked, confirmed>>
  BY DEF vars, ms2, queues
<1> QED BY <1>4, <1>5, <1>6, <1>7, <1>8, <1>9, <1>10, <1>11 DEF Next

\* NoSagaStranded: with no message and no request left, a saga that is still in progress has
\* lost a confirmation (to two sagas, to a saga not yet committed or not yet written), for
\* any number of projects, requests, sagas and services.
THEOREM NobodyStranded == Spec => []NoSagaStranded
<1>1. TypeInv /\ WriterInv /\ StrandInv => NoSagaStranded
  <2> SUFFICES ASSUME TypeInv, WriterInv, StrandInv, Quiet, mishaps = 0,
                      NEW i \in SagaIds, sagas[i].status = "in_progress", sagas[i].project \notin missed \cup mixed
               PROVE  FALSE
    BY DEF NoSagaStranded
  <2>1. PICK p : p = sagas[i].project /\ p \in Projects
    BY DEF WriterInv, SagasNamed
  <2>2. i \in InProgress(p)
    BY <2>1 DEF InProgress
  <2>3. PICK j \in InProgress(p) : Served(j)
    BY <2>1, <2>2 DEF StrandInv, GoesOn
  <2>4. \A d \in Deleters : ~Writes(d, j)
    BY DEF Quiet, Writes
  <2>5. PICK s \in PendingAt(j) : Announcing(s, sagas[j].project)
    BY <2>3, <2>4 DEF Served
  <2> QED BY <2>1, <2>3, <2>5 DEF Quiet, Announcing, PendingAt, InProgress
<1>2. Init => TypeInv /\ WriterInv /\ StrandInv
  BY InitType, WriterInit, StrandInit DEF TypeInv
<1>3. TypeInv /\ WriterInv /\ StrandInv /\ [Next]_vars => TypeInv' /\ WriterInv' /\ StrandInv'
  BY TypeStep, WriterStep, StrandStep DEF TypeInv
<1> QED BY <1>1, <1>2, <1>3, PTL DEF Spec

-----------------------------------------------------------------------------
(* What the deletion of an account takes with it.                          *)

\* The account goes with its saga, and a service is ticked off when it has cleaned up.
AccountInv ==
    /\ \A s \in ResourceServices :
           userConfirmed[s] > 0 \/ userSaga.steps[s] = "completed" => s \in userCleaned
    /\ account = "published" => userSaga.status = "none" /\ user = "active"
    /\ userSaga.status = "none" => user = "active" /\ \A s \in UserServices : userSaga.steps[s] = "none"
    /\ userSaga.status = "in_progress" => \A s \in UserServices : userSaga.steps[s] # "none"
    /\ user = "absent" => \A s \in UserServices : userSaga.steps[s] = "completed"

LEMMA AccountInit == Init => AccountInv
  BY DEF Init, AccountInv, ResourceServices

LEMMA AccountSame ==
    ASSUME AccountInv, UNCHANGED <<user, userSaga, userCleaned>>, account' = account \/ account' = "idle",
           \A s \in ResourceServices : userConfirmed'[s] = userConfirmed[s]
    PROVE  AccountInv'
  BY DEF AccountInv

LEMMA AccountStep == ASSUME TypeInv, AccountInv, [Next]_vars PROVE AccountInv'
<1>0. /\ Ms1OK /\ QueuesOK /\ userCleaned \subseteq ResourceServices
      /\ ResourceServices \subseteq UserServices
  BY DEF TypeInv, TypeOK, HistoryOK, ResourceServices
<1>1. CASE AccountPublish
  <2>1. /\ UNCHANGED <<user, userSaga, userCleaned, userConfirmed>>
        /\ user = "active" /\ userSaga.status = "none"
    BY <1>1 DEF AccountPublish, history
  <2> QED BY <2>1 DEF AccountInv
<1>2. CASE AccountCommit
  <2>1. /\ user' = "inactive" /\ account' = "idle" /\ userSaga'.status = "in_progress"
        /\ \A s \in UserServices : userSaga'.steps[s] = "pending"
        /\ UNCHANGED <<userConfirmed, userCleaned>>
    BY <1>2 DEF AccountCommit, queues, history
  <2> QED BY <1>0, <2>1 DEF AccountInv
<1>3. ASSUME NEW t \in ResourceServices, UserCleanup(t) PROVE AccountInv'
  <2>1. /\ UNCHANGED <<user, userSaga, account>> /\ userCleaned \subseteq userCleaned'
        /\ \A s \in ResourceServices : userConfirmed'[s] = userConfirmed[s] \/ s \in userCleaned'
    BY <1>0, <1>3 DEF UserCleanup, UserConfirm, UserClean, ms1, QueuesOK
  <2> QED BY <1>0, <2>1 DEF AccountInv
<1>4. ASSUME NEW t \in UserServices, UserFinalize(t) PROVE AccountInv'
  <2>1. UNCHANGED <<account, userCleaned>> /\ \A s \in UserServices : userConfirmed'[s] > 0 => userConfirmed[s] > 0
    <3>1. userConfirmed \in [UserServices -> Nat] /\ userConfirmed[t] > 0
      BY <1>0, <1>4 DEF QueuesOK, UserFinalize
    <3>2. userConfirmed' = [userConfirmed EXCEPT ![t] = @ - 1] \/ UNCHANGED userConfirmed
      BY <1>4 DEF UserFinalize
    <3>3. \A s \in UserServices : userConfirmed'[s] > 0 => userConfirmed[s] > 0
      BY <3>1, <3>2
    <3> QED BY <1>4, <3>3 DEF UserFinalize, history
  <2>2. CASE UNCHANGED <<user, userSaga>>
    BY <1>0, <2>1, <2>2 DEF AccountInv
  <2>3. CASE /\ userSaga.status = "in_progress" /\ userSaga.steps[t] = "pending"
             /\ ~UNCHANGED <<user, userSaga>>
    <3> DEFINE ticked == [userSaga.steps EXCEPT ![t] = "completed"]
    <3>1. userSaga.steps \in [UserServices -> StepStatus]
      BY <1>0 DEF Ms1OK, UserSaga
    <3>2. ticked \in [UserServices -> StepStatus] /\ \A s \in UserServices : ticked[s] = IF s = t THEN "completed" ELSE userSaga.steps[s]
      BY <3>1 DEF StepStatus
    <3>3. /\ userSaga'.steps = ticked
          /\ \/ Outstanding(ticked) /\ userSaga'.status = "in_progress" /\ user' = user
             \/ ~Outstanding(ticked) /\ userSaga'.status = "completed" /\ user' = "absent"
      BY <1>0, <1>4, <2>3 DEF UserFinalize, Ms1OK, UserSaga
    <3> HIDE DEF ticked
    <3>4. \A s \in UserServices : ticked[s] # "none"
      BY <2>3, <3>2 DEF AccountInv
    <3>5. ~Outstanding(ticked) => \A s \in UserServices : ticked[s] = "completed"
      BY <3>2, <3>4 DEF Outstanding, StepStatus
    <3>6. user # "absent"
      BY <2>3 DEF AccountInv
    <3>7. \A s \in ResourceServices : userConfirmed'[s] > 0 \/ ticked[s] = "completed" => s \in userCleaned'
      BY <1>0, <1>4, <2>1, <3>2 DEF AccountInv, UserFinalize
    <3>8. account # "published"
      BY <2>3 DEF AccountInv
    <3> QED BY <2>1, <3>3, <3>4, <3>5, <3>6, <3>7, <3>8 DEF AccountInv
  <2> QED BY <1>4, <2>2, <2>3 DEF UserFinalize
<1>5. ASSUME UNCHANGED <<user, userSaga, userCleaned, userConfirmed>>, account' = account \/ account' = "idle"
      PROVE  AccountInv'
  BY <1>5, AccountSame
<1>6. ASSUME InitiatorNext PROVE AccountInv'
  <2>1. CASE InitiatorConfirm
    <3>1. \A s \in ResourceServices : userConfirmed'[s] = userConfirmed[s]
      BY <1>0, <2>1 DEF InitiatorConfirm, UserConfirm, ResourceServices, QueuesOK
    <3> QED BY <2>1, <3>1, AccountSame DEF InitiatorConfirm, ms1, history
  <2> QED BY <1>5, <1>6, <2>1 DEF InitiatorNext, InitiatorList, InitiatorCheck, InitiatorPublish, InitiatorCommit,
                                 ms1, queues, history
<1>7. ASSUME NEW d \in Deleters, DestroyNext(d) PROVE AccountInv'
  BY <1>5, <1>7 DEF DestroyNext, DestroyCheck, DestroySoft, DestroySaga, DestroyStep, DestroyPublish, DestroyRestore,
                    DestroyFail, ms1, queues, history
<1>8. ASSUME NEW s \in ProjectServices, NEW p \in Projects, Cleanup(s, p) \/ Finalize(s, p) \/ Republish(s, p) PROVE AccountInv'
  BY <1>5, <1>8 DEF Cleanup, Finalize, Republish, ms1, history
<1>9. CASE UserRequests
  BY <1>1, <1>5, <1>9 DEF UserRequests, CreateProject, EditLoad, DestroyLoad, ms1, queues, history
<1>10. ASSUME Faults PROVE AccountInv'
  <2>1. CASE AccountCrash
    BY <1>5, <2>1 DEF AccountCrash, queues, history
  <2> QED BY <1>5, <1>8, <1>10, <2>1 DEF Faults, DestroyCrash, InitiatorCrash, ms1, queues, history
<1>11. CASE EditSave
  BY <1>5, <1>11 DEF EditSave, ms1, queues, history
<1>12. CASE UNCHANGED vars
  BY <1>5, <1>12 DEF vars, ms1, queues, history
<1> QED BY <1>2, <1>3, <1>4, <1>6, <1>7, <1>8, <1>9, <1>10, <1>11, <1>12 DEF Next, Work

-----------------------------------------------------------------------------
(* The projects of an account.                                             *)

HasSaga(p) == \E i \in SagaIds : sagas[i].project = p

\* As long as nothing fails: there is one event for MS2, which its initiator handles once,
\* and every project that the initiator has listed has a saga or is still to get one.
ListInv ==
    /\ \/ account = "published" \/ userSaga.status # "none"
       \/ userAsked["ProjectService"] = 0 /\ userConfirmed["ProjectService"] = 0 /\ listed = {}
    /\ userAsked["ProjectService"] <= 1
    /\ userAsked["ProjectService"] = 1 =>
           userConfirmed["ProjectService"] = 0 /\ userSaga.steps["ProjectService"] # "completed"
    /\ initiator.step = "idle" => initiator.todo = {}
    /\ editor.step = "idle"
    /\ userAsked["ProjectService"] = 1 /\ initiator.step = "idle" => listed = {}
    /\ \A p \in listed : \/ HasSaga(p) \/ p \in initiator.todo
                         \/ initiator.step \in {"checked", "published"} /\ initiator.project = p
    /\ \A p \in listed : row[p] = "absent" => HasSaga(p)

LEMMA ListInit == Init => ListInv
  BY SagaAssumption DEF Init, ListInv, RestInit, RestEdit

LEMMA HasSagaStays == ASSUME Whole, NEW p \in Projects, HasSaga(p) PROVE HasSaga(p)'
<1>1. PICK i \in SagaIds : sagas[i].project = p
  BY DEF HasSaga
<1>2. sagas[i].status # "none"
  BY <1>1, SagaAssumption DEF Whole, WriterInv, SagasNamed
<1>3. sagas'[i].project = p
  BY <1>1, <1>2 DEF Whole, SagasStay
<1> QED BY <1>3 DEF HasSaga

\* Nothing else matters for it.
LEMMA ListSame ==
    ASSUME Whole, ListInv, UNCHANGED <<account, userSaga, listed, initiator, editor>>,
           userAsked'["ProjectService"] = userAsked["ProjectService"],
           userConfirmed'["ProjectService"] = userConfirmed["ProjectService"],
           \A p \in Projects : row'[p] = "absent" => row[p] = "absent" \/ HasSaga(p)
    PROVE  ListInv'
<1>1. listed \subseteq Projects
  BY DEF Whole, TypeInv, TypeOK, HistoryOK
<1>2. \A p \in listed : HasSaga(p) => HasSaga(p)'
  BY <1>1, HasSagaStays
<1> QED BY <1>1, <1>2 DEF ListInv

\* What the initiator does, between two events.
LEMMA ListInitiator ==
    ASSUME Whole, ListInv, InitiatorNext, mishaps' = 0
    PROVE  ListInv'
<1>0. /\ initiator \in Initiator /\ QueuesOK /\ mishaps \in Nat /\ listed \subseteq Projects
      /\ (initiator.step # "idle" => userAsked["ProjectService"] > 0)
      /\ userAsked["ProjectService"] \in Nat /\ userConfirmed["ProjectService"] \in Nat
      /\ row \in [Projects -> RowStatus] /\ sagas \in [SagaIds -> Saga]
  BY SagaAssumption DEF Whole, TypeInv, TypeOK, Ms2OK, QueuesOK, HistoryOK, Answerable
<1>1. \A p \in listed : HasSaga(p) => HasSaga(p)'
  BY <1>0, HasSagaStays
<1>2. CASE InitiatorList
  <2>1. PICK active : active = {p \in Projects : row[p] = "active"}
    OBVIOUS
  <2>2. /\ initiator'.step = "listed" /\ initiator'.todo = active /\ listed' = listed \cup active
        /\ UNCHANGED <<row, sagas, editor, account, userSaga, userAsked, userConfirmed>>
        /\ initiator.step = "idle" /\ userAsked["ProjectService"] > 0
    BY <1>2, <2>1 DEF InitiatorList, RestInit, ms1, queues
  <2>3. userAsked["ProjectService"] = 1 /\ listed = {}
    BY <1>0, <2>2 DEF ListInv
  <2> QED BY <2>1, <2>2, <2>3 DEF ListInv
<1>3. ASSUME NEW p \in Projects, InitiatorCheck(p) PROVE ListInv'
  <2>1. UNCHANGED <<row, sagas, editor, account, userSaga, userAsked, userConfirmed, listed>> /\ initiator.step = "listed"
    BY <1>3 DEF InitiatorCheck, ms1, queues
  <2>2. \A q : HasSaga(q)' <=> HasSaga(q)
    BY <2>1 DEF HasSaga
  <2>3. CASE InProgress(p) # {}
    <3>1. initiator'.step = "listed" /\ initiator'.todo = initiator.todo \ {p}
      BY <1>0, <1>3, <2>3 DEF InitiatorCheck, Initiator
    <3>2. HasSaga(p)
      BY <2>3 DEF HasSaga, InProgress
    <3> QED BY <2>1, <2>2, <3>1, <3>2 DEF ListInv
  <2>4. CASE InProgress(p) = {}
    <3>1. initiator'.step = "checked" /\ initiator'.project = p /\ initiator'.todo = initiator.todo \ {p}
      BY <1>3, <2>4 DEF InitiatorCheck
    <3> QED BY <2>1, <2>2, <3>1 DEF ListInv
  <2> QED BY <2>3, <2>4
<1>4. CASE InitiatorPublish
  <2>1. /\ UNCHANGED <<row, sagas, editor, account, userSaga, userAsked, userConfirmed, listed>> /\ initiator.step = "checked"
        /\ \/ row[initiator.project] = "absent" /\ initiator' = [initiator EXCEPT !.step = "listed", !.project = NoProject]
           \/ initiator' = [initiator EXCEPT !.step = "published"]
    BY <1>0, <1>4, NoMishap DEF InitiatorPublish, BackToList, ms1, history
  <2>2. \A q : HasSaga(q)' <=> HasSaga(q)
    BY <2>1 DEF HasSaga
  <2>3. CASE row[initiator.project] = "absent" /\ initiator' = [initiator EXCEPT !.step = "listed", !.project = NoProject]
    <3>1. initiator'.step = "listed" /\ initiator'.todo = initiator.todo
      BY <1>0, <2>3 DEF Initiator
    <3>2. \A p \in listed : HasSaga(p) \/ p \in initiator.todo
      BY <2>1, <2>3 DEF ListInv
    <3> QED BY <2>1, <2>2, <3>1, <3>2 DEF ListInv
  <2>4. CASE initiator' = [initiator EXCEPT !.step = "published"]
    <3>1. initiator'.step = "published" /\ initiator'.todo = initiator.todo /\ initiator'.project = initiator.project
      BY <1>0, <2>4 DEF Initiator
    <3> QED BY <2>1, <2>2, <3>1 DEF ListInv
  <2> QED BY <2>1, <2>3, <2>4
<1>5. CASE InitiatorCommit
  <2>1. /\ UNCHANGED <<editor, account, userSaga, userAsked, userConfirmed, listed>> /\ initiator.step = "published"
        /\ row' = [row EXCEPT ![initiator.project] = "pending_deletion"]
        /\ initiator' = [initiator EXCEPT !.step = "listed", !.project = NoProject]
    BY <1>5 DEF InitiatorCommit, BackToList, ms1, queues, history
  <2>2. initiator'.step = "listed" /\ initiator'.todo = initiator.todo
    BY <1>0, <2>1 DEF Initiator
  <2>3. PICK i \in SagaIds : sagas'[i].project = initiator.project
    BY <1>0, <1>5 DEF InitiatorCommit
  <2>4. \A p \in listed : row'[p] = "absent" => row[p] = "absent"
    BY <1>0, <2>1
  <2>5. \A p \in listed : p = initiator.project => HasSaga(p)'
    BY <2>3 DEF HasSaga
  <2> QED BY <1>1, <2>1, <2>2, <2>4, <2>5 DEF ListInv
<1>6. CASE InitiatorConfirm
  <2>1. /\ UNCHANGED <<row, sagas, editor, account, userSaga, listed>> /\ initiator.step = "listed" /\ initiator.todo = {}
        /\ userAsked' = [userAsked EXCEPT !["ProjectService"] = @ - 1] /\ initiator' = RestInit
    BY <1>0, <1>6, NoMishap DEF InitiatorConfirm, ms1, history
  <2>2. userAsked'["ProjectService"] = 0 /\ userAsked["ProjectService"] = 1
    <3>1. userAsked["ProjectService"] = 1
      BY <1>0, <2>1 DEF ListInv
    <3>2. userAsked'["ProjectService"] = userAsked["ProjectService"] - 1
      BY <1>0, <2>1, SagaAssumption DEF QueuesOK
    <3> QED BY <3>1, <3>2
  <2>3. account = "published" \/ userSaga.status # "none"
    BY <2>2 DEF ListInv
  <2>4. \A p \in listed : HasSaga(p)
    BY <2>1 DEF ListInv
  <2>5. initiator'.step = "idle" /\ initiator'.todo = {}
    BY <2>1 DEF RestInit
  <2> QED BY <1>1, <2>1, <2>2, <2>3, <2>4, <2>5 DEF ListInv
<1> QED BY <1>2, <1>3, <1>4, <1>5, <1>6 DEF InitiatorNext

LEMMA ListAccount ==
    ASSUME Whole, AccountInv, ListInv, mishaps' = 0,
           AccountPublish \/ AccountCommit \/ \E s \in UserServices : UserFinalize(s)
    PROVE  ListInv'
<1>0. /\ QueuesOK /\ mishaps \in Nat /\ listed \subseteq Projects
      /\ "ProjectService" \in UserServices /\ userSaga \in UserSaga
      /\ userAsked["ProjectService"] \in Nat /\ userConfirmed["ProjectService"] \in Nat
  BY SagaAssumption DEF Whole, TypeInv, TypeOK, Ms1OK, QueuesOK, HistoryOK
<1>1. \A p : UNCHANGED sagas => (HasSaga(p)' <=> HasSaga(p))
  BY DEF HasSaga
<1>2. CASE AccountPublish
  <2>1. /\ UNCHANGED <<row, sagas, editor, initiator, userSaga, listed, userConfirmed>> /\ account' = "published"
        /\ account = "idle" /\ userSaga.status = "none" /\ userAsked' = [s \in UserServices |-> userAsked[s] + 1]
    BY <1>0, <1>2, NoMishap DEF AccountPublish, UserAnnounced, ms2, history
  <2>2. userAsked["ProjectService"] = 0 /\ userConfirmed["ProjectService"] = 0 /\ listed = {}
    BY <2>1 DEF ListInv
  <2>3. userAsked'["ProjectService"] = 1
    BY <1>0, <2>1, <2>2
  <2>4. userSaga.steps["ProjectService"] = "none"
    BY <1>0, <2>1 DEF AccountInv
  <2> QED BY <2>1, <2>2, <2>3, <2>4 DEF ListInv
<1>3. CASE AccountCommit
  <2>1. /\ UNCHANGED <<row, sagas, editor, initiator, listed, userConfirmed, userAsked>> /\ account' = "idle"
        /\ userSaga'.status = "in_progress" /\ userSaga'.steps["ProjectService"] = "pending"
    BY <1>0, <1>3 DEF AccountCommit, ms2, queues, history
  <2> QED BY <1>1, <2>1 DEF ListInv
<1>4. ASSUME NEW s \in UserServices, UserFinalize(s) PROVE ListInv'
  <2>1. /\ UNCHANGED <<row, sagas, editor, initiator, account, listed, userAsked>> /\ userConfirmed[s] > 0
        /\ userConfirmed' = [userConfirmed EXCEPT ![s] = @ - 1]
    BY <1>0, <1>4, NoMishap DEF UserFinalize, ms2, history
  <2>2. userSaga' = userSaga \/ (userSaga.status # "none" /\ userSaga'.status # "none")
    BY <1>0, <1>4 DEF UserFinalize, UserSaga
  <2>3. CASE s = "ProjectService"
    <3>1. userAsked["ProjectService"] = 0
      BY <1>0, <2>1, <2>3 DEF ListInv
    <3>2. account = "published" \/ userSaga.status # "none"
      BY <2>1, <2>3, <1>0 DEF ListInv
    <3> QED BY <1>1, <2>1, <2>2, <3>1, <3>2 DEF ListInv
  <2>4. CASE s # "ProjectService"
    <3>1. userConfirmed'["ProjectService"] = userConfirmed["ProjectService"]
      BY <1>0, <2>1, <2>4 DEF QueuesOK
    <3>2. userSaga'.steps["ProjectService"] = userSaga.steps["ProjectService"]
      BY <1>0, <1>4, <2>4 DEF UserFinalize, UserSaga
    <3> QED BY <1>1, <2>1, <2>2, <3>1, <3>2 DEF ListInv
  <2> QED BY <2>3, <2>4
<1> QED BY <1>2, <1>3, <1>4

LEMMA ListStep == ASSUME Whole, AccountInv, mishaps = 0 => ListInv, [Next]_vars PROVE mishaps' = 0 => ListInv'
<1>0. /\ mishaps \in Nat /\ row \in [Projects -> RowStatus] /\ QueuesOK
      /\ \A d \in Deleters : destroyer[d].step # "idle" => destroyer[d].project \in Projects
  BY DEF Whole, TypeInv, TypeOK, Ms2OK, QueuesOK, Addressed
<1>1. mishaps' = 0 => mishaps = 0
  <2>1. Mishap \/ UNCHANGED mishaps
    BY DEF Next, Faults, UserRequests, Work, InitiatorCrash, AccountCrash, Republish, CreateProject, EditLoad,
           AccountPublish, vars, EditSave, AccountCommit, Cleanup, Finalize, UserCleanup, UserFinalize,
           InitiatorNext, InitiatorList, InitiatorCheck, InitiatorPublish, InitiatorCommit, InitiatorConfirm,
           DestroyNext, DestroyCheck, DestroySoft, DestroySaga, DestroyStep, DestroyPublish, DestroyRestore, DestroyFail,
           DestroyLoad, DestroyCrash
  <2> QED BY <1>0, <2>1, NoMishap
<1> SUFFICES ASSUME mishaps' = 0, ListInv PROVE ListInv'
  BY <1>1
<1>2. ASSUME NEW d \in Deleters, DestroyNext(d) \/ (\E p \in Projects : DestroyLoad(d, p)) PROVE ListInv'
  <2>1. UNCHANGED <<account, userSaga, listed, initiator, editor, userAsked, userConfirmed>>
    BY <1>2 DEF DestroyNext, DestroyCheck, DestroySoft, DestroySaga, DestroyStep, DestroyPublish, DestroyRestore,
                DestroyFail, DestroyLoad, ms1, queues, history
  <2>2. row' = row \/ \E t \in {"active", "pending_deletion"} : row' = [row EXCEPT ![destroyer[d].project] = t]
    BY <1>2 DEF DestroyNext, DestroyCheck, DestroySoft, DestroySaga, DestroyStep, DestroyPublish, DestroyRestore,
                DestroyFail, DestroyLoad
  <2>3. \A p \in Projects : row'[p] = "absent" => row[p] = "absent"
    BY <1>0, <2>2
  <2> QED BY <2>1, <2>3, ListSame
<1>3. ASSUME NEW s \in ProjectServices, NEW q \in Projects, Cleanup(s, q) \/ Finalize(s, q) PROVE ListInv'
  <2>1. UNCHANGED <<account, userSaga, listed, initiator, editor, userAsked, userConfirmed>>
    BY <1>3 DEF Cleanup, Finalize, ms1, ms2
  <2>2. row' = row \/ (InProgress(q) # {} /\ row' = [row EXCEPT ![q] = "absent"])
    BY <1>3 DEF Cleanup, Finalize, ms2
  <2>3. \A p \in Projects : row'[p] = "absent" => row[p] = "absent" \/ HasSaga(p)
    BY <1>0, <2>2 DEF HasSaga, InProgress
  <2> QED BY <2>1, <2>3, ListSame
<1>4. ASSUME NEW s \in ResourceServices, UserCleanup(s) PROVE ListInv'
  <2>1. UNCHANGED <<row, account, userSaga, listed, initiator, editor>>
    BY <1>4 DEF UserCleanup, ms1, ms2
  <2>2. /\ userAsked'["ProjectService"] = userAsked["ProjectService"]
        /\ userConfirmed'["ProjectService"] = userConfirmed["ProjectService"]
    <3>1. s # "ProjectService" /\ "ProjectService" \in UserServices
      BY SagaAssumption DEF ResourceServices
    <3>2. userAsked' = [userAsked EXCEPT ![s] = @ - 1] \/ userAsked' = userAsked
      BY <1>4 DEF UserCleanup
    <3>3. userConfirmed' = [userConfirmed EXCEPT ![s] = @ + 1] \/ userConfirmed' = userConfirmed
      BY <1>4 DEF UserCleanup, UserConfirm
    <3> QED BY <1>0, <3>1, <3>2, <3>3 DEF QueuesOK
  <2> QED BY <2>1, <2>2, ListSame
<1>5. ASSUME NEW p \in Projects, CreateProject(p) PROVE ListInv'
  BY <1>0, <1>5, ListSame DEF CreateProject, ms1, queues
<1>6. ~(\E p \in Projects : EditLoad(p)) /\ ~EditSave
  BY <1>0, NoMishap DEF EditLoad, EditSave, ListInv
<1>7. ~Faults
  BY <1>0, NoMishap DEF Faults, DestroyCrash, InitiatorCrash, AccountCrash, Republish
<1>8. CASE UNCHANGED vars
  BY <1>8, ListSame DEF vars, ms1, ms2, queues, history
<1>9. CASE UserRequests
  BY <1>2, <1>5, <1>6, <1>9, ListAccount DEF UserRequests
<1>10. CASE Work
  BY <1>2, <1>3, <1>4, <1>6, <1>10, ListAccount, ListInitiator DEF Work
<1> QED BY <1>7, <1>8, <1>9, <1>10 DEF Next

\* AccountTakesAll: an account that is gone took along what the services keep for it and,
\* if nothing failed, started a saga for every project found, for any services, projects
\* and requests.
THEOREM AccountTakesEverything == Spec => []AccountTakesAll
<1> DEFINE Inv == TypeInv /\ WriterInv /\ AccountInv /\ (mishaps = 0 => ListInv)
<1>1. Inv => AccountTakesAll
  <2> SUFFICES ASSUME Inv, user = "absent" PROVE userCleaned = ResourceServices /\ (mishaps = 0 => \A p \in listed : HasSaga(p))
    BY DEF AccountTakesAll, HasSaga
  <2>1. \A s \in UserServices : userSaga.steps[s] = "completed"
    BY DEF AccountInv
  <2>2. userCleaned = ResourceServices
    BY <2>1 DEF AccountInv, TypeInv, TypeOK, HistoryOK, ResourceServices
  <2>3. ASSUME mishaps = 0 PROVE \A p \in listed : HasSaga(p)
    <3>1. userAsked["ProjectService"] = 0
      BY <2>1, <2>3, SagaAssumption DEF ListInv, TypeInv, TypeOK, QueuesOK
    <3>2. initiator.step = "idle"
      BY <3>1 DEF TypeInv, Answerable
    <3> QED BY <2>3, <3>2 DEF ListInv
  <2> QED BY <2>2, <2>3
<1>2. Init => Inv
  BY InitType, WriterInit, AccountInit, ListInit DEF TypeInv
<1>3. Inv /\ [Next]_vars => Inv'
  <2> SUFFICES ASSUME Inv, [Next]_vars PROVE Inv'
    OBVIOUS
  <2>1. TypeInv' /\ WriterInv' /\ AccountInv'
    BY TypeStep, WriterStep, AccountStep DEF TypeInv
  <2>2. Whole
    BY <2>1, SagasAlwaysStay DEF Whole, TypeInv, WriterInv
  <2>3. mishaps' = 0 => ListInv'
    BY <2>2, ListStep
  <2> QED BY <2>1, <2>3
<1> HIDE DEF Inv
<1> QED BY <1>1, <1>2, <1>3, PTL DEF Spec
=============================================================================
