------------------------- MODULE ModelRuntime_proofs -------------------------
(***************************************************************************)
(* Proof that the local model runtime leaves neither addresses nor         *)
(* containers behind, for any number of instances, any deployment sizes    *)
(* and any number of processes that die and jobs that come twice; and that *)
(* the scenes of MCInference, which play it beside the inference and the   *)
(* tools, keep what each of them promises.                                 *)
(***************************************************************************)
EXTENDS MCInference, Inference_proofs

Deploy == [at: {"idle", "asking", "starting", "waiting", "activating", "reading", "routing"},
           held: 0..MaxInstances, left: 0..MaxInstances, ends: SUBSET Instances]
Stop == [at: {"idle", "removing", "saving", "routing"}, left: SUBSET Instances, path: BOOLEAN]
Checker == [at: {"idle", "cycling", "routing", "pruning", "reverting", "clearing"},
            left: SUBSET Instances, seen: [Instances -> ModelInstance],
            of: 0..MaxInstances, path: BOOLEAN]

\* A download in hand is still in the queue; an instance is held exactly while it is waited
\* for; a deployment that starts instances has one left to start; a route is one of an instance.
InStep ==
    /\ worker.busy => downloads > 0
    /\ deploy.at = "waiting" <=> deploy.held # 0
    /\ deploy.at \in {"asking", "starting"} => deploy.left > 0
    /\ checker.at = "routing" => checker.of # 0

RuntimeTypeInv == RuntimeTypeOK /\ InStep

\* As long as no stop has met a deployment or a cycle: a stop is alone, what the two others
\* hold is recorded, and what is recorded has a container.
Alone == stop # NoStop => deploy = NoDeploy /\ checker = NoCycle
HoldsRecorded ==
    /\ deploy.ends \subseteq Recorded
    /\ checker.left \subseteq Recorded
    /\ checker.at = "routing" => checker.of \in Recorded
RoutesRecorded == stop = NoStop => \A a \in routes : a[1] \in Recorded
HasContainer ==
    /\ \A i \in Recorded : container[i] \in {"up", "exited"}
    /\ deploy.held # 0 => container[deploy.held] = "starting"

Unraced == Alone /\ HoldsRecorded /\ RoutesRecorded /\ HasContainer

\* A container that has been started is recorded or held.
Accounted ==
    \A i \in Instances :
        container[i] \in {"starting", "up", "exited"} => i \in Recorded \/ i = deploy.held

RuntimeInv == (raced \/ Unraced) /\ (leaked \/ Accounted)

LEMMA InvEnough == ASSUME RuntimeTypeInv, RuntimeInv PROVE RuntimeRecorded
  BY DEF RuntimeInv, Unraced, RoutesRecorded, HasContainer, Accounted, RuntimeRecorded

-----------------------------------------------------------------------------
(* Types.                                                                  *)

LEMMA IdleProcesses ==
    /\ NoDeploy \in Deploy /\ NoDeploy.at = "idle" /\ NoDeploy.held = 0 /\ NoDeploy.ends = {}
    /\ NoStop \in Stop /\ NoStop.at = "idle"
    /\ NoCycle \in Checker /\ NoCycle.at = "idle" /\ NoCycle.left = {}
<1>1. NoDeploy \in Deploy /\ NoDeploy.at = "idle" /\ NoDeploy.held = 0 /\ NoDeploy.ends = {}
  BY RuntimeAssumption DEF NoDeploy, Deploy
<1>2. NoStop \in Stop /\ NoStop.at = "idle"
  BY DEF NoStop, Stop
<1>3. NoCycle \in Checker /\ NoCycle.at = "idle" /\ NoCycle.left = {}
  <2>1. [i \in Instances |-> "none"] \in [Instances -> ModelInstance]
    BY DEF ModelInstance
  <2> QED BY <2>1, RuntimeAssumption DEF NoCycle, Checker
<1> QED BY <1>1, <1>2, <1>3

ModelOK == model \in LocalModel /\ downloads \in Nat /\ worker \in [busy: BOOLEAN, path: BOOLEAN]
InstancesOK ==
    /\ row \in [Instances -> ModelInstance]
    /\ container \in [Instances -> {"none", "starting", "up", "exited", "removed"}]
    /\ routes \subseteq Address
ProcessesOK == deploy \in Deploy /\ stop \in Stop /\ checker \in Checker
HistoryOK == raced \in BOOLEAN /\ leaked \in BOOLEAN /\ troubles \in 0..MaxTroubles

LEMMA TypeParts ==
    /\ RuntimeTypeOK <=> ModelOK /\ InstancesOK /\ ProcessesOK /\ HistoryOK
    /\ RuntimeTypeOK' <=> ModelOK' /\ InstancesOK' /\ ProcessesOK' /\ HistoryOK'
  BY DEF RuntimeTypeOK, ModelOK, InstancesOK, ProcessesOK, HistoryOK, Deploy, Stop, Checker

modelVars == <<model, downloads, worker>>
instanceVars == <<row, container, routes>>
processVars == <<deploy, stop, checker>>

LEMMA ModelRow ==
    ASSUME NEW s \in {"none", "downloading", "downloaded", "error", "active", "not_installed"},
           NEW p \in BOOLEAN
    PROVE  [status |-> s, path |-> p] \in LocalModel
  BY DEF LocalModel

LEMMA TroubleType == ASSUME HistoryOK, Trouble PROVE troubles' \in 0..MaxTroubles
  BY RuntimeAssumption DEF HistoryOK, Trouble

LEMMA RowsType ==
    ASSUME InstancesOK
    PROVE  /\ Recorded \subseteq Instances
           /\ [i \in Instances |-> row[i]] = row
  BY DEF InstancesOK, Recorded

LEMMA RuntimeInitInv == RuntimeInit => RuntimeTypeInv /\ RuntimeInv
<1> SUFFICES ASSUME RuntimeInit PROVE RuntimeTypeInv /\ RuntimeInv
  OBVIOUS
<1>1. ModelOK
  BY DEF RuntimeInit, ModelOK, LocalModel
<1>2. InstancesOK
  BY DEF RuntimeInit, InstancesOK, ModelInstance
<1>3. ProcessesOK /\ HistoryOK
  BY IdleProcesses, RuntimeAssumption DEF RuntimeInit, ProcessesOK, HistoryOK
<1>4. InStep
  BY IdleProcesses DEF RuntimeInit, InStep
<1>5. Recorded = {} /\ \A i \in Instances : container[i] \in {"none", "removed"}
  BY DEF RuntimeInit, Recorded
<1>6. Unraced /\ Accounted
  BY <1>5, IdleProcesses DEF RuntimeInit, Unraced, Alone, HoldsRecorded, RoutesRecorded, HasContainer, Accounted
<1> QED BY <1>1, <1>2, <1>3, <1>4, <1>6, TypeParts DEF RuntimeTypeInv, RuntimeInv

-----------------------------------------------------------------------------
(* Downloading touches neither instances nor processes.                    *)

Downloading == InitiateDownload \/ TakeDownload \/ DownloadEnds \/ WorkerDies \/ JobSentTwice

LEMMA DownloadingInv ==
    ASSUME RuntimeTypeInv, RuntimeInv, Downloading
    PROVE  RuntimeTypeInv' /\ RuntimeInv'
<1>0. ModelOK /\ InstancesOK /\ ProcessesOK /\ HistoryOK /\ InStep
  BY TypeParts DEF RuntimeTypeInv
<1>1. UNCHANGED <<instanceVars, processVars, raced, leaked>>
  BY DEF Downloading, InitiateDownload, TakeDownload, DownloadEnds, WorkerDies, JobSentTwice,
         instanceVars, processVars
<1>2. RuntimeInv'
  BY <1>1 DEF RuntimeInv, Unraced, Alone, HoldsRecorded, RoutesRecorded, HasContainer, Accounted,
              Recorded, instanceVars, processVars
<1>3. InstancesOK' /\ ProcessesOK'
  BY <1>0, <1>1 DEF InstancesOK, ProcessesOK, instanceVars, processVars
<1>4. HistoryOK'
  <2>1. troubles' \in 0..MaxTroubles
    BY <1>0, TroubleType DEF Downloading, InitiateDownload, TakeDownload, DownloadEnds, WorkerDies,
                             JobSentTwice, HistoryOK
  <2> QED BY <1>0, <1>1, <2>1 DEF HistoryOK
<1>5. ModelOK' /\ (worker.busy => downloads > 0)'
  <2>1. CASE InitiateDownload
    BY <1>0, <2>1 DEF InitiateDownload, ModelOK, InStep, LocalModel
  <2>2. CASE TakeDownload
    BY <1>0, <2>2 DEF TakeDownload, ModelOK, LocalModel
  <2>3. CASE DownloadEnds
    <3>1. downloads' \in Nat
      BY <1>0, <2>3 DEF DownloadEnds, ModelOK, InStep
    <3>2. model' \in LocalModel
      <4>1. worker.path \in BOOLEAN
        BY <1>0 DEF ModelOK
      <4> QED BY <2>3, <4>1, ModelRow DEF DownloadEnds
    <3>3. worker' = [busy |-> FALSE, path |-> FALSE]
      BY <2>3 DEF DownloadEnds
    <3> QED BY <3>1, <3>2, <3>3 DEF ModelOK
  <2>4. CASE WorkerDies
    BY <1>0, <2>4 DEF WorkerDies, ModelOK
  <2>5. CASE JobSentTwice
    BY <1>0, <2>5 DEF JobSentTwice, ModelOK, InStep
  <2> QED BY <2>1, <2>2, <2>3, <2>4, <2>5 DEF Downloading
<1>6. InStep'
  BY <1>0, <1>1, <1>5 DEF InStep, processVars
<1> QED BY <1>2, <1>3, <1>4, <1>5, <1>6, TypeParts DEF RuntimeTypeInv

-----------------------------------------------------------------------------
(* Deploying.                                                              *)

\* What the deployment, a stop and the checker leave of the model's own row is a row.
LEMMA ModelKept ==
    ASSUME ModelOK, worker.busy => downloads > 0, UNCHANGED <<downloads, worker>>, model' \in LocalModel
    PROVE  ModelOK' /\ (worker.busy => downloads > 0)'
  BY DEF ModelOK

Deploying ==
    \/ \E n \in Sizes : DeployModel(n)
    \/ FetchBlueprint \/ RunContainer \/ RecordInstance \/ StartFails \/ Activate
    \/ ReadEndpoints \/ UpdateRoutes \/ DeployDies

LEMMA DeployStays ==
    ASSUME RuntimeTypeInv, Deploying
    PROVE  /\ UNCHANGED <<downloads, worker, stop, checker>>
           /\ model' \in LocalModel /\ HistoryOK'
<1>1. UNCHANGED <<downloads, worker, stop, checker>>
  BY DEF Deploying, DeployModel, FetchBlueprint, RunContainer, RecordInstance, StartFails, Activate,
         ReadEndpoints, UpdateRoutes, DeployDies
<1>2. model' \in LocalModel
  <2>1. model \in LocalModel
    BY DEF RuntimeTypeInv, RuntimeTypeOK
  <2>2. model' = model \/ model' = [status |-> "active", path |-> TRUE]
    BY DEF Deploying, DeployModel, FetchBlueprint, RunContainer, RecordInstance, StartFails, Activate,
           ReadEndpoints, UpdateRoutes, DeployDies
  <2> QED BY <2>1, <2>2, ModelRow
<1>3. HistoryOK'
  <2>0. HistoryOK
    BY TypeParts DEF RuntimeTypeInv
  <2>1. troubles' \in 0..MaxTroubles
    BY <2>0, TroubleType
    DEF Deploying, DeployModel, FetchBlueprint, RunContainer, RecordInstance, StartFails, Activate,
        ReadEndpoints, UpdateRoutes, DeployDies, HistoryOK
  <2>2. raced' = raced \/ raced' = (raced \/ stop # NoStop)
    BY DEF Deploying, DeployModel, FetchBlueprint, RunContainer, RecordInstance, StartFails, Activate,
           ReadEndpoints, UpdateRoutes, DeployDies
  <2>3. leaked' = leaked \/ leaked' = (leaked \/ deploy.held # 0)
    BY DEF Deploying, DeployModel, FetchBlueprint, RunContainer, RecordInstance, StartFails, Activate,
           ReadEndpoints, UpdateRoutes, DeployDies
  <2> QED BY <2>0, <2>1, <2>2, <2>3 DEF HistoryOK
<1> QED BY <1>1, <1>2, <1>3

\* What a step of the deployment has to leave.
DeployOK == deploy \in Deploy /\ (deploy.at = "waiting" <=> deploy.held # 0)
                /\ (deploy.at \in {"asking", "starting"} => deploy.left > 0)

LEMMA DeployParts ==
    ASSUME RuntimeTypeInv, Deploying, InstancesOK', DeployOK'
    PROVE  RuntimeTypeInv'
<1>0. ModelOK /\ ProcessesOK /\ InStep
  BY TypeParts DEF RuntimeTypeInv
<1>1. UNCHANGED <<downloads, worker, stop, checker>> /\ model' \in LocalModel /\ HistoryOK'
  BY DeployStays
<1>2. ModelOK' /\ (worker.busy => downloads > 0)'
  BY <1>0, <1>1, ModelKept DEF InStep
<1>3. ProcessesOK'
  BY <1>0, <1>1 DEF ProcessesOK, DeployOK
<1>4. InStep'
  BY <1>0, <1>1, <1>2 DEF InStep, DeployOK
<1> QED BY <1>1, <1>2, <1>3, <1>4, TypeParts DEF RuntimeTypeInv

\* A deployment that moves on while its instances and what it holds stay.
LEMMA DeployMoves ==
    ASSUME RuntimeInv, deploy # NoDeploy, UNCHANGED <<instanceVars, stop, checker, raced, leaked>>,
           deploy'.held = deploy.held, Unraced => deploy'.ends \subseteq Recorded
    PROVE  RuntimeInv'
<1>1. stop # NoStop => raced \/ (deploy = NoDeploy /\ checker = NoCycle)
  BY DEF RuntimeInv, Unraced, Alone
<1>2. Recorded' = Recorded
  BY DEF Recorded, instanceVars
<1>3. Accounted => Accounted'
  BY <1>2 DEF Accounted, instanceVars
<1>4. Unraced /\ stop = NoStop => Unraced'
  BY <1>2 DEF Unraced, Alone, HoldsRecorded, RoutesRecorded, HasContainer, instanceVars
<1> QED BY <1>1, <1>3, <1>4 DEF RuntimeInv

LEMMA DeployingInv ==
    ASSUME RuntimeTypeInv, RuntimeInv, Deploying
    PROVE  RuntimeTypeInv' /\ RuntimeInv'
<1>0. InstancesOK /\ ProcessesOK /\ InStep /\ deploy \in Deploy
  BY TypeParts DEF RuntimeTypeInv, ProcessesOK
<1>00. UNCHANGED <<stop, checker>>
  BY DeployStays
<1>1. ASSUME NEW n \in Sizes, DeployModel(n) PROVE RuntimeTypeInv' /\ RuntimeInv'
  <2>1. n \in 1..MaxInstances
    BY RuntimeAssumption
  <2>2. deploy' \in Deploy /\ deploy'.at = "asking" /\ deploy'.held = 0 /\ deploy'.left = n
        /\ deploy'.ends = {}
    <3>1. deploy' = [at |-> "asking", held |-> 0, left |-> n, ends |-> {}]
      BY <1>1 DEF DeployModel, NoDeploy
    <3> QED BY <2>1, <3>1, RuntimeAssumption DEF Deploy
  <2>3. InstancesOK' /\ DeployOK'
    BY <1>0, <1>1, <2>1, <2>2 DEF DeployModel, InstancesOK, DeployOK
  <2>4. Accounted => Accounted'
    BY <1>1, <2>2, IdleProcesses DEF DeployModel, Accounted, Recorded
  <2>5. Unraced /\ stop = NoStop => Unraced'
    BY <1>1, <2>2, IdleProcesses DEF DeployModel, Unraced, Alone, HoldsRecorded, RoutesRecorded, HasContainer, Recorded
  <2>6. (raced' <=> raced \/ stop # NoStop) /\ leaked' = leaked
    BY <1>1 DEF DeployModel
  <2>7. RuntimeInv'
    BY <2>4, <2>5, <2>6 DEF RuntimeInv
  <2> QED BY <2>3, <2>7, DeployParts
<1>2. CASE FetchBlueprint
  <2>1. deploy # NoDeploy /\ deploy.held = 0 /\ deploy.left > 0
    BY <1>0, <1>2, IdleProcesses DEF FetchBlueprint, InStep
  <2>2. /\ deploy' \in Deploy /\ deploy'.held = 0
        /\ deploy'.at \in {"starting", "idle"} /\ (deploy'.at = "starting" => deploy'.left = deploy.left)
        /\ deploy'.ends \subseteq deploy.ends
    BY <1>0, <1>2, <2>1, IdleProcesses DEF FetchBlueprint, Deploy
  <2>3. InstancesOK' /\ DeployOK'
    BY <1>0, <1>2, <2>1, <2>2 DEF FetchBlueprint, InstancesOK, DeployOK
  <2>4. UNCHANGED <<instanceVars, stop, checker, raced, leaked>>
    BY <1>2 DEF FetchBlueprint, instanceVars
  <2>5. RuntimeInv'
    <3>1. Unraced => deploy'.ends \subseteq Recorded
      BY <2>2 DEF Unraced, HoldsRecorded
    <3> QED BY <2>1, <2>2, <2>4, <3>1, DeployMoves
  <2> QED BY <2>3, <2>5, DeployParts
<1>3. CASE RunContainer
  <2>1. deploy # NoDeploy /\ deploy.held = 0 /\ deploy.left > 0 /\ deploy.left \in 0..MaxInstances
    BY <1>0, <1>3, IdleProcesses DEF RunContainer, InStep, Deploy
  <2>2. CASE deploy' = NoDeploy /\ UNCHANGED container
    <3>1. InstancesOK' /\ DeployOK'
      BY <1>0, <1>3, <2>2, IdleProcesses DEF RunContainer, InstancesOK, DeployOK
    <3>2. RuntimeInv'
      BY <1>3, <2>1, <2>2, IdleProcesses, DeployMoves DEF RunContainer, instanceVars
    <3> QED BY <3>1, <3>2, DeployParts
  <2>3. ASSUME NEW i \in Instances, container[i] = "none", container' = [container EXCEPT ![i] = "starting"],
               deploy' = [deploy EXCEPT !.at = "waiting", !.held = i, !.left = @ - 1]
        PROVE  RuntimeTypeInv' /\ RuntimeInv'
    <3>1. /\ deploy' \in Deploy /\ deploy'.at = "waiting" /\ deploy'.held = i /\ deploy'.ends = deploy.ends
          /\ i # 0
      <4>1. deploy' = [at |-> "waiting", held |-> i, left |-> deploy.left - 1, ends |-> deploy.ends]
        BY <1>0, <2>3 DEF Deploy
      <4>2. i \in 0..MaxInstances /\ i # 0 /\ deploy.left - 1 \in 0..MaxInstances
        BY <2>1, RuntimeAssumption DEF Instances
      <4>3. deploy.ends \subseteq Instances
        BY <1>0 DEF Deploy
      <4> QED BY <4>1, <4>2, <4>3 DEF Deploy
    <3>2. InstancesOK' /\ DeployOK'
      BY <1>0, <1>3, <2>3, <3>1 DEF RunContainer, InstancesOK, DeployOK
    <3>3. UNCHANGED <<row, routes, raced, leaked>> /\ Recorded' = Recorded
      BY <1>3 DEF RunContainer, Recorded
    <3>4. Accounted => Accounted'
      BY <1>0, <2>1, <2>3, <3>1, <3>3 DEF Accounted, InstancesOK, Instances
    <3>5. Unraced => Unraced'
      <4>1. Alone => Alone'
        BY <1>00, <2>1 DEF Alone
      <4>2. HoldsRecorded => HoldsRecorded'
        BY <1>00, <3>1, <3>3 DEF HoldsRecorded
      <4>3. RoutesRecorded => RoutesRecorded'
        BY <1>00, <3>3 DEF RoutesRecorded
      <4>4. HasContainer => HasContainer'
        BY <1>0, <2>3, <3>1, <3>3 DEF HasContainer, InstancesOK
      <4> QED BY <4>1, <4>2, <4>3, <4>4 DEF Unraced
    <3>6. RuntimeInv'
      BY <3>3, <3>4, <3>5 DEF RuntimeInv
    <3> QED BY <3>2, <3>6, DeployParts
  <2>4. ASSUME NEW i \in Instances, \A n \in Instances : container[n] = "none" <=> n >= i
        PROVE  container[i] = "none"
    BY <2>4, RuntimeAssumption DEF Instances
  <2> QED BY <1>3, <2>2, <2>3, <2>4 DEF RunContainer
<1>4. CASE RecordInstance
  <2> DEFINE i == deploy.held
  <2>1. deploy # NoDeploy /\ i \in Instances
    BY <1>0, <1>4, IdleProcesses, RuntimeAssumption DEF RecordInstance, InStep, Deploy, Instances
  <2>2. /\ deploy' \in Deploy /\ deploy'.held = 0 /\ deploy'.ends = deploy.ends
        /\ deploy'.at = IF deploy.left > 0 THEN "starting" ELSE "activating"
        /\ deploy'.left = deploy.left
    <3> DEFINE at == IF deploy.left > 0 THEN "starting" ELSE "activating"
    <3>1. deploy' = [at |-> at, held |-> 0, left |-> deploy.left, ends |-> deploy.ends]
      BY <1>0, <1>4 DEF RecordInstance, Deploy
    <3>2. deploy.left \in 0..MaxInstances /\ deploy.ends \subseteq Instances /\ 0 \in 0..MaxInstances
      BY <1>0, RuntimeAssumption DEF Deploy
    <3>3. at \in {"starting", "activating"}
      OBVIOUS
    <3> HIDE DEF at
    <3>4. deploy' \in Deploy /\ deploy'.held = 0 /\ deploy'.ends = deploy.ends /\ deploy'.at = at
          /\ deploy'.left = deploy.left
      BY <3>1, <3>2, <3>3 DEF Deploy
    <3> QED BY <3>4 DEF at
  <2>3. container' = [container EXCEPT ![i] = "up"] /\ row' = [row EXCEPT ![i] = "healthy"]
        /\ UNCHANGED <<routes, raced, leaked>>
    BY <1>4 DEF RecordInstance
  <2> HIDE DEF i
  <2>4. InstancesOK' /\ DeployOK'
    BY <1>0, <2>1, <2>2, <2>3 DEF InstancesOK, DeployOK, ModelInstance
  <2>5. Recorded' = Recorded \cup {i}
    BY <1>0, <2>1, <2>3 DEF Recorded, InstancesOK
  <2>6. Accounted => Accounted'
    <3>1. i = deploy.held
      BY <1>4 DEF i
    <3> QED BY <1>0, <2>2, <2>3, <2>5, <3>1 DEF Accounted, InstancesOK
  <2>7. Unraced => Unraced'
    <3>1. Alone => Alone'
      BY <1>00, <2>1 DEF Alone
    <3>2. HoldsRecorded => HoldsRecorded'
      BY <1>00, <2>2, <2>5 DEF HoldsRecorded
    <3>3. RoutesRecorded => RoutesRecorded'
      BY <1>00, <2>3, <2>5 DEF RoutesRecorded
    <3>4. HasContainer => HasContainer'
      BY <1>0, <2>1, <2>2, <2>3, <2>5 DEF HasContainer, InstancesOK
    <3> QED BY <3>1, <3>2, <3>3, <3>4 DEF Unraced
  <2>8. RuntimeInv'
    BY <2>3, <2>6, <2>7 DEF RuntimeInv
  <2> QED BY <2>4, <2>8, DeployParts
<1>5. CASE StartFails
  <2> DEFINE i == deploy.held
  <2>1. deploy # NoDeploy /\ i \in Instances
    BY <1>0, <1>5, IdleProcesses, RuntimeAssumption DEF StartFails, InStep, Deploy, Instances
  <2>2. container' = [container EXCEPT ![i] = "removed"] /\ deploy' = NoDeploy
        /\ UNCHANGED <<row, routes, raced, leaked>>
    BY <1>5 DEF StartFails
  <2>3. i = deploy.held /\ Recorded' = Recorded
    BY <2>2 DEF Recorded
  <2> HIDE DEF i
  <2>4. InstancesOK' /\ DeployOK'
    BY <1>0, <2>1, <2>2, IdleProcesses DEF InstancesOK, DeployOK
  <2>5. Accounted => Accounted'
    BY <1>0, <2>2, <2>3 DEF Accounted, InstancesOK
  <2>6. Unraced => Unraced'
    <3>1. Alone => Alone'
      BY <1>00, <2>1 DEF Alone
    <3>2. HoldsRecorded => HoldsRecorded'
      BY <1>00, <2>2, <2>3, IdleProcesses DEF HoldsRecorded
    <3>3. RoutesRecorded => RoutesRecorded'
      BY <1>00, <2>2, <2>3 DEF RoutesRecorded
    <3>4. HasContainer => HasContainer'
      <4>1. HasContainer => i \notin Recorded
        BY <2>1, <2>3, RuntimeAssumption DEF HasContainer, Instances
      <4> QED BY <1>0, <2>1, <2>2, <2>3, <4>1, IdleProcesses, RowsType DEF HasContainer, InstancesOK
    <3> QED BY <3>1, <3>2, <3>3, <3>4 DEF Unraced
  <2>7. RuntimeInv'
    BY <2>2, <2>5, <2>6 DEF RuntimeInv
  <2> QED BY <2>4, <2>7, DeployParts
<1>6. CASE Activate \/ ReadEndpoints
  <2>1. deploy # NoDeploy /\ deploy.held = 0
    BY <1>0, <1>6, IdleProcesses DEF Activate, ReadEndpoints, InStep
  <2>2. /\ deploy' \in Deploy /\ deploy'.held = deploy.held /\ deploy'.at \in {"reading", "routing"}
        /\ deploy'.ends = deploy.ends \/ deploy'.ends \subseteq Recorded
    BY <1>0, <1>6 DEF Activate, ReadEndpoints, Deploy, Recorded
  <2>3. UNCHANGED <<instanceVars, stop, checker, raced, leaked>>
    BY <1>6 DEF Activate, ReadEndpoints, instanceVars
  <2>4. InstancesOK' /\ DeployOK'
    BY <1>0, <2>1, <2>2, <2>3 DEF InstancesOK, DeployOK, instanceVars
  <2>5. Unraced => deploy'.ends \subseteq Recorded
    BY <2>2 DEF Unraced, HoldsRecorded
  <2> QED BY <2>1, <2>2, <2>3, <2>4, <2>5, DeployMoves, DeployParts
<1>7. CASE UpdateRoutes
  <2>1. deploy # NoDeploy /\ deploy.held = 0 /\ deploy.ends \subseteq Instances
    BY <1>0, <1>7, IdleProcesses DEF UpdateRoutes, InStep, Deploy
  <2>2. routes' = deploy.ends \X {"public"} /\ deploy' = NoDeploy
        /\ UNCHANGED <<row, container, raced, leaked>> /\ Recorded' = Recorded
    BY <1>7 DEF UpdateRoutes, Recorded
  <2>3. InstancesOK' /\ DeployOK'
    BY <1>0, <2>1, <2>2, IdleProcesses DEF InstancesOK, DeployOK, Address
  <2>4. Accounted => Accounted'
    BY <2>1, <2>2, IdleProcesses DEF Accounted
  <2>5. Unraced => Unraced'
    <3>1. Alone => Alone'
      BY <1>00, <2>1 DEF Alone
    <3>2. HoldsRecorded => HoldsRecorded' /\ RoutesRecorded'
      BY <1>00, <2>2, IdleProcesses DEF HoldsRecorded, RoutesRecorded
    <3>3. HasContainer => HasContainer'
      BY <2>1, <2>2, IdleProcesses DEF HasContainer
    <3> QED BY <3>1, <3>2, <3>3 DEF Unraced
  <2>6. RuntimeInv'
    BY <2>2, <2>4, <2>5 DEF RuntimeInv
  <2> QED BY <2>3, <2>6, DeployParts
<1>8. CASE DeployDies
  <2>1. deploy # NoDeploy /\ deploy' = NoDeploy /\ UNCHANGED <<instanceVars, raced>>
        /\ (leaked' <=> leaked \/ deploy.held # 0)
    BY <1>8 DEF DeployDies, instanceVars
  <2>2. Recorded' = Recorded
    BY <2>1 DEF Recorded, instanceVars
  <2>3. InstancesOK' /\ DeployOK'
    BY <1>0, <2>1, IdleProcesses DEF InstancesOK, DeployOK, instanceVars
  <2>4. deploy.held = 0 /\ Accounted => Accounted'
    BY <2>1, <2>2, IdleProcesses DEF Accounted, instanceVars
  <2>5. Unraced => Unraced'
    <3>1. Alone => Alone'
      BY <1>00, <2>1 DEF Alone
    <3>2. HoldsRecorded /\ RoutesRecorded => HoldsRecorded' /\ RoutesRecorded'
      BY <1>00, <2>1, <2>2, IdleProcesses DEF HoldsRecorded, RoutesRecorded, instanceVars
    <3>3. HasContainer => HasContainer'
      BY <2>1, <2>2, IdleProcesses DEF HasContainer, instanceVars
    <3> QED BY <3>1, <3>2, <3>3 DEF Unraced
  <2>6. RuntimeInv'
    BY <2>1, <2>4, <2>5 DEF RuntimeInv
  <2> QED BY <2>3, <2>6, DeployParts
<1> QED BY <1>1, <1>2, <1>3, <1>4, <1>5, <1>6, <1>7, <1>8 DEF Deploying

-----------------------------------------------------------------------------
(* Stopping.                                                               *)

Stopping == StopModel \/ StopInstance \/ StopSaves \/ StopRoutes \/ StopDies

LEMMA StoppingType ==
    ASSUME RuntimeTypeInv, Stopping
    PROVE  RuntimeTypeInv' /\ UNCHANGED <<deploy, checker>>
<1>0. ModelOK /\ InstancesOK /\ ProcessesOK /\ HistoryOK /\ InStep /\ stop \in Stop
  BY TypeParts DEF RuntimeTypeInv, ProcessesOK
<1>1. UNCHANGED <<downloads, worker, deploy, checker>>
  BY DEF Stopping, StopModel, StopInstance, StopSaves, StopRoutes, StopDies
<1>2. model' \in LocalModel
  <2>1. CASE StopSaves
    <3>1. stop.path \in BOOLEAN
      BY <1>0 DEF Stop
    <3> QED BY <2>1, <3>1, ModelRow DEF StopSaves
  <2>2. CASE ~StopSaves
    BY <1>0, <2>2 DEF Stopping, StopModel, StopInstance, StopRoutes, StopDies, ModelOK
  <2> QED BY <2>1, <2>2
<1>3. stop' \in Stop
  <2>1. CASE StopModel
    <3>1. Recorded \subseteq Instances /\ model.path \in BOOLEAN
      BY <1>0 DEF Recorded, ModelOK, LocalModel
    <3> QED BY <2>1, <3>1 DEF StopModel, Stop
  <2>2. CASE StopInstance
    BY <1>0, <2>2 DEF StopInstance, Stop
  <2>3. CASE StopSaves
    BY <1>0, <2>3 DEF StopSaves, Stop
  <2>4. CASE StopRoutes \/ StopDies
    BY <2>4, IdleProcesses DEF StopRoutes, StopDies
  <2> QED BY <2>1, <2>2, <2>3, <2>4 DEF Stopping
<1>4. InstancesOK'
  <2>1. CASE StopInstance
    BY <1>0, <2>1 DEF StopInstance, InstancesOK, ModelInstance
  <2>2. CASE ~StopInstance
    BY <1>0, <2>2 DEF Stopping, StopModel, StopSaves, StopRoutes, StopDies, InstancesOK
  <2> QED BY <2>1, <2>2
<1>5. HistoryOK'
  <2>1. troubles' \in 0..MaxTroubles
    BY <1>0, TroubleType
    DEF Stopping, StopModel, StopInstance, StopSaves, StopRoutes, StopDies, HistoryOK
  <2>2. raced' = raced \/ raced' = (raced \/ deploy # NoDeploy \/ checker # NoCycle) \/ raced' = TRUE
    BY DEF Stopping, StopModel, StopInstance, StopSaves, StopRoutes, StopDies
  <2>3. leaked' = leaked \/ leaked' = TRUE
    BY DEF Stopping, StopModel, StopInstance, StopSaves, StopRoutes, StopDies
  <2> QED BY <1>0, <2>1, <2>2, <2>3 DEF HistoryOK
<1>6. ModelOK' /\ (worker.busy => downloads > 0)'
  BY <1>0, <1>1, <1>2, ModelKept DEF InStep
<1>7. InStep' /\ ProcessesOK'
  BY <1>0, <1>1, <1>3, <1>6 DEF InStep, ProcessesOK
<1> QED BY <1>1, <1>4, <1>5, <1>6, <1>7, TypeParts DEF RuntimeTypeInv

LEMMA StoppingInv ==
    ASSUME RuntimeTypeInv, RuntimeInv, Stopping
    PROVE  RuntimeInv'
<1>0. InstancesOK /\ stop \in Stop /\ UNCHANGED <<deploy, checker>>
  BY StoppingType, TypeParts DEF RuntimeTypeInv, ProcessesOK
<1>1. CASE StopModel
  <2>1. /\ UNCHANGED <<instanceVars, leaked>> /\ Recorded' = Recorded /\ stop = NoStop
        /\ raced' <=> raced \/ deploy # NoDeploy \/ checker # NoCycle
    BY <1>1 DEF StopModel, instanceVars, Recorded
  <2>2. stop' # NoStop
    BY <1>1 DEF StopModel, NoStop
  <2>3. Accounted => Accounted'
    BY <1>0, <2>1 DEF Accounted, instanceVars
  <2>4. Unraced /\ deploy = NoDeploy /\ checker = NoCycle => Unraced'
    BY <1>0, <2>1, <2>2 DEF Unraced, Alone, HoldsRecorded, RoutesRecorded, HasContainer, instanceVars
  <2> QED BY <2>1, <2>3, <2>4 DEF RuntimeInv
<1>2. CASE StopInstance
  <2> DEFINE i == CHOOSE n \in stop.left : TRUE
  <2>1. i \in Instances
    BY <1>0, <1>2 DEF StopInstance, Stop
  <2>2. /\ row' = [row EXCEPT ![i] = "none"] /\ UNCHANGED <<routes, raced>>
        /\ \/ container' = [container EXCEPT ![i] = "removed"] /\ UNCHANGED leaked
           \/ leaked' = TRUE /\ UNCHANGED container
    BY <1>2 DEF StopInstance
  <2>3. stop # NoStop /\ stop' # NoStop
    <3>1. stop.at = "removing" /\ stop' = [stop EXCEPT !.left = @ \ {i}]
      BY <1>2 DEF StopInstance
    <3>2. stop'.at = "removing"
      BY <1>0, <3>1 DEF Stop
    <3> QED BY <3>1, <3>2, IdleProcesses
  <2> HIDE DEF i
  <2>4. Recorded' = Recorded \ {i}
    BY <1>0, <2>1, <2>2 DEF Recorded, InstancesOK
  <2>5. Accounted => leaked' \/ Accounted'
    BY <1>0, <2>1, <2>2, <2>4 DEF Accounted, InstancesOK
  <2>6. Unraced => Unraced'
    <3>1. Unraced => deploy = NoDeploy /\ checker = NoCycle
      BY <2>3 DEF Unraced, Alone
    <3>2. deploy = NoDeploy /\ checker = NoCycle => Alone' /\ HoldsRecorded' /\ RoutesRecorded'
      BY <1>0, <2>3, IdleProcesses DEF Alone, HoldsRecorded, RoutesRecorded
    <3>3. deploy = NoDeploy /\ HasContainer => HasContainer'
      BY <1>0, <2>1, <2>2, <2>4, IdleProcesses, RowsType DEF HasContainer, InstancesOK
    <3> QED BY <3>1, <3>2, <3>3 DEF Unraced
  <2> QED BY <2>2, <2>5, <2>6 DEF RuntimeInv
<1>3. CASE StopSaves
  <2>1. UNCHANGED <<instanceVars, raced, leaked>> /\ Recorded' = Recorded
    BY <1>3 DEF StopSaves, instanceVars, Recorded
  <2>2. stop # NoStop /\ stop' # NoStop
    <3>1. stop.at = "removing" /\ stop'.at = "routing"
      BY <1>0, <1>3 DEF StopSaves, Stop
    <3> QED BY <3>1, IdleProcesses
  <2>3. Accounted => Accounted'
    BY <1>0, <2>1 DEF Accounted, instanceVars
  <2>4. Unraced => Unraced'
    BY <1>0, <2>1, <2>2 DEF Unraced, Alone, HoldsRecorded, RoutesRecorded, HasContainer, instanceVars
  <2> QED BY <2>1, <2>3, <2>4 DEF RuntimeInv
<1>4. CASE StopRoutes
  <2>1. UNCHANGED <<row, container, raced, leaked>> /\ Recorded' = Recorded /\ routes' = {} /\ stop' = NoStop
    BY <1>4 DEF StopRoutes, Recorded
  <2>2. Accounted => Accounted'
    BY <1>0, <2>1 DEF Accounted
  <2>3. Unraced => Unraced'
    BY <1>0, <2>1 DEF Unraced, Alone, HoldsRecorded, RoutesRecorded, HasContainer
  <2> QED BY <2>1, <2>2, <2>3 DEF RuntimeInv
<1>5. CASE StopDies
  <2>1. UNCHANGED <<instanceVars, leaked>> /\ Recorded' = Recorded /\ raced'
    BY <1>5 DEF StopDies, instanceVars, Recorded
  <2>2. Accounted => Accounted'
    BY <1>0, <2>1 DEF Accounted, instanceVars
  <2> QED BY <2>1, <2>2 DEF RuntimeInv
<1> QED BY <1>1, <1>2, <1>3, <1>4, <1>5 DEF Stopping

-----------------------------------------------------------------------------
(* The health checker, and containers that exit.                           *)

Checking == BeginCycle \/ CheckInstance \/ RouteInstance \/ Prune \/ Revert \/ ClearRoutes \/ CheckerDies

LEMMA CheckerType ==
    ASSUME RuntimeTypeInv, Checking
    PROVE  checker' \in Checker
<1>0. ModelOK /\ InstancesOK /\ ProcessesOK /\ checker \in Checker
  BY TypeParts DEF RuntimeTypeInv, ProcessesOK
<1>1. CASE BeginCycle
  <2>1. Recorded \subseteq Instances /\ row \in [Instances -> ModelInstance]
    BY <1>0 DEF Recorded, InstancesOK
  <2>2. NoCycle \in Checker /\ checker' = [NoCycle EXCEPT !.at = "cycling", !.left = Recorded, !.seen = row]
    BY <1>1, IdleProcesses DEF BeginCycle
  <2> QED BY <2>1, <2>2 DEF Checker
<1>2. CASE CheckInstance
  <2> DEFINE i == CHOOSE n \in checker.left : TRUE
  <2>1. i \in Instances /\ i \in 0..MaxInstances
    BY <1>0, <1>2, RuntimeAssumption DEF CheckInstance, Checker, Instances
  <2>2. PICK verdict \in {"healthy", "unhealthy"} :
            \/ checker' = [checker EXCEPT !.left = @ \ {i}, !.seen[i] = "none"]
            \/ checker' = [checker EXCEPT !.at = "routing", !.left = @ \ {i}, !.seen[i] = verdict, !.of = i]
    BY <1>2 DEF CheckInstance
  <2> HIDE DEF i
  <2>3. [checker.seen EXCEPT ![i] = "none"] \in [Instances -> ModelInstance]
        /\ [checker.seen EXCEPT ![i] = verdict] \in [Instances -> ModelInstance]
    BY <1>0, <2>1 DEF Checker, ModelInstance
  <2>4. checker.left \ {i} \subseteq Instances
    BY <1>0 DEF Checker
  <2> QED BY <1>0, <2>1, <2>2, <2>3, <2>4 DEF Checker
<1>3. CASE RouteInstance
  <2>1. [checker.seen EXCEPT ![checker.of] = "none"] \in [Instances -> ModelInstance]
    BY <1>0 DEF Checker, ModelInstance
  <2>2. checker' = [checker EXCEPT !.at = "cycling", !.of = 0,
                        !.seen = [checker.seen EXCEPT ![checker.of] = "none"]]
    BY <1>3 DEF RouteInstance
  <2>3. 0 \in 0..MaxInstances
    BY RuntimeAssumption
  <2> QED BY <1>0, <2>1, <2>2, <2>3 DEF Checker
<1>4. CASE Prune
  <2>1. model.path \in BOOLEAN
    BY <1>0 DEF ModelOK, LocalModel
  <2>2. checker' = [checker EXCEPT !.at = "reverting", !.path = model.path] \/ checker' = NoCycle
    BY <1>4 DEF Prune
  <2> QED BY <1>0, <2>1, <2>2, IdleProcesses DEF Checker
<1>5. CASE Revert
  BY <1>0, <1>5 DEF Revert, Checker
<1>6. CASE ClearRoutes \/ CheckerDies
  BY <1>6, IdleProcesses DEF ClearRoutes, CheckerDies
<1> QED BY <1>1, <1>2, <1>3, <1>4, <1>5, <1>6 DEF Checking

LEMMA CheckingType ==
    ASSUME RuntimeTypeInv, Checking
    PROVE  RuntimeTypeInv' /\ UNCHANGED <<container, deploy, stop, leaked>>
<1>0. ModelOK /\ InstancesOK /\ ProcessesOK /\ HistoryOK /\ InStep /\ checker \in Checker
  BY TypeParts DEF RuntimeTypeInv, ProcessesOK
<1>1. UNCHANGED <<downloads, worker, container, deploy, stop, leaked>>
  BY DEF Checking, BeginCycle, CheckInstance, RouteInstance, Prune, Revert, ClearRoutes, CheckerDies
<1>2. model' \in LocalModel
  <2>1. CASE Revert
    <3>1. checker.path \in BOOLEAN
      BY <1>0 DEF Checker
    <3> QED BY <2>1, <3>1, ModelRow DEF Revert
  <2>2. CASE ~Revert
    BY <1>0, <2>2
    DEF Checking, BeginCycle, CheckInstance, RouteInstance, Prune, ClearRoutes, CheckerDies, ModelOK
  <2> QED BY <2>1, <2>2
<1>3. InstancesOK'
  <2>1. row' \in [Instances -> ModelInstance]
    <3>1. CASE CheckInstance
      <4>1. row' = row \/ \E i \in Instances, verdict \in {"healthy", "unhealthy"} :
                              row' = [row EXCEPT ![i] = verdict]
        BY <1>0, <3>1 DEF CheckInstance, Checker
      <4> QED BY <1>0, <4>1 DEF InstancesOK, ModelInstance
    <3>2. CASE ~CheckInstance
      BY <1>0, <3>2
      DEF Checking, BeginCycle, RouteInstance, Prune, Revert, ClearRoutes, CheckerDies, InstancesOK
    <3> QED BY <3>1, <3>2
  <2>2. routes' \subseteq Address
    <3>1. CASE RouteInstance
      <4>1. checker.of \in 0..MaxInstances
        BY <1>0 DEF Checker
      <4>2. checker.of # 0 => <<checker.of, "internal">> \in Address
        BY <4>1, RuntimeAssumption DEF Address, Instances
      <4>3. checker.of # 0
        BY <1>0, <3>1 DEF RouteInstance, InStep
      <4> QED BY <1>0, <3>1, <4>2, <4>3 DEF RouteInstance, InstancesOK
    <3>2. CASE ~RouteInstance
      BY <1>0, <3>2
      DEF Checking, BeginCycle, CheckInstance, Prune, Revert, ClearRoutes, CheckerDies, InstancesOK
    <3> QED BY <3>1, <3>2
  <2> QED BY <1>0, <1>1, <2>1, <2>2 DEF InstancesOK
<1>4. HistoryOK'
  <2>1. troubles' \in 0..MaxTroubles
    BY <1>0, TroubleType DEF Checking, BeginCycle, CheckInstance, RouteInstance, Prune, Revert, ClearRoutes,
                             CheckerDies, HistoryOK
  <2>2. raced' = raced \/ raced' = (raced \/ stop # NoStop)
    BY DEF Checking, BeginCycle, CheckInstance, RouteInstance, Prune, Revert, ClearRoutes, CheckerDies
  <2> QED BY <1>0, <1>1, <2>1, <2>2 DEF HistoryOK
<1>5. checker' \in Checker
  BY CheckerType
<1>6. ModelOK' /\ (worker.busy => downloads > 0)'
  BY <1>0, <1>1, <1>2, ModelKept DEF InStep
<1>7. ProcessesOK'
  BY <1>0, <1>1, <1>5 DEF ProcessesOK
<1>8. (checker.at = "routing" => checker.of # 0)'
  <2>1. CASE CheckInstance
    <3> DEFINE i == CHOOSE n \in checker.left : TRUE
    <3>1. i # 0
      BY <1>0, <2>1, RuntimeAssumption DEF CheckInstance, Checker, Instances
    <3>2. checker.at = "cycling"
          /\ \/ checker'.at = checker.at
             \/ checker'.of = i
      BY <1>0, <2>1 DEF CheckInstance, Checker
    <3> QED BY <3>1, <3>2
  <2>2. CASE ~CheckInstance
    <3>1. checker'.at # "routing"
      BY <1>0, <2>2, IdleProcesses
      DEF Checking, BeginCycle, RouteInstance, Prune, Revert, ClearRoutes, CheckerDies, Checker
    <3> QED BY <3>1
  <2> QED BY <2>1, <2>2
<1>9. InStep'
  BY <1>0, <1>1, <1>6, <1>8 DEF InStep
<1> QED BY <1>1, <1>3, <1>4, <1>6, <1>7, <1>9, TypeParts DEF RuntimeTypeInv

LEMMA CheckingInv ==
    ASSUME RuntimeTypeInv, RuntimeInv, Checking
    PROVE  RuntimeInv'
<1>0. InstancesOK /\ checker \in Checker /\ UNCHANGED <<container, deploy, stop, leaked>>
  BY CheckingType, TypeParts DEF RuntimeTypeInv, ProcessesOK
<1>1. CASE BeginCycle
  <2>1. UNCHANGED <<row, routes>> /\ Recorded' = Recorded /\ (raced' <=> raced \/ stop # NoStop)
    BY <1>1 DEF BeginCycle, Recorded
  <2>2. checker'.at = "cycling" /\ checker'.left = Recorded
    BY <1>1, IdleProcesses DEF BeginCycle, Checker
  <2>3. Accounted => Accounted'
    BY <1>0, <2>1 DEF Accounted
  <2>4. Unraced /\ stop = NoStop => Unraced'
    BY <1>0, <2>1, <2>2 DEF Unraced, Alone, HoldsRecorded, RoutesRecorded, HasContainer
  <2> QED BY <1>0, <2>1, <2>3, <2>4 DEF RuntimeInv
<1>2. CASE CheckInstance
  <2> DEFINE i == CHOOSE n \in checker.left : TRUE
  <2>1. i \in checker.left /\ i \in Instances
    BY <1>0, <1>2 DEF CheckInstance, Checker
  <2>2. checker # NoCycle /\ UNCHANGED <<routes, raced>>
    BY <1>2, IdleProcesses DEF CheckInstance
  <2>3. /\ row' = row \/ \E verdict \in {"healthy", "unhealthy"} : row' = [row EXCEPT ![i] = verdict]
        /\ checker'.left \subseteq checker.left
        /\ checker'.at = "routing" => checker'.of = i
    <3>1. checker.at = "cycling"
      BY <1>2 DEF CheckInstance
    <3>2. PICK verdict \in {"healthy", "unhealthy"} :
             \/ checker' = [checker EXCEPT !.left = @ \ {i}, !.seen[i] = "none"] /\ UNCHANGED row
             \/ /\ row' = [row EXCEPT ![i] = verdict]
                /\ checker' = [checker EXCEPT !.at = "routing", !.left = @ \ {i}, !.seen[i] = verdict, !.of = i]
      BY <1>2 DEF CheckInstance
    <3> HIDE DEF i
    <3>3. checker'.left \subseteq checker.left /\ (checker'.at = "routing" => checker'.of = i)
      <4>1. \/ checker' = [at |-> "cycling", left |-> checker.left \ {i},
                            seen |-> checker'.seen, of |-> checker.of, path |-> checker.path]
            \/ checker' = [at |-> "routing", left |-> checker.left \ {i},
                            seen |-> checker'.seen, of |-> i, path |-> checker.path]
        BY <1>0, <3>1, <3>2 DEF Checker
      <4> QED BY <4>1
    <3> QED BY <3>2, <3>3
  <2> HIDE DEF i
  <2>4. Recorded \subseteq Recorded' /\ Recorded' \subseteq Recorded \cup {i}
    BY <1>0, <2>1, <2>3 DEF Recorded, InstancesOK
  <2>5. Accounted => Accounted'
    BY <1>0, <2>4 DEF Accounted
  <2>6. Unraced => Unraced'
    <3>1. Unraced => Recorded' = Recorded /\ i \in Recorded
      BY <2>1, <2>4 DEF Unraced, HoldsRecorded
    <3>2. Alone => Alone'
      BY <1>0, <2>2 DEF Alone
    <3>3. Unraced => HoldsRecorded'
      BY <1>0, <2>3, <3>1 DEF Unraced, HoldsRecorded
    <3>4. Unraced => RoutesRecorded' /\ HasContainer'
      BY <1>0, <2>2, <3>1 DEF Unraced, RoutesRecorded, HasContainer
    <3> QED BY <3>2, <3>3, <3>4 DEF Unraced
  <2> QED BY <1>0, <2>2, <2>5, <2>6 DEF RuntimeInv
<1>3. CASE RouteInstance
  <2>1. checker # NoCycle /\ UNCHANGED <<row, raced>> /\ Recorded' = Recorded
    BY <1>3, IdleProcesses DEF RouteInstance, Recorded
  <2>2. checker.at = "routing" /\ checker'.at = "cycling" /\ checker'.left = checker.left
    BY <1>0, <1>3 DEF RouteInstance, Checker
  <2>3. \A a \in routes' : a \in routes \/ a[1] = checker.of
    BY <1>3 DEF RouteInstance
  <2>4. Accounted => Accounted'
    BY <1>0, <2>1 DEF Accounted
  <2>5. Unraced => Unraced'
    BY <1>0, <2>1, <2>2, <2>3 DEF Unraced, Alone, HoldsRecorded, RoutesRecorded, HasContainer
  <2> QED BY <1>0, <2>1, <2>4, <2>5 DEF RuntimeInv
<1>4. CASE Prune \/ Revert \/ ClearRoutes \/ CheckerDies
  <2>1. checker # NoCycle /\ UNCHANGED <<row, raced>> /\ Recorded' = Recorded
        /\ (routes' = routes \/ routes' = {})
    BY <1>4, IdleProcesses DEF Prune, Revert, ClearRoutes, CheckerDies, Recorded
  <2>2. checker'.at # "routing" /\ checker'.left \subseteq checker.left
    BY <1>0, <1>4, IdleProcesses DEF Prune, Revert, ClearRoutes, CheckerDies, Checker
  <2>3. Accounted => Accounted'
    BY <1>0, <2>1 DEF Accounted
  <2>4. Unraced => Unraced'
    BY <1>0, <2>1, <2>2 DEF Unraced, Alone, HoldsRecorded, RoutesRecorded, HasContainer
  <2> QED BY <1>0, <2>1, <2>3, <2>4 DEF RuntimeInv
<1> QED BY <1>1, <1>2, <1>3, <1>4 DEF Checking

LEMMA ExitsInv ==
    ASSUME RuntimeTypeInv, RuntimeInv, NEW i \in Instances, ContainerExits(i)
    PROVE  RuntimeTypeInv' /\ RuntimeInv'
<1>0. ModelOK /\ InstancesOK /\ ProcessesOK /\ HistoryOK /\ InStep
  BY TypeParts DEF RuntimeTypeInv
<1>1. UNCHANGED <<modelVars, row, routes, processVars, raced, leaked, troubles>> /\ Recorded' = Recorded
      /\ container[i] = "up" /\ container' = [container EXCEPT ![i] = "exited"]
  BY DEF ContainerExits, modelVars, processVars, Recorded
<1>2. ModelOK' /\ InstancesOK' /\ ProcessesOK' /\ HistoryOK' /\ InStep'
  BY <1>0, <1>1 DEF ModelOK, InstancesOK, ProcessesOK, HistoryOK, InStep, modelVars, processVars
<1>3. Accounted => Accounted'
  BY <1>0, <1>1 DEF Accounted, InstancesOK, processVars
<1>4. Unraced => Unraced'
  BY <1>0, <1>1, RowsType
  DEF Unraced, Alone, HoldsRecorded, RoutesRecorded, HasContainer, InstancesOK, processVars
<1> QED BY <1>1, <1>2, <1>3, <1>4, TypeParts DEF RuntimeTypeInv, RuntimeInv

-----------------------------------------------------------------------------
LEMMA RuntimeStep ==
    ASSUME RuntimeTypeInv, RuntimeInv, [RuntimeNext]_runtimeVars
    PROVE  RuntimeTypeInv' /\ RuntimeInv'
<1>1. CASE UNCHANGED runtimeVars
  BY <1>1 DEF runtimeVars, RuntimeTypeInv, RuntimeTypeOK, InStep, RuntimeInv, Unraced, Alone, HoldsRecorded,
              RoutesRecorded, HasContainer, Accounted, Recorded
<1>2. CASE RuntimeNext
  <2>1. Downloading \/ Deploying \/ Stopping \/ Checking \/ \E i \in Instances : ContainerExits(i)
    BY <1>2 DEF RuntimeNext, Downloading, Deploying, Stopping, Checking
  <2> QED BY <2>1, DownloadingInv, DeployingInv, StoppingType, StoppingInv, CheckingType, CheckingInv, ExitsInv
<1> QED BY <1>1, <1>2

LEMMA RuntimeInvariance == RuntimeSpec => [](RuntimeTypeInv /\ RuntimeInv)
<1>1. RuntimeInit => RuntimeTypeInv /\ RuntimeInv
  BY RuntimeInitInv
<1>2. RuntimeTypeInv /\ RuntimeInv /\ [RuntimeNext]_runtimeVars => (RuntimeTypeInv /\ RuntimeInv)'
  BY RuntimeStep
<1> QED BY <1>1, <1>2, PTL DEF RuntimeSpec

\* Every variable of the runtime keeps its type.
THEOREM RuntimeTypeCorrect == RuntimeSpec => []RuntimeTypeOK
<1>1. RuntimeTypeInv => RuntimeTypeOK
  BY DEF RuntimeTypeInv
<1> QED BY <1>1, RuntimeInvariance, PTL

\* The gateway's addresses are those of recorded instances, what is recorded has a container, and
\* a container that runs is recorded or held by the deployment that started it, as long as no stop
\* meets a deployment or a cycle of the checker, and no process dies with a container in hand.
THEOREM RuntimeAlwaysRecorded == RuntimeSpec => []RuntimeRecorded
<1>1. RuntimeTypeInv /\ RuntimeInv => RuntimeRecorded
  BY InvEnough
<1> QED BY <1>1, RuntimeInvariance, PTL

-----------------------------------------------------------------------------
(* The scenes in which TLC checks the runtime together with the inference  *)
(* that asks it, the memory and the tools.                                 *)

LEMMA SceneStarts ==
    ASSUME MCInit
    PROVE  /\ \E over : Started(over)
           /\ ToolInit /\ RuntimeInit
<1> DEFINE over == IF scene = "job" THEN {job2} ELSE Jobs
<1>1. \A j \in Jobs : updates[j] > 0 => j \in over
  <2> SUFFICES ASSUME NEW j \in Jobs, updates[j] > 0, scene = "job" PROVE FALSE
    OBVIOUS
  <2>1. updates \in [Jobs -> {0}]
    BY DEF MCInit
  <2>2. updates[j] = 0
    BY <2>1
  <2> QED BY <2>2
<1>2. updates \in [Jobs -> Nat]
  <2>1. updates \in [Jobs -> 1..2] \/ updates \in [Jobs -> {0}]
    BY DEF MCInit
  <2> QED BY <2>1
<1>3. Started(over)
  BY <1>1, <1>2 DEF MCInit, Started
<1> QED BY <1>3 DEF MCInit

LEMMA SceneSteps ==
    ASSUME [MCNext]_mcVars
    PROVE  /\ [InferenceNext]_inferenceVars
           /\ [ToolNext]_toolVars
           /\ [RuntimeNext]_runtimeVars
<1>1. CASE /\ UNCHANGED <<toolVars, runtimeVars, scene>>
           /\ \/ JobsNext /\ UNCHANGED <<streamVars, memoryVars>>
              \/ StreamNext /\ UNCHANGED <<jobVars, memoryVars>>
              \/ MemoryNext /\ UNCHANGED <<jobVars, streamVars>>
  <2>1. InferenceNext
    BY <1>1 DEF InferenceNext
  <2> QED BY <1>1, <2>1
<1>2. CASE ToolNext /\ UNCHANGED <<inferenceVars, runtimeVars, scene>>
  BY <1>2
<1>3. CASE RuntimeNext /\ UNCHANGED <<inferenceVars, toolVars, scene>>
  BY <1>3
<1>4. CASE UNCHANGED mcVars
  BY <1>4 DEF mcVars
<1> QED BY <1>1, <1>2, <1>3, <1>4 DEF MCNext

SceneInv ==
    /\ VerdictInv /\ StreamInv /\ MemoryInv
    /\ ToolTyped /\ SessionInv
    /\ RuntimeTypeInv /\ RuntimeInv

LEMMA SceneInvariance == MCSpec => []SceneInv
<1>1. MCInit => SceneInv
  BY SceneStarts, VerdictInit, StreamInvInit, MemoryInvInit, ToolInitTyped, SessionInvInit, RuntimeInitInv
     DEF SceneInv
<1>2. SceneInv /\ [MCNext]_mcVars => SceneInv'
  <2> SUFFICES ASSUME SceneInv, [MCNext]_mcVars PROVE SceneInv'
    OBVIOUS
  <2>1. [InferenceNext]_inferenceVars /\ [ToolNext]_toolVars /\ [RuntimeNext]_runtimeVars
    BY SceneSteps
  <2>2. VerdictInv' /\ StreamInv' /\ MemoryInv'
    BY <2>1, VerdictStep, StreamInvStep, MemoryInvStep DEF SceneInv
  <2>3. ToolTyped' /\ SessionInv'
    BY <2>1, ToolStepTyped, SessionInvStep DEF SceneInv
  <2>4. RuntimeTypeInv' /\ RuntimeInv'
    BY <2>1, RuntimeStep DEF SceneInv
  <2> QED BY <2>2, <2>3, <2>4 DEF SceneInv
<1> QED BY <1>1, <1>2, PTL DEF MCSpec

\* Every variable of the jobs, the stream, the memory, the tools and the runtime keeps its
\* type in every scene.
THEOREM ScenesTypeCorrect == MCSpec => []MCTypeOK
<1>1. SceneInv => MCTypeOK
  BY InferenceTypedEnough DEF SceneInv, VerdictInv, ToolTyped, RuntimeTypeInv, MCTypeOK
<1> QED BY <1>1, SceneInvariance, PTL

\* The scenes begin with jobs that are done and with turns on their way to the memory, which
\* no run of the services begins with; what is proved of the services holds there too.
THEOREM ScenesKeepPromises ==
    MCSpec => [](VerdictsSettle /\ StreamInOrder /\ MemoryWhole /\ SessionKept /\ RuntimeRecorded)
<1>1. SceneInv => VerdictsSettle /\ StreamInOrder /\ MemoryWhole
  BY VerdictsFollow, StreamFollows, MemoryFollows DEF SceneInv, VerdictInv, MemoryInv, InferenceTyped
<1>2. SceneInv => SessionKept /\ RuntimeRecorded
  BY SessionFollows, InvEnough DEF SceneInv
<1> QED BY <1>1, <1>2, SceneInvariance, PTL
=============================================================================
