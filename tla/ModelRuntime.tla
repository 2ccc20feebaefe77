---------------------------- MODULE ModelRuntime ----------------------------
(***************************************************************************)
(* The local model runtime (MS13): one model that is downloaded, deployed  *)
(* in containers, watched by the health checker and stopped.  What the     *)
(* gateway sends requests to is a set of addresses in Redis.               *)
(*                                                                         *)
(* A deployment, a stop, the download worker and the checker are processes *)
(* of their own; each works on the rows it has loaded, and saves all the   *)
(* fields of a row, or inserts it again if it is no longer there.          *)
(***************************************************************************)
EXTENDS Naturals, FiniteSets, Sequences

CONSTANTS
    MaxInstances,   \* the bound on containers started
    Sizes,          \* how many instances a deployment may ask for
    MaxTroubles     \* the bound on processes dying and messages delivered twice

ASSUME RuntimeAssumption ==
    /\ MaxInstances \in Nat \ {0} /\ MaxTroubles \in Nat
    /\ Sizes \subseteq 1..MaxInstances

VARIABLES
    model,          \* the row: its status and whether it has a local_path
    downloads,      \* copies of the download job in the queue
    worker,         \* the row the download worker works on
    row,            \* the status of each instance in the database
    container,      \* what Docker knows of the container of each instance
    routes,         \* the addresses of the model in Redis, each of an instance
    deploy,         \* the deployment under way
    stop,           \* the stop under way
    checker,        \* the cycle of the health checker
    raced,          \* history: a stop met a deployment or a cycle, or was not finished
    leaked,         \* history: a deployment died while it held a container, or a stop could not remove one
    troubles        \* how many processes died or messages came twice

runtimeVars == <<model, downloads, worker, row, container, routes, deploy, stop, checker,
                 raced, leaked, troubles>>

Instances == 1..MaxInstances
\* An instance has an address for the gateway and one inside Docker.
Address == Instances \X {"public", "internal"}
LocalModel == [status: {"none", "downloading", "downloaded", "error", "active", "not_installed"},
               path: BOOLEAN]
ModelInstance == {"none", "healthy", "unhealthy"}

\* A deployment holds the instance it starts (0 for none), how many are left after it, and
\* the endpoints it read; a stop the instances it loaded and whether the row had a path;
\* the checker the rows it has loaded and not yet looked at, and what it found.
RuntimeTypeOK ==
    /\ model \in LocalModel
    /\ downloads \in Nat
    /\ worker \in [busy: BOOLEAN, path: BOOLEAN]
    /\ row \in [Instances -> ModelInstance]
    /\ container \in [Instances -> {"none", "starting", "up", "exited", "removed"}]
    /\ routes \subseteq Address
    /\ deploy \in [at: {"idle", "asking", "starting", "waiting", "activating", "reading", "routing"},
                   held: 0..MaxInstances, left: 0..MaxInstances, ends: SUBSET Instances]
    /\ stop \in [at: {"idle", "removing", "saving", "routing"}, left: SUBSET Instances, path: BOOLEAN]
    /\ checker \in [at: {"idle", "cycling", "routing", "pruning", "reverting", "clearing"},
                    left: SUBSET Instances, seen: [Instances -> ModelInstance],
                    of: 0..MaxInstances, path: BOOLEAN]
    /\ raced \in BOOLEAN /\ leaked \in BOOLEAN /\ troubles \in 0..MaxTroubles

Trouble == troubles < MaxTroubles /\ troubles' = troubles + 1

NoDeploy == [at |-> "idle", held |-> 0, left |-> 0, ends |-> {}]
NoStop == [at |-> "idle", left |-> {}, path |-> FALSE]
NoCycle == [at |-> "idle", left |-> {}, seen |-> [i \in Instances |-> "none"], of |-> 0, path |-> FALSE]
Recorded == {i \in Instances : row[i] # "none"}

-----------------------------------------------------------------------------
(* Downloading.                                                            *)

\* The row is there even if the job could not be published; the model cannot then be
\* registered again.
InitiateDownload ==
    /\ model.status = "none"
    /\ model' = [status |-> "downloading", path |-> FALSE]
    /\ \/ downloads' = downloads + 1 /\ UNCHANGED troubles
       \/ Trouble /\ UNCHANGED downloads
    /\ UNCHANGED <<worker, row, container, routes, deploy, stop, checker, raced, leaked>>

\* Whatever the model is doing: a job may be delivered again while it is active.
TakeDownload ==
    /\ ~worker.busy /\ downloads > 0
    /\ worker' = [busy |-> TRUE, path |-> model.path]
    /\ model' = [model EXCEPT !.status = "downloading"]
    /\ UNCHANGED <<downloads, row, container, routes, deploy, stop, checker, raced, leaked, troubles>>

DownloadEnds ==
    /\ worker.busy
    /\ worker' = [busy |-> FALSE, path |-> FALSE]
    /\ downloads' = downloads - 1
    /\ \/ model' = [status |-> "downloaded", path |-> TRUE]
       \/ model' = [status |-> "error", path |-> worker.path]
    /\ UNCHANGED <<row, container, routes, deploy, stop, checker, raced, leaked, troubles>>

WorkerDies ==
    /\ Trouble
    /\ worker.busy
    /\ worker' = [busy |-> FALSE, path |-> FALSE]
    /\ UNCHANGED <<model, downloads, row, container, routes, deploy, stop, checker, raced, leaked>>

JobSentTwice ==
    /\ Trouble
    /\ model.status # "none"
    /\ downloads' = downloads + 1
    /\ UNCHANGED <<model, worker, row, container, routes, deploy, stop, checker, raced, leaked>>

-----------------------------------------------------------------------------
(* Deploying.                                                              *)

DeployModel(n) ==
    /\ deploy = NoDeploy /\ model.status = "downloaded"
    /\ deploy' = [NoDeploy EXCEPT !.at = "asking", !.left = n]
    /\ raced' = (raced \/ stop # NoStop)
    /\ UNCHANGED <<model, downloads, worker, row, container, routes, stop, checker, leaked, troubles>>

\* MS3 has the arguments to start it with, or no blueprint of that name: then it is not deployed.
FetchBlueprint ==
    /\ deploy.at = "asking"
    /\ deploy' \in {[deploy EXCEPT !.at = "starting"], NoDeploy}
    /\ UNCHANGED <<model, downloads, worker, row, container, routes, stop, checker, raced, leaked, troubles>>

\* Docker may refuse to start it.
RunContainer ==
    /\ deploy.at = "starting"
    /\ \/ \E i \in Instances :
            /\ \A n \in Instances : container[n] = "none" <=> n >= i
            /\ container' = [container EXCEPT ![i] = "starting"]
            /\ deploy' = [deploy EXCEPT !.at = "waiting", !.held = i, !.left = @ - 1]
       \/ deploy' = NoDeploy /\ UNCHANGED container
    /\ UNCHANGED <<model, downloads, worker, row, routes, stop, checker, raced, leaked, troubles>>

\* It answers in time, and is recorded.
RecordInstance ==
    /\ deploy.at = "waiting"
    /\ container' = [container EXCEPT ![deploy.held] = "up"]
    /\ row' = [row EXCEPT ![deploy.held] = "healthy"]
    /\ deploy' = [deploy EXCEPT !.at = IF deploy.left > 0 THEN "starting" ELSE "activating", !.held = 0]
    /\ UNCHANGED <<model, downloads, worker, routes, stop, checker, raced, leaked, troubles>>

\* Mutant for RuntimeRecorded: the container of a failed start stays.
MutStartFails ==
    /\ deploy.at = "waiting"
    /\ container' = [container EXCEPT ![deploy.held] = "up"]
    /\ deploy' = NoDeploy
    /\ UNCHANGED <<model, downloads, worker, row, routes, stop, checker, raced, leaked, troubles>>

\* It exits or does not answer in time: the deployment ends, and the instances it has
\* started and recorded stay.
StartFails ==
    /\ deploy.at = "waiting"
    /\ container' = [container EXCEPT ![deploy.held] = "removed"]
    /\ deploy' = NoDeploy
    /\ UNCHANGED <<model, downloads, worker, row, routes, stop, checker, raced, leaked, troubles>>

Activate ==
    /\ deploy.at = "activating"
    /\ model' = [status |-> "active", path |-> TRUE]
    /\ deploy' = [deploy EXCEPT !.at = "reading"]
    /\ UNCHANGED <<downloads, worker, row, container, routes, stop, checker, raced, leaked, troubles>>

ReadEndpoints ==
    /\ deploy.at = "reading"
    /\ deploy' = [deploy EXCEPT !.at = "routing", !.ends = {i \in Instances : row[i] = "healthy"}]
    /\ UNCHANGED <<model, downloads, worker, row, container, routes, stop, checker, raced, leaked, troubles>>

\* The gateway gets the public addresses, in place of whatever it had.
UpdateRoutes ==
    /\ deploy.at = "routing"
    /\ routes' = deploy.ends \X {"public"}
    /\ deploy' = NoDeploy
    /\ UNCHANGED <<model, downloads, worker, row, container, stop, checker, raced, leaked, troubles>>

DeployDies ==
    /\ Trouble
    /\ deploy # NoDeploy
    /\ deploy' = NoDeploy
    /\ leaked' = (leaked \/ deploy.held # 0)
    /\ UNCHANGED <<model, downloads, worker, row, container, routes, stop, checker, raced>>

-----------------------------------------------------------------------------
(* Stopping.                                                               *)

StopModel ==
    /\ stop = NoStop /\ model.status # "none"
    /\ stop' = [at |-> "removing", left |-> Recorded, path |-> model.path]
    /\ raced' = (raced \/ deploy # NoDeploy \/ checker # NoCycle)
    /\ UNCHANGED <<model, downloads, worker, row, container, routes, deploy, checker, leaked, troubles>>

\* Docker may fail to remove the container; the row is deleted all the same.
StopInstance ==
    /\ stop.at = "removing" /\ stop.left # {}
    /\ LET i == CHOOSE n \in stop.left : TRUE IN
       /\ stop' = [stop EXCEPT !.left = @ \ {i}]
       /\ row' = [row EXCEPT ![i] = "none"]
       /\ \/ container' = [container EXCEPT ![i] = "removed"] /\ UNCHANGED <<leaked, troubles>>
          \/ Trouble /\ leaked' = TRUE /\ UNCHANGED container
    /\ UNCHANGED <<model, downloads, worker, routes, deploy, checker, raced>>

StopSaves ==
    /\ stop.at = "removing" /\ stop.left = {}
    /\ model' = [status |-> IF stop.path THEN "downloaded" ELSE "not_installed", path |-> stop.path]
    /\ stop' = [stop EXCEPT !.at = "routing"]
    /\ UNCHANGED <<downloads, worker, row, container, routes, deploy, checker, raced, leaked, troubles>>

StopRoutes ==
    /\ stop.at = "routing"
    /\ routes' = {}
    /\ stop' = NoStop
    /\ UNCHANGED <<model, downloads, worker, row, container, deploy, checker, raced, leaked, troubles>>

StopDies ==
    /\ Trouble
    /\ stop # NoStop
    /\ stop' = NoStop
    /\ raced' = TRUE
    /\ UNCHANGED <<model, downloads, worker, row, container, routes, deploy, checker, leaked>>

-----------------------------------------------------------------------------
(* The health checker.                                                     *)

BeginCycle ==
    /\ checker = NoCycle /\ Recorded # {}
    /\ checker' = [NoCycle EXCEPT !.at = "cycling", !.left = Recorded, !.seen = row]
    /\ raced' = (raced \/ stop # NoStop)
    /\ UNCHANGED <<model, downloads, worker, row, container, routes, deploy, stop, leaked, troubles>>

\* A container that runs may still not answer; only a change of the status is saved.
CheckInstance ==
    /\ checker.at = "cycling" /\ checker.left # {}
    /\ LET i == CHOOSE n \in checker.left : TRUE IN
       \E verdict \in IF container[i] = "up" THEN {"healthy", "unhealthy"} ELSE {"unhealthy"} :
           IF verdict = checker.seen[i]
           THEN checker' = [checker EXCEPT !.left = @ \ {i}, !.seen[i] = "none"] /\ UNCHANGED row
           ELSE /\ row' = [row EXCEPT ![i] = verdict]
                /\ checker' = [checker EXCEPT !.at = "routing", !.left = @ \ {i}, !.seen[i] = verdict, !.of = i]
    /\ UNCHANGED <<model, downloads, worker, container, routes, deploy, stop, raced, leaked, troubles>>

\* It is the address inside Docker that is added and removed.
RouteInstance ==
    /\ checker.at = "routing"
    /\ routes' = IF checker.seen[checker.of] = "healthy"
                 THEN routes \cup {<<checker.of, "internal">>}
                 ELSE routes \ {<<checker.of, "internal">>}
    /\ checker' = [checker EXCEPT !.at = "cycling", !.of = 0, !.seen[checker.of] = "none"]
    /\ UNCHANGED <<model, downloads, worker, row, container, deploy, stop, raced, leaked, troubles>>

\* An active model without a healthy instance is not active any more.
Prune ==
    /\ checker.at = "cycling" /\ checker.left = {}
    /\ checker' = IF model.status = "active" /\ \A i \in Instances : row[i] # "healthy"
                  THEN [checker EXCEPT !.at = "reverting", !.path = model.path]
                  ELSE NoCycle
    /\ UNCHANGED <<model, downloads, worker, row, container, routes, deploy, stop, raced, leaked, troubles>>

Revert ==
    /\ checker.at = "reverting"
    /\ model' = [status |-> "downloaded", path |-> checker.path]
    /\ checker' = [checker EXCEPT !.at = "clearing"]
    /\ UNCHANGED <<downloads, worker, row, container, routes, deploy, stop, raced, leaked, troubles>>

ClearRoutes ==
    /\ checker.at = "clearing"
    /\ routes' = {}
    /\ checker' = NoCycle
    /\ UNCHANGED <<model, downloads, worker, row, container, deploy, stop, raced, leaked, troubles>>

CheckerDies ==
    /\ Trouble
    /\ checker # NoCycle
    /\ checker' = NoCycle
    /\ UNCHANGED <<model, downloads, worker, row, container, routes, deploy, stop, raced, leaked>>

ContainerExits(i) ==
    /\ container[i] = "up"
    /\ container' = [container EXCEPT ![i] = "exited"]
    /\ UNCHANGED <<model, downloads, worker, row, routes, deploy, stop, checker, raced, leaked, troubles>>

-----------------------------------------------------------------------------
\* There may have been containers, and troubles, in an earlier life of the model.
RuntimeInit ==
    /\ model = [status |-> "none", path |-> FALSE]
    /\ downloads = 0 /\ worker = [busy |-> FALSE, path |-> FALSE]
    /\ row = [i \in Instances |-> "none"]
    /\ \E n \in 0..MaxInstances - 1 :
           container = [i \in Instances |-> IF i <= n THEN "removed" ELSE "none"]
    /\ routes = {}
    /\ deploy = NoDeploy /\ stop = NoStop /\ checker = NoCycle
    /\ raced = FALSE /\ leaked = FALSE /\ troubles \in 0..MaxTroubles

RuntimeNext ==
    \/ InitiateDownload \/ TakeDownload \/ DownloadEnds \/ WorkerDies \/ JobSentTwice
    \/ \E n \in Sizes : n <= Cardinality({i \in Instances : container[i] = "none"}) /\ DeployModel(n)
    \/ FetchBlueprint \/ RunContainer \/ RecordInstance \/ StartFails \/ Activate
    \/ ReadEndpoints \/ UpdateRoutes \/ DeployDies
    \/ StopModel \/ StopInstance \/ StopSaves \/ StopRoutes \/ StopDies
    \/ BeginCycle \/ CheckInstance \/ RouteInstance \/ Prune \/ Revert \/ ClearRoutes \/ CheckerDies
    \/ \E i \in Instances : ContainerExits(i)

RuntimeSpec == RuntimeInit /\ [][RuntimeNext]_runtimeVars

-----------------------------------------------------------------------------
\* The gateway is only ever sent to instances the service has a record of, and a container
\* that runs is either recorded or in the hands of the deployment that started it: a stop
\* leaves neither addresses nor containers behind.  A process that dies with a container in
\* its hands leaves it; a stop that meets a deployment or a cycle of the checker may
\* leave an address, or a record of an instance that is gone.
RuntimeRecorded ==
    /\ raced \/ \A a \in routes : a[1] \in Recorded \/ stop # NoStop
    /\ raced \/ \A i \in Recorded : container[i] # "removed"
    /\ leaked \/ \A i \in Instances :
           container[i] \in {"starting", "up", "exited"} => i \in Recorded \/ i = deploy.held
=============================================================================
