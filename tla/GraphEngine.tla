---------------------------- MODULE GraphEngine ----------------------------
(***************************************************************************)
(* One run of a graph in MS15.  All the state of the run is in Redis; the  *)
(* trigger seeds it, evaluator tasks turn eval checks into requests to     *)
(* inference, propagator tasks turn results into data and further eval     *)
(* checks, and the API may cancel.  Each worker spawns one task per        *)
(* delivery, so tasks interleave between any two of their Redis or         *)
(* RabbitMQ calls, and one step below is one such call.  Calls are joined  *)
(* only where nothing can tell: a read with the branch it decides, the     *)
(* status read with the snapshot read behind it, a push with the eval      *)
(* checks it publishes (a check published later is a check delivered       *)
(* later), the DEL of a lock with the DEL of the attempts.                 *)
(*                                                                         *)
(* Of MS5 and MS6, which answer the requests, only the outcome is modelled *)
(* here: an answer, none, or more than one.  RabbitMQ keeps what is not    *)
(* acknowledged, and the workers acknowledge whatever the handler returns. *)
(***************************************************************************)
EXTENDS GraphTopology

CONSTANTS
    EvalTasks,      \* evaluator tasks that can be busy at once
    PropTasks,      \* propagator tasks that can be busy at once
    Pace,           \* how long inference takes, compared with the handlers
    Budget,         \* how often each of the Events may happen
    MaxEvents,      \* how many of them may happen in all
    NoRule          \* not a rule

Outcomes == {"success", "error"}

\* "racing": a reply may come at any time.  "paced": inference takes longer than
\* the writes by which a handler follows up on a publish.  "drained": inference
\* takes longer than all the checks and results that are under way.
Paces == {"racing", "paced", "drained"}

\* What the environment may do to a run, and the bound on how often: Budget[e]
\* times for each event, and MaxEvents times in all.
Events == {"error", "lost", "duplicate", "evalCrash", "propCrash",
           "lockExpiry", "cancel"}

ASSUME EngineAssumption ==
    /\ Pace \in Paces
    /\ Budget \in [Events -> Nat]
    /\ MaxEvents \in Nat
    /\ NoRule \notin Rules

MaxRuleRetries == 3

VARIABLES
    \* Redis: the keys ms15:run:{id}:*
    runStatus,      \* "Absent" is read as Seeding
    snapshot,       \* is the blueprint stored?
    status,         \* rule status; an absent key is read as Idle
    lock,           \* is the rule's lock held?
    attempts,       \* failed attempts of a rule
    filled,         \* the projections that hold data
    anchored,       \* the anchored nodes
    iteration,      \* completed iterations of a controller
    \* RabbitMQ
    evals,          \* ms15_eval_queue: eval checks per rule
    requests,       \* requests MS5 and MS6 have not answered, per rule
    results,        \* inference_result_queue, per rule and outcome
    \* handlers
    trigger,        \* start_run: its step and the nodes it has to seed
    cancel,         \* cancel_run: its step
    ev,             \* evaluator tasks
    pr,             \* propagator tasks
    \* environment and history
    budget,         \* what is left of Budget
    spare,          \* what is left of MaxEvents
    dispatches,     \* history: requests published for a rule
    accepted,       \* history: rules a success was accepted for
    abandoned       \* history: rules that were marked Failed

redis == <<runStatus, snapshot, status, lock, attempts, filled, anchored, iteration>>
queues == <<evals, requests, results>>
handlers == <<trigger, cancel, ev, pr>>
history == <<dispatches, accepted, abandoned>>
bounds == <<budget, spare>>
vars == <<redis, queues, handlers, bounds, history>>

-----------------------------------------------------------------------------
(* Tasks.  A task remembers what its handler holds in local variables.    *)

EvalIdle == [pc |-> "idle", rule |-> NoRule, next |-> 1, avail |-> {}]

PropIdle == [pc |-> "idle", rule |-> NoRule, outcome |-> "success",
             todo |-> {}, ctrl |-> NoRule, resets |-> {}, cur |-> NoRule,
             scan |-> {}, termsDone |-> TRUE, running |-> FALSE, settled |-> TRUE]

EvalPcs == {"idle", "status", "scan", "gate", "lock", "recheck", "render",
            "publish", "dispatch"}

PropPcs == {"idle", "check", "fan", "complete", "anchor", "home", "iterate",
            "resetStatus", "resetLock", "refire", "close", "scan", "finish",
            "count", "retryIdle", "unlock", "retryEval", "fail"}

EvalLocal == [pc : EvalPcs, rule : Rules \cup {NoRule},
              next : Nat, avail : SUBSET Projections]

PropLocal == [pc : PropPcs, rule : Rules \cup {NoRule},
              outcome : Outcomes, todo : SUBSET Projections,
              ctrl : Rules \cup {NoRule}, resets : SUBSET Rules,
              cur : Rules \cup {NoRule}, scan : SUBSET Rules,
              termsDone : BOOLEAN, running : BOOLEAN, settled : BOOLEAN]

RedisOK ==
    /\ runStatus \in {"Absent", "Running", "Completed", "Canceled"}
    /\ snapshot \in BOOLEAN
    /\ status \in [Rules -> {"Idle", "Dispatched", "Completed", "Failed"}]
    /\ lock \in [Rules -> BOOLEAN]
    /\ attempts \in [Rules -> Nat]
    /\ filled \subseteq Projections
    /\ anchored \subseteq Nodes
    /\ iteration \in [Rules -> Nat]

QueuesOK ==
    /\ evals \in [Rules -> Nat]
    /\ requests \in [Rules -> Nat]
    /\ results \in [Rules \X Outcomes -> Nat]

ApiOK ==
    /\ trigger \in [pc : {"save", "seed", "run", "done"}, todo : SUBSET Nodes]
    /\ cancel \in {"idle", "cleanup"}

HistoryOK ==
    /\ budget \in [Events -> Nat]
    /\ spare \in Nat
    /\ dispatches \in [Rules -> Nat]
    /\ accepted \subseteq Rules
    /\ abandoned \subseteq Rules

TypeOK ==
    /\ RedisOK
    /\ QueuesOK
    /\ ApiOK
    /\ ev \in [EvalTasks -> EvalLocal]
    /\ pr \in [PropTasks -> PropLocal]
    /\ HistoryOK

Init ==
    /\ runStatus = "Absent"
    /\ snapshot = FALSE
    /\ status = [r \in Rules |-> "Idle"]
    /\ lock = [r \in Rules |-> FALSE]
    /\ attempts = [r \in Rules |-> 0]
    /\ filled = {}
    /\ anchored = {}
    /\ iteration = [r \in Rules |-> 0]
    /\ evals = [r \in Rules |-> 0]
    /\ requests = [r \in Rules |-> 0]
    /\ results = [m \in Rules \X Outcomes |-> 0]
    /\ trigger = [pc |-> "save", todo |-> {}]
    /\ cancel = "idle"
    /\ ev = [t \in EvalTasks |-> EvalIdle]
    /\ pr = [t \in PropTasks |-> PropIdle]
    /\ budget = Budget
    /\ spare = MaxEvents
    /\ dispatches = [r \in Rules |-> 0]
    /\ accepted = {}
    /\ abandoned = {}

\* Publish one eval check for each rule of S.
PublishEvals(S) == evals' = [r \in Rules |-> IF r \in S THEN evals[r] + 1 ELSE evals[r]]

Spend(e) ==
    /\ budget[e] > 0 /\ budget' = [budget EXCEPT ![e] = @ - 1]
    /\ spare > 0 /\ spare' = spare - 1

-----------------------------------------------------------------------------
(* start_run                                                               *)

TriggerSave ==
    /\ trigger.pc = "save"
    /\ Rules # {}
    /\ snapshot' = TRUE
    /\ trigger' = [pc |-> IF UserInputs = {} THEN "run" ELSE "seed", todo |-> UserInputs]
    /\ UNCHANGED <<runStatus, status, lock, attempts, filled, anchored, iteration,
                   queues, cancel, ev, pr, bounds, history>>

\* Seed one node, if it has a seed projection, and check all of its rules.
TriggerSeed(n) ==
    /\ trigger.pc = "seed"
    /\ n \in trigger.todo
    /\ \/ /\ SeedsOf(n) = {}
          /\ UNCHANGED <<filled, evals>>
       \/ \E p \in SeedsOf(n) :
            /\ filled' = filled \cup {p}
            /\ PublishEvals(RulesOn(n))
    /\ LET rest == trigger.todo \ {n}
       IN  trigger' = [pc |-> IF rest = {} THEN "run" ELSE "seed", todo |-> rest]
    /\ UNCHANGED <<runStatus, snapshot, status, lock, attempts, anchored, iteration,
                   requests, results, cancel, ev, pr, bounds, history>>

TriggerRun ==
    /\ trigger.pc = "run"
    /\ runStatus' = "Running"
    /\ trigger' = [trigger EXCEPT !.pc = "done"]
    /\ UNCHANGED <<snapshot, status, lock, attempts, filled, anchored, iteration,
                   queues, cancel, ev, pr, bounds, history>>

-----------------------------------------------------------------------------
(* cancel_run: the caller learns the run's id when start_run returns.      *)

CancelMark ==
    /\ cancel = "idle"
    /\ trigger.pc = "done"
    /\ Spend("cancel")
    /\ runStatus' = "Canceled"
    /\ cancel' = "cleanup"
    /\ UNCHANGED <<snapshot, status, lock, attempts, filled, anchored, iteration,
                   queues, trigger, ev, pr, history>>

\* Mutant: a deleted rule status is not read as Idle.
MutCancelCleanup ==
    /\ cancel = "cleanup"
    /\ runStatus' = "Absent"
    /\ snapshot' = FALSE
    /\ status' = [r \in Rules |-> "Absent"]
    /\ lock' = [r \in Rules |-> FALSE]
    /\ attempts' = [r \in Rules |-> 0]
    /\ filled' = {}
    /\ anchored' = {}
    /\ iteration' = [r \in Rules |-> 0]
    /\ cancel' = "idle"
    /\ UNCHANGED <<queues, trigger, ev, pr, bounds, history>>

\* cleanup_run deletes every key of the run, the status it just got included.
CancelCleanup ==
    /\ cancel = "cleanup"
    /\ runStatus' = "Absent"
    /\ snapshot' = FALSE
    /\ status' = [r \in Rules |-> "Idle"]
    /\ lock' = [r \in Rules |-> FALSE]
    /\ attempts' = [r \in Rules |-> 0]
    /\ filled' = {}
    /\ anchored' = {}
    /\ iteration' = [r \in Rules |-> 0]
    /\ cancel' = "idle"
    /\ UNCHANGED <<queues, trigger, ev, pr, bounds, history>>

-----------------------------------------------------------------------------
(* process_check, one evaluator task                                       *)

EvalGoto(t, pc) == ev' = [ev EXCEPT ![t].pc = pc]
EvalAck(t) == ev' = [ev EXCEPT ![t] = EvalIdle]

EvalReceive(t, r) ==
    /\ ev[t].pc = "idle"
    /\ evals[r] > 0
    /\ evals' = [evals EXCEPT ![r] = @ - 1]
    /\ IF runStatus = "Canceled"
       THEN UNCHANGED ev
       ELSE ev' = [ev EXCEPT ![t] = [EvalIdle EXCEPT !.pc = "status", !.rule = r]]
    /\ UNCHANGED <<redis, requests, results, trigger, cancel, pr, bounds, history>>

EvalStatus(t) ==
    /\ ev[t].pc = "status"
    /\ IF status[ev[t].rule] \in {"Dispatched", "Completed"} \/ ~snapshot
       THEN EvalAck(t)
       ELSE EvalGoto(t, IF Inputs[ev[t].rule] = <<>> THEN "gate" ELSE "scan")
    /\ UNCHANGED <<redis, queues, trigger, cancel, pr, bounds, history>>

\* One has_input_data call.
EvalScan(t) ==
    /\ ev[t].pc = "scan"
    /\ LET r == ev[t].rule
           i == ev[t].next
           p == Inputs[r][i]
       IN  ev' = [ev EXCEPT ![t].avail = IF p \in filled THEN @ \cup {p} ELSE @,
                            ![t].next = i + 1,
                            ![t].pc = IF i = Len(Inputs[r]) THEN "gate" ELSE "scan"]
    /\ UNCHANGED <<redis, queues, trigger, cancel, pr, bounds, history>>

\* Readiness, then the anchor gate for a feedback rule.
EvalGate(t) ==
    /\ ev[t].pc = "gate"
    /\ LET r == ev[t].rule
       IN  IF /\ Ready(r, ev[t].avail)
              /\ IsForwardFamily(r) \/ Owner[r] \in anchored
           THEN EvalGoto(t, "lock")
           ELSE EvalAck(t)
    /\ UNCHANGED <<redis, queues, trigger, cancel, pr, bounds, history>>

\* Mutant: SET without NX.
MutEvalLock(t) ==
    /\ ev[t].pc = "lock"
    /\ EvalGoto(t, "recheck") /\ lock' = [lock EXCEPT ![ev[t].rule] = TRUE]
    /\ UNCHANGED <<runStatus, snapshot, status, attempts, filled, anchored, iteration,
                   queues, trigger, cancel, pr, bounds, history>>

EvalLock(t) ==
    /\ ev[t].pc = "lock"
    /\ IF lock[ev[t].rule]
       THEN EvalAck(t) /\ UNCHANGED lock
       ELSE EvalGoto(t, "recheck") /\ lock' = [lock EXCEPT ![ev[t].rule] = TRUE]
    /\ UNCHANGED <<runStatus, snapshot, status, attempts, filled, anchored, iteration,
                   queues, trigger, cancel, pr, bounds, history>>

\* The early return keeps the lock.
EvalRecheck(t) ==
    /\ ev[t].pc = "recheck"
    /\ IF status[ev[t].rule] \in {"Dispatched", "Completed"}
       THEN EvalAck(t)
       ELSE EvalGoto(t, "render")
    /\ UNCHANGED <<redis, queues, trigger, cancel, pr, bounds, history>>

\* Read the values of the available inputs and render the prompt: an error if
\* a placeholder has no value, and that return keeps the lock too.
EvalRender(t) ==
    /\ ev[t].pc = "render"
    /\ IF Placeholders(ev[t].rule) \subseteq ev[t].avail \cap filled
       THEN EvalGoto(t, "publish")
       ELSE EvalAck(t)
    /\ UNCHANGED <<redis, queues, trigger, cancel, pr, bounds, history>>

EvalPublish(t) ==
    /\ ev[t].pc = "publish"
    /\ LET r == ev[t].rule
       IN  /\ requests' = [requests EXCEPT ![r] = @ + 1]
           /\ dispatches' = [dispatches EXCEPT ![r] = @ + 1]
    /\ EvalGoto(t, "dispatch")
    /\ UNCHANGED <<redis, evals, results, trigger, cancel, pr, bounds, accepted, abandoned>>

EvalDispatch(t) ==
    /\ ev[t].pc = "dispatch"
    /\ status' = [status EXCEPT ![ev[t].rule] = "Dispatched"]
    /\ EvalAck(t)
    /\ UNCHANGED <<runStatus, snapshot, lock, attempts, filled, anchored, iteration,
                   queues, trigger, cancel, pr, bounds, history>>

\* The worker dies before the acknowledgement: the check is delivered again.
EvalCrash(t) ==
    /\ ev[t].pc # "idle"
    /\ Spend("evalCrash")
    /\ PublishEvals({ev[t].rule})
    /\ EvalAck(t)
    /\ UNCHANGED <<redis, requests, results, trigger, cancel, pr, history>>

-----------------------------------------------------------------------------
(* process_result, one propagator task                                     *)

PropGoto(t, pc) == pr' = [pr EXCEPT ![t].pc = pc]
PropAck(t) == pr' = [pr EXCEPT ![t] = PropIdle]

\* Where a success goes once nothing is left to fan out, to anchor, ...
AfterAnchor(r) == IF r \in Controllers THEN "close" ELSE "home"

PropReceive(t, r, o) ==
    /\ pr[t].pc = "idle"
    /\ results[<<r, o>>] > 0
    /\ results' = [results EXCEPT ![<<r, o>>] = @ - 1]
    /\ IF runStatus = "Canceled"
       THEN UNCHANGED pr
       ELSE pr' = [pr EXCEPT ![t] = [PropIdle EXCEPT !.pc = "check", !.rule = r, !.outcome = o]]
    /\ UNCHANGED <<redis, evals, requests, trigger, cancel, ev, bounds, history>>

\* Ignore a result for a Completed rule or for a run that is gone.
PropCheck(t) ==
    /\ pr[t].pc = "check"
    /\ LET r == pr[t].rule
           ignored == status[r] = "Completed" \/ ~snapshot
       IN  \/ /\ ignored
              /\ PropAck(t)
              /\ UNCHANGED accepted
           \/ /\ ~ignored /\ pr[t].outcome = "error"
              /\ PropGoto(t, "count")
              /\ UNCHANGED accepted
           \/ /\ ~ignored /\ pr[t].outcome = "success"
              /\ pr' = [pr EXCEPT ![t].todo = Route[r],
                                  ![t].pc = IF Route[r] = {} THEN "complete" ELSE "fan"]
              /\ accepted' = accepted \cup {r}
    /\ UNCHANGED <<redis, queues, trigger, cancel, ev, bounds, dispatches, abandoned>>

\* Write one target and wake the rules that read it.
PropFan(t) ==
    /\ pr[t].pc = "fan"
    /\ \E p \in pr[t].todo :
         LET rest == pr[t].todo \ {p}
         IN  /\ filled' = filled \cup {p}
             /\ PublishEvals(Affected(p))
             /\ pr' = [pr EXCEPT ![t].todo = rest,
                                 ![t].pc = IF rest = {} THEN "complete" ELSE "fan"]
    /\ UNCHANGED <<runStatus, snapshot, status, lock, attempts, anchored, iteration,
                   requests, results, trigger, cancel, ev, bounds, history>>

PropComplete(t) ==
    /\ pr[t].pc = "complete"
    /\ LET r == pr[t].rule
       IN  /\ status' = [status EXCEPT ![r] = "Completed"]
           /\ PropGoto(t, IF IsForwardFamily(r) THEN "anchor" ELSE AfterAnchor(r))
    /\ UNCHANGED <<runStatus, snapshot, lock, attempts, filled, anchored, iteration,
                   queues, trigger, cancel, ev, bounds, history>>

PropAnchor(t) ==
    /\ pr[t].pc = "anchor"
    /\ anchored' = anchored \cup {Owner[pr[t].rule]}
    /\ PropGoto(t, AfterAnchor(pr[t].rule))
    /\ UNCHANGED <<runStatus, snapshot, status, lock, attempts, filled, iteration,
                   queues, trigger, cancel, ev, bounds, history>>

\* Home runs are looked for in a Running run only.
PropHome(t) ==
    /\ pr[t].pc = "home"
    /\ LET home == HomeTargets(pr[t].rule)
       IN  IF runStatus = "Running" /\ home # {}
           THEN pr' = [pr EXCEPT ![t].todo = home, ![t].pc = "iterate"]
           ELSE PropGoto(t, "close")
    /\ UNCHANGED <<redis, queues, trigger, cancel, ev, bounds, history>>

\* Mutant: return without check_and_close_run.
MutNextTarget(rest) == IF rest = {} THEN "idle" ELSE "iterate"

\* The step after one home-run target has been handled.
NextTarget(rest) == IF rest = {} THEN "close" ELSE "iterate"

\* Mutant: the bound is compared with > instead of >=.
MutPropIterate(t) ==
    /\ pr[t].pc = "iterate"
    /\ \E p \in pr[t].todo : \E c \in ControllersOn(ProjOwner[p]) :
         LET rest == pr[t].todo \ {p}
             exit == MaxIterations[c] # 0 /\ iteration[c] + 1 > MaxIterations[c]
         IN  /\ iteration' = [iteration EXCEPT ![c] = @ + 1]
             /\ pr' = IF exit
                      THEN [pr EXCEPT ![t].todo = rest, ![t].pc = NextTarget(rest)]
                      ELSE [pr EXCEPT ![t].todo = rest, ![t].ctrl = c,
                                      ![t].resets = {c} \cup LoopBody(c),
                                      ![t].pc = "resetStatus"]
    /\ UNCHANGED <<runStatus, snapshot, status, lock, attempts, filled, anchored,
                   queues, trigger, cancel, ev, bounds, history>>

\* Count the iteration; at the loop bound the controller stays Completed.
PropIterate(t) ==
    /\ pr[t].pc = "iterate"
    /\ \E p \in pr[t].todo : \E c \in ControllersOn(ProjOwner[p]) :
         LET rest == pr[t].todo \ {p}
             exit == MaxIterations[c] # 0 /\ iteration[c] + 1 >= MaxIterations[c]
         IN  /\ iteration' = [iteration EXCEPT ![c] = @ + 1]
             /\ pr' = IF exit
                      THEN [pr EXCEPT ![t].todo = rest, ![t].pc = NextTarget(rest)]
                      ELSE [pr EXCEPT ![t].todo = rest, ![t].ctrl = c,
                                      ![t].resets = {c} \cup LoopBody(c),
                                      ![t].pc = "resetStatus"]
    /\ UNCHANGED <<runStatus, snapshot, status, lock, attempts, filled, anchored,
                   queues, trigger, cancel, ev, bounds, history>>

\* reset_rule_for_refire, the controller first.
PropResetStatus(t) ==
    /\ pr[t].pc = "resetStatus"
    /\ \E q \in pr[t].resets :
         /\ pr[t].ctrl \in pr[t].resets => q = pr[t].ctrl
         /\ status' = [status EXCEPT ![q] = "Idle"]
         /\ pr' = [pr EXCEPT ![t].cur = q, ![t].pc = "resetLock"]
    /\ UNCHANGED <<runStatus, snapshot, lock, attempts, filled, anchored, iteration,
                   queues, trigger, cancel, ev, bounds, history>>

\* Mutant: the attempts are reset and the lock is kept.
MutPropResetLock(t) ==
    /\ pr[t].pc = "resetLock"
    /\ LET q == pr[t].cur
           rest == pr[t].resets \ {q}
       IN  /\ attempts' = [attempts EXCEPT ![q] = 0]
           /\ pr' = [pr EXCEPT ![t].resets = rest, ![t].cur = NoRule,
                               ![t].pc = IF rest = {} THEN "refire" ELSE "resetStatus"]
    /\ UNCHANGED <<runStatus, snapshot, status, lock, filled, anchored, iteration,
                   queues, trigger, cancel, ev, bounds, history>>

PropResetLock(t) ==
    /\ pr[t].pc = "resetLock"
    /\ LET q == pr[t].cur
           rest == pr[t].resets \ {q}
       IN  /\ lock' = [lock EXCEPT ![q] = FALSE]
           /\ attempts' = [attempts EXCEPT ![q] = 0]
           /\ pr' = [pr EXCEPT ![t].resets = rest, ![t].cur = NoRule,
                               ![t].pc = IF rest = {} THEN "refire" ELSE "resetStatus"]
    /\ UNCHANGED <<runStatus, snapshot, status, filled, anchored, iteration,
                   queues, trigger, cancel, ev, bounds, history>>

\* Write the clipped baseline to the controller's inputs and wake it.
PropRefire(t) ==
    /\ pr[t].pc = "refire"
    /\ filled' = filled \cup InputSet(pr[t].ctrl)
    /\ PublishEvals({pr[t].ctrl})
    /\ pr' = [pr EXCEPT ![t].ctrl = NoRule, ![t].pc = NextTarget(pr[t].todo)]
    /\ UNCHANGED <<runStatus, snapshot, status, lock, attempts, anchored, iteration,
                   requests, results, trigger, cancel, ev, bounds, history>>

\* check_and_close_run: first the run's status, then every rule's, one by one.
PropClose(t) ==
    /\ pr[t].pc = "close"
    /\ IF runStatus \in {"Completed", "Canceled"}
       THEN PropAck(t)
       ELSE pr' = [pr EXCEPT ![t].scan = Rules, ![t].pc = "scan"]
    /\ UNCHANGED <<redis, queues, trigger, cancel, ev, bounds, history>>

\* Mutant: a run in which nothing is Dispatched is finished.
MutFinished(v) == ~v.running

Finished(v) ==
    /\ ~v.running
    /\ IF Terminal # {} THEN v.termsDone ELSE v.settled

PropScan(t) ==
    /\ pr[t].pc = "scan"
    /\ \E q \in pr[t].scan :
         LET done == status[q] \in {"Completed", "Failed"}
             looping == status[q] = "Idle" /\ q \in Controllers /\ iteration[q] > 0
             v == [pr[t] EXCEPT !.scan = @ \ {q},
                                !.termsDone = @ /\ (q \in Terminal => done),
                                !.running = @ \/ status[q] = "Dispatched" \/ looping,
                                !.settled = @ /\ done]
         IN  pr' = [pr EXCEPT ![t] =
                      IF v.scan # {} THEN v
                      ELSE IF Finished(v) THEN [v EXCEPT !.pc = "finish"]
                      ELSE PropIdle]
    /\ UNCHANGED <<redis, queues, trigger, cancel, ev, bounds, history>>

PropFinish(t) ==
    /\ pr[t].pc = "finish"
    /\ runStatus' = "Completed"
    /\ PropAck(t)
    /\ UNCHANGED <<snapshot, status, lock, attempts, filled, anchored, iteration,
                   queues, trigger, cancel, ev, bounds, history>>

\* Mutant: the bound is compared with <= instead of <.
MutPropCount(t) ==
    /\ pr[t].pc = "count"
    /\ LET r == pr[t].rule
       IN  /\ attempts' = [attempts EXCEPT ![r] = @ + 1]
           /\ PropGoto(t, IF attempts[r] + 1 <= MaxRuleRetries THEN "retryIdle" ELSE "fail")
    /\ UNCHANGED <<runStatus, snapshot, status, lock, filled, anchored, iteration,
                   queues, trigger, cancel, ev, bounds, history>>

\* A failed attempt: reset, unlock and check again, until the third.
PropCount(t) ==
    /\ pr[t].pc = "count"
    /\ LET r == pr[t].rule
       IN  /\ attempts' = [attempts EXCEPT ![r] = @ + 1]
           /\ PropGoto(t, IF attempts[r] + 1 < MaxRuleRetries THEN "retryIdle" ELSE "fail")
    /\ UNCHANGED <<runStatus, snapshot, status, lock, filled, anchored, iteration,
                   queues, trigger, cancel, ev, bounds, history>>

\* Mutant: the retry does not release the lock.
MutPropRetryIdle(t) ==
    /\ pr[t].pc = "retryIdle"
    /\ status' = [status EXCEPT ![pr[t].rule] = "Idle"]
    /\ PropGoto(t, "retryEval")
    /\ UNCHANGED <<runStatus, snapshot, lock, attempts, filled, anchored, iteration,
                   queues, trigger, cancel, ev, bounds, history>>

PropRetryIdle(t) ==
    /\ pr[t].pc = "retryIdle"
    /\ status' = [status EXCEPT ![pr[t].rule] = "Idle"]
    /\ PropGoto(t, "unlock")
    /\ UNCHANGED <<runStatus, snapshot, lock, attempts, filled, anchored, iteration,
                   queues, trigger, cancel, ev, bounds, history>>

PropUnlock(t) ==
    /\ pr[t].pc = "unlock"
    /\ lock' = [lock EXCEPT ![pr[t].rule] = FALSE]
    /\ PropGoto(t, "retryEval")
    /\ UNCHANGED <<runStatus, snapshot, status, attempts, filled, anchored, iteration,
                   queues, trigger, cancel, ev, bounds, history>>

PropRetryEval(t) ==
    /\ pr[t].pc = "retryEval"
    /\ PublishEvals({pr[t].rule})
    /\ PropAck(t)
    /\ UNCHANGED <<redis, requests, results, trigger, cancel, ev, bounds, history>>

\* Mutant: a failed rule does not check whether the run is over.
MutPropFail(t) ==
    /\ pr[t].pc = "fail"
    /\ LET r == pr[t].rule
       IN  /\ status' = [status EXCEPT ![r] = "Failed"]
           /\ abandoned' = abandoned \cup {r}
    /\ PropAck(t)
    /\ UNCHANGED <<runStatus, snapshot, lock, attempts, filled, anchored, iteration,
                   queues, trigger, cancel, ev, bounds, dispatches, accepted>>

PropFail(t) ==
    /\ pr[t].pc = "fail"
    /\ LET r == pr[t].rule
       IN  /\ status' = [status EXCEPT ![r] = "Failed"]
           /\ abandoned' = abandoned \cup {r}
    /\ PropGoto(t, "close")
    /\ UNCHANGED <<runStatus, snapshot, lock, attempts, filled, anchored, iteration,
                   queues, trigger, cancel, ev, bounds, dispatches, accepted>>

PropCrash(t) ==
    /\ pr[t].pc # "idle"
    /\ Spend("propCrash")
    /\ results' = [results EXCEPT ![<<pr[t].rule, pr[t].outcome>>] = @ + 1]
    /\ PropAck(t)
    /\ UNCHANGED <<redis, evals, requests, trigger, cancel, ev, history>>

-----------------------------------------------------------------------------
(* The outcome of MS5 and MS6, and the lock's TTL.                         *)

\* The writes by which a handler follows up on a publish are done: the trigger's
\* status, the evaluator's status, the propagator's status and anchor.
FollowUpsDone(r) ==
    /\ trigger.pc = "done"
    /\ \A t \in EvalTasks : ~(ev[t].pc = "dispatch" /\ ev[t].rule = r)
    /\ \A t \in PropTasks : pr[t].pc \notin {"fan", "complete", "anchor"}

HandlersDone ==
    /\ \A q \in Rules : evals[q] = 0
    /\ \A t \in EvalTasks : ev[t].pc = "idle"
    /\ \A t \in PropTasks : pr[t].pc = "idle"

MayReply(r) ==
    /\ Pace # "racing" => FollowUpsDone(r)
    /\ Pace = "drained" => HandlersDone

Answer(r, o) == results' = [results EXCEPT ![<<r, o>>] = @ + 1]
TakeRequest(r) == requests[r] > 0 /\ requests' = [requests EXCEPT ![r] = @ - 1]

InferSuccess(r) ==
    /\ MayReply(r)
    /\ TakeRequest(r)
    /\ Answer(r, "success")
    /\ UNCHANGED <<redis, evals, handlers, bounds, history>>

InferError(r) ==
    /\ MayReply(r)
    /\ TakeRequest(r)
    /\ Answer(r, "error")
    /\ Spend("error")
    /\ UNCHANGED <<redis, evals, handlers, history>>

\* MS5 acknowledges a graph request whose processing raised.
InferLose(r) ==
    /\ TakeRequest(r)
    /\ Spend("lost")
    /\ UNCHANGED <<redis, evals, results, handlers, history>>

\* MS6 answers and dies before it acknowledges the job: the job runs again.
InferAgain(r, o) ==
    /\ MayReply(r)
    /\ requests[r] > 0
    /\ Answer(r, o)
    /\ Spend("duplicate")
    /\ UNCHANGED <<redis, evals, requests, handlers, history>>

LockExpire(r) ==
    /\ lock[r]
    /\ Spend("lockExpiry")
    /\ lock' = [lock EXCEPT ![r] = FALSE]
    /\ UNCHANGED <<runStatus, snapshot, status, attempts, filled, anchored, iteration,
                   queues, handlers, history>>

-----------------------------------------------------------------------------
Trigger == TriggerSave \/ (\E n \in Nodes : TriggerSeed(n)) \/ TriggerRun

EvalStep(t) ==
    \/ EvalStatus(t) \/ EvalScan(t) \/ EvalGate(t) \/ EvalLock(t)
    \/ EvalRecheck(t) \/ EvalRender(t) \/ EvalPublish(t) \/ EvalDispatch(t)

PropStep(t) ==
    \/ PropCheck(t) \/ PropFan(t) \/ PropComplete(t) \/ PropAnchor(t)
    \/ PropHome(t) \/ PropIterate(t) \/ PropResetStatus(t) \/ PropResetLock(t)
    \/ PropRefire(t) \/ PropClose(t) \/ PropScan(t) \/ PropFinish(t)
    \/ PropCount(t) \/ PropRetryIdle(t) \/ PropUnlock(t) \/ PropRetryEval(t)
    \/ PropFail(t)

EvalTake(t) == \E r \in Rules : EvalReceive(t, r)
PropTake(t) == \E r \in Rules, o \in Outcomes : PropReceive(t, r, o)
Infer(r) == InferSuccess(r) \/ InferError(r)

Next ==
    \/ Trigger
    \/ CancelMark \/ CancelCleanup
    \/ \E t \in EvalTasks : EvalTake(t) \/ EvalStep(t) \/ EvalCrash(t)
    \/ \E t \in PropTasks : PropTake(t) \/ PropStep(t) \/ PropCrash(t)
    \/ \E r \in Rules : \/ Infer(r) \/ InferLose(r) \/ LockExpire(r)
                        \/ \E o \in Outcomes : InferAgain(r, o)

Spec == Init /\ [][Next]_vars

\* The runtime runs every spawned task and delivers every message; MS6 answers
\* every request it is not made to lose.  Nothing obliges anyone to cancel.
Fairness ==
    /\ WF_vars(Trigger)
    /\ WF_vars(CancelCleanup)
    /\ \A t \in EvalTasks : WF_vars(EvalStep(t)) /\ WF_vars(EvalTake(t))
    /\ \A t \in PropTasks : WF_vars(PropStep(t)) /\ WF_vars(PropTake(t))
    /\ \A r \in Rules : WF_vars(Infer(r))

FairSpec == Spec /\ Fairness

-----------------------------------------------------------------------------
(* Properties                                                              *)

\* Whatever fails, is repeated or is cancelled, the engine carries out the
\* contract of GraphRun: causal dispatch, the anchor gate, and a run closed
\* only over terminal rules that have ended (evaluator.rs, propagator.rs).
Contract == INSTANCE GraphRun WITH
    sent <- {r \in Rules : dispatches[r] > 0},
    closed <- runStatus = "Completed"

ContractSpec == Contract!Spec

\* Where the one permit to execute r can be: with an evaluator between lock and
\* publish, in a request, in a result, or with the propagator that has not yet
\* recorded what became of it.
EvalHolds(t, r) == ev[t].rule = r /\ ev[t].pc \in {"recheck", "render", "publish"}

PropHolds(t, r) ==
    /\ pr[t].rule = r
    /\ pr[t].pc \in {"check", "fan", "complete", "count", "retryIdle", "unlock", "fail"}

InFlight(r) ==
    \/ requests[r] > 0
    \/ \E o \in Outcomes : results[<<r, o>>] > 0
    \/ \E t \in PropTasks : PropHolds(t, r)

Waiting(r) == requests[r] + results[<<r, "success">>] + results[<<r, "error">>]

\* Nothing has happened so far that repeats a result or takes a lock away.
Undisturbed ==
    /\ \A e \in {"duplicate", "propCrash", "lockExpiry", "cancel"} : budget[e] = Budget[e]
    /\ \A c \in Rules : iteration[c] = 0

OneAttempt(r) ==
    /\ \A t, u \in EvalTasks : EvalHolds(t, r) /\ EvalHolds(u, r) => t = u
    /\ \A t, u \in PropTasks : PropHolds(t, r) /\ PropHolds(u, r) => t = u
    /\ Waiting(r) <= 1
    /\ (\E t \in EvalTasks : EvalHolds(t, r)) =>
          Waiting(r) = 0 /\ \A t \in PropTasks : ~PropHolds(t, r)
    /\ (\E t \in PropTasks : PropHolds(t, r)) => Waiting(r) = 0

\* A rule never has two attempts under way: a retry is dispatched only when
\* nothing is left of the attempt before it, although any number of eval checks
\* race for the rule, the evaluators may crash and its status may be overwritten
\* by a late Dispatched.  The lock alone ensures it (lock_rule, unlock_rule).
SingleFlight == Undisturbed => \A r \in Rules : OneAttempt(r)

\* The retry budget is never exceeded: at most three requests are published for
\* a rule outside loops, however its retries interleave (MAX_RULE_RETRIES).
RetryBudget == Undisturbed => \A r \in Rules : dispatches[r] <= MaxRuleRetries

Quiet ==
    /\ trigger.pc = "done"
    /\ cancel = "idle"
    /\ \A r \in Rules : evals[r] = 0 /\ requests[r] = 0
    /\ \A m \in Rules \X Outcomes : results[m] = 0
    /\ \A t \in EvalTasks : ev[t].pc = "idle"
    /\ \A t \in PropTasks : pr[t].pc = "idle"

\* A rule that others may wait for was given up.
Blocked == ~(abandoned \subseteq Terminal)

\* When nothing is left to handle, the run is closed and each rule has ended:
\* no interleaving loses a wake-up or the last completion check.
NothingStranded ==
    Quiet /\ ~Blocked =>
        /\ runStatus = "Completed"
        /\ \A r \in Rules : status[r] \in {"Completed", "Failed"}

\* A closed run stays closed and sends nothing more (check_and_close_run).
ClosedIsFinal ==
    [][runStatus = "Completed" => runStatus' = "Completed" /\ dispatches' = dispatches]_vars

\* Every run is closed in the end, and stays closed.
RunCloses == <>[](runStatus = "Completed" \/ Blocked)

\* A loop makes exactly the iterations it is bound to: a home run is counted
\* once, the controller is not woken past the bound, and the run is not closed
\* over a loop that has iterations to go, unless a rule was given up
\* (process_result, step 8).
LoopRunsToBound ==
    \A c \in Controllers :
        MaxIterations[c] # 0 =>
            /\ iteration[c] <= MaxIterations[c]
            /\ runStatus = "Completed" /\ abandoned = {} => iteration[c] = MaxIterations[c]

-----------------------------------------------------------------------------
(* Claims of the repository that the engine does not keep.                 *)

\* propagator.rs:33-37: the run is marked completed only if all rules have
\* reached a terminal state, whichever rule finishes first.
ClosedOverSettled ==
    runStatus = "Completed" => \A r \in Rules : status[r] \in {"Completed", "Failed"}

\* enums.rs:10-11: an OR rule fires when at least one input has data.
OrRuleFires ==
    \A r \in Rules : Mode[r] = "OR" /\ InputSet(r) \cap filled # {} ~> dispatches[r] > 0

\* README.md:419: a cancelled run is terminated and its state is Canceled; it is
\* at least never reported as completed.
CanceledNeverCompletes ==
    budget["cancel"] < Budget["cancel"] => runStatus # "Completed"

\* evaluator.rs:76-78: a feedback rule that is held at the anchor gate is only
\* delayed, not lost: when nothing is left to handle, a rule whose inputs are
\* there and whose node is anchored was sent.
HeldRuleFires ==
    Quiet => \A r \in Rules :
                InputSet(r) \subseteq filled /\ Owner[r] \in anchored => dispatches[r] > 0
=============================================================================
