------------------------ MODULE GraphEngine_proofs ------------------------
(***************************************************************************)
(* Proofs about GraphEngine, for every graph, every number of tasks, every *)
(* budget of failures and every pace of inference: its types, and that it  *)
(* implements GraphRun.  And of loops with one thread of control: they run *)
(* to their bound, are left with nothing to do, and stay closed.           *)
(***************************************************************************)
EXTENDS GraphEngine, TLAPS

\* Every busy task works for a rule, and a reset for a controller.
EvWell ==
    /\ ev \in [EvalTasks -> EvalLocal]
    /\ \A t \in EvalTasks : ev[t].pc # "idle" => ev[t].rule \in Rules

PropLocalWell(x) ==
    /\ x.pc # "idle" => x.rule \in Rules
    /\ x.pc = "resetLock" => x.cur \in Rules
    /\ x.pc \in {"resetStatus", "resetLock", "refire"} => x.ctrl \in Rules

PrWell ==
    /\ pr \in [PropTasks -> PropLocal]
    /\ \A t \in PropTasks : PropLocalWell(pr[t])

TypeInv == RedisOK /\ QueuesOK /\ ApiOK /\ HistoryOK /\ EvWell /\ PrWell

LEMMA TypeInvType == TypeInv => TypeOK
BY DEF TypeInv, TypeOK, EvWell, PrWell

-----------------------------------------------------------------------------
(* Facts about the topology and the helpers                                *)

LEMMA InputSetType ==
    ASSUME NEW r \in Rules
    PROVE  InputSet(r) \subseteq Projections
BY TopologyAssumption DEF InputSet

LEMMA IdleLocals ==
    /\ EvalIdle \in EvalLocal
    /\ PropIdle \in PropLocal
    /\ EvalIdle.pc = "idle"
    /\ PropIdle.pc = "idle"
BY DEF EvalIdle, EvalLocal, EvalPcs, PropIdle, PropLocal, PropPcs, Outcomes

LEMMA PublishType ==
    ASSUME evals \in [Rules -> Nat], NEW S, PublishEvals(S)
    PROVE  evals' \in [Rules -> Nat]
BY DEF PublishEvals

LEMMA SpendType ==
    ASSUME HistoryOK, NEW e \in Events, Spend(e), UNCHANGED history
    PROVE  HistoryOK'
BY DEF Spend, HistoryOK, history

-----------------------------------------------------------------------------
(* How a step may move one task                                            *)

LEMMA EvalChange ==
    ASSUME EvWell, NEW t \in EvalTasks, NEW x \in EvalLocal,
           ev' = [ev EXCEPT ![t] = x], x.pc # "idle" => x.rule \in Rules
    PROVE  EvWell'
BY DEF EvWell

LEMMA EvalAcked ==
    ASSUME EvWell, NEW t \in EvalTasks, EvalAck(t)
    PROVE  EvWell'
BY IdleLocals, EvalChange DEF EvalAck

LEMMA EvalMoved ==
    ASSUME EvWell, NEW t \in EvalTasks, ev[t].pc # "idle",
           NEW pc \in EvalPcs, EvalGoto(t, pc)
    PROVE  EvWell'
<1> DEFINE x == [ev[t] EXCEPT !.pc = pc]
<1>1. ev[t] \in EvalLocal /\ ev[t].rule \in Rules
    BY DEF EvWell
<1>2. x \in EvalLocal /\ x.rule \in Rules
    BY <1>1 DEF EvalLocal
<1>3. ev' = [ev EXCEPT ![t] = x]
    BY DEF EvalGoto
<1> HIDE DEF x
<1> QED BY <1>2, <1>3, EvalChange

LEMMA PropChange ==
    ASSUME PrWell, NEW t \in PropTasks, NEW x \in PropLocal,
           pr' = [pr EXCEPT ![t] = x], PropLocalWell(x)
    PROVE  PrWell'
<1> USE DEF PrWell
<1>1. pr' \in [PropTasks -> PropLocal]
    OBVIOUS
<1>2. ASSUME NEW u \in PropTasks PROVE PropLocalWell(pr'[u])
    BY DEF PropLocalWell
<1> QED BY <1>1, <1>2 DEF PropLocalWell

LEMMA PropAcked ==
    ASSUME PrWell, NEW t \in PropTasks, PropAck(t)
    PROVE  PrWell'
BY IdleLocals, PropChange DEF PropAck, PropLocalWell

\* To a step at which a task holds no controller.
LEMMA PropMoved ==
    ASSUME PrWell, NEW t \in PropTasks, pr[t].pc # "idle",
           NEW pc \in PropPcs \ {"resetStatus", "resetLock", "refire"}, PropGoto(t, pc)
    PROVE  PrWell'
<1> DEFINE x == [pr[t] EXCEPT !.pc = pc]
<1>1. pr[t] \in PropLocal /\ pr[t].rule \in Rules
    BY DEF PrWell, PropLocalWell
<1>2. x \in PropLocal /\ x.rule \in Rules /\ x.pc = pc
    BY <1>1 DEF PropLocal
<1>3. pr' = [pr EXCEPT ![t] = x]
    BY DEF PropGoto
<1> HIDE DEF x
<1> QED BY <1>2, <1>3, PropChange DEF PropLocalWell

-----------------------------------------------------------------------------
(* Type correctness                                                        *)

LEMMA TypeInit == Init => TypeInv
<1> SUFFICES ASSUME Init PROVE TypeInv
    OBVIOUS
<1> USE DEF Init
<1>1. RedisOK /\ QueuesOK /\ ApiOK /\ HistoryOK
    BY EngineAssumption DEF RedisOK, QueuesOK, ApiOK, HistoryOK
<1>2. EvWell /\ PrWell
    BY IdleLocals DEF EvWell, PrWell, PropLocalWell
<1> QED BY <1>1, <1>2 DEF TypeInv

\* A step that only moves tasks keeps the types of the rest.
LEMMA TypeStutter ==
    ASSUME TypeInv, UNCHANGED <<redis, queues, bounds, history>>
    PROVE  RedisOK' /\ QueuesOK' /\ HistoryOK'
BY DEF TypeInv, RedisOK, QueuesOK, HistoryOK, redis, queues, bounds, history

LEMMA TypeTrigger ==
    ASSUME TypeInv, Trigger
    PROVE  TypeInv'
<1>1. UNCHANGED <<bounds, history, ev, pr>>
    BY DEF Trigger, TriggerSave, TriggerSeed, TriggerRun
<1>2. HistoryOK' /\ EvWell' /\ PrWell'
    BY <1>1 DEF TypeInv, HistoryOK, EvWell, PrWell, bounds, history
<1> USE DEF TypeInv, RedisOK, QueuesOK, ApiOK
<1>3. CASE TriggerSave
    BY <1>2, <1>3, TopologyAssumption DEF TriggerSave, queues
<1>4. ASSUME NEW n \in Nodes, TriggerSeed(n) PROVE TypeInv'
  <2>1. filled' \subseteq Projections
      BY <1>4, TopologyAssumption DEF TriggerSeed, SeedsOf
  <2>2. evals' \in [Rules -> Nat]
      BY <1>4, PublishType DEF TriggerSeed
  <2> QED
      BY <1>2, <1>4, <2>1, <2>2 DEF TriggerSeed
<1>5. CASE TriggerRun
    BY <1>2, <1>5 DEF TriggerRun, queues
<1> QED BY <1>3, <1>4, <1>5 DEF Trigger

LEMMA TypeCancel ==
    ASSUME TypeInv, CancelMark \/ CancelCleanup
    PROVE  TypeInv'
<1>1. HistoryOK'
    BY SpendType DEF CancelMark, CancelCleanup, TypeInv, HistoryOK, history, bounds, Events
<1>2. QueuesOK' /\ EvWell' /\ PrWell'
    BY DEF CancelMark, CancelCleanup, TypeInv, QueuesOK, EvWell, PrWell, queues
<1>3. CASE CancelMark
    BY <1>1, <1>2, <1>3 DEF CancelMark, TypeInv, RedisOK, ApiOK
<1>4. CASE CancelCleanup
    BY <1>1, <1>2, <1>4 DEF CancelCleanup, TypeInv, RedisOK, ApiOK
<1> QED BY <1>3, <1>4

LEMMA TypeEval ==
    ASSUME TypeInv, NEW t \in EvalTasks, EvalTake(t) \/ EvalStep(t) \/ EvalCrash(t)
    PROVE  TypeInv'
<1> USE DEF TypeInv
<1>1. ApiOK' /\ PrWell'
    BY DEF EvalTake, EvalReceive, EvalStep, EvalStatus, EvalScan, EvalGate, EvalLock,
           EvalRecheck, EvalRender, EvalPublish, EvalDispatch, EvalCrash, ApiOK, PrWell
<1>2. ASSUME NEW r \in Rules, EvalReceive(t, r) PROVE TypeInv'
  <2>1. EvWell'
    <3> DEFINE x == [EvalIdle EXCEPT !.pc = "status", !.rule = r]
    <3>1. x \in EvalLocal /\ x.rule \in Rules
        BY DEF EvalIdle, EvalLocal, EvalPcs
    <3>2. UNCHANGED ev \/ ev' = [ev EXCEPT ![t] = x]
        BY <1>2 DEF EvalReceive
    <3> HIDE DEF x
    <3> QED BY <3>1, <3>2, EvalChange DEF EvWell
  <2> QED
      BY <1>1, <1>2, <2>1 DEF EvalReceive, RedisOK, QueuesOK, HistoryOK,
                              redis, bounds, history
<1>3. ASSUME EvalStatus(t) \/ EvalGate(t) \/ EvalRecheck(t) \/ EvalRender(t)
      PROVE  TypeInv'
  <2>1. EvWell'
      BY <1>3, EvalAcked, EvalMoved
      DEF EvalStatus, EvalGate, EvalRecheck, EvalRender, EvalPcs
  <2>2. UNCHANGED <<redis, queues, bounds, history>>
      BY <1>3 DEF EvalStatus, EvalGate, EvalRecheck, EvalRender
  <2> QED
      BY <1>1, <2>1, <2>2, TypeStutter
<1>4. CASE EvalScan(t)
  <2> DEFINE r == ev[t].rule
             i == ev[t].next
             a == IF Inputs[r][i] \in filled
                  THEN ev[t].avail \cup {Inputs[r][i]} ELSE ev[t].avail
             pc == IF i = Len(Inputs[r]) THEN "gate" ELSE "scan"
             x == [ev[t] EXCEPT !.avail = a, !.next = i + 1, !.pc = pc]
  <2>1. ev[t] \in EvalLocal /\ r \in Rules /\ filled \subseteq Projections
      BY <1>4 DEF EvalScan, EvWell, RedisOK
  <2>2. ev' = [ev EXCEPT ![t] = x]
      BY <1>4 DEF EvalScan
  <2>3. a \in SUBSET Projections /\ pc \in EvalPcs /\ i + 1 \in Nat
      BY <2>1 DEF EvalLocal, EvalPcs
  <2> HIDE DEF a, pc
  <2>4. x \in EvalLocal /\ x.rule \in Rules
      BY <2>1, <2>3 DEF EvalLocal
  <2> HIDE DEF x
  <2>5. EvWell'
      BY <2>2, <2>4, EvalChange
  <2>6. UNCHANGED <<redis, queues, bounds, history>>
      BY <1>4 DEF EvalScan
  <2> QED
      BY <1>1, <2>5, <2>6, TypeStutter
<1>5. CASE EvalLock(t)
  <2>1. EvWell'
      BY <1>5, EvalAcked, EvalMoved DEF EvalLock, EvalPcs
  <2> QED
      BY <1>1, <1>5, <2>1 DEF EvalLock, RedisOK, QueuesOK, HistoryOK,
                              queues, bounds, history
<1>6. CASE EvalPublish(t)
  <2>1. EvWell'
      BY <1>6, EvalMoved DEF EvalPublish, EvalPcs
  <2>2. requests' \in [Rules -> Nat] /\ dispatches' \in [Rules -> Nat]
    <3>1. ev[t].rule \in Rules
        BY <1>6 DEF EvalPublish, EvWell
    <3> QED BY <1>6, <3>1 DEF EvalPublish, QueuesOK, HistoryOK
  <2>3. UNCHANGED <<redis, evals, results, bounds, accepted, abandoned>>
      BY <1>6 DEF EvalPublish
  <2>4. RedisOK' /\ QueuesOK' /\ HistoryOK'
      BY <2>2, <2>3 DEF RedisOK, QueuesOK, HistoryOK, redis, bounds
  <2> QED
      BY <1>1, <2>1, <2>4
<1>7. CASE EvalDispatch(t)
  <2>1. EvWell'
      BY <1>7, EvalAcked DEF EvalDispatch
  <2> QED
      BY <1>1, <1>7, <2>1 DEF EvalDispatch, RedisOK, QueuesOK, HistoryOK,
                              queues, bounds, history
<1>8. CASE EvalCrash(t)
  <2>1. EvWell' /\ evals' \in [Rules -> Nat] /\ HistoryOK'
      BY <1>8, EvalAcked, PublishType, SpendType DEF EvalCrash, QueuesOK, Events
  <2> QED
      BY <1>1, <1>8, <2>1 DEF EvalCrash, RedisOK, QueuesOK, redis
<1> QED BY <1>2, <1>3, <1>4, <1>5, <1>6, <1>7, <1>8 DEF EvalTake, EvalStep

\* A busy propagator task, as a record.
LEMMA PropBusy ==
    ASSUME PrWell, NEW t \in PropTasks, pr[t].pc # "idle"
    PROVE  /\ pr[t] \in PropLocal /\ pr[t].rule \in Rules
           /\ PropLocalWell(pr[t])
BY DEF PrWell, PropLocalWell

LEMMA PropKeeps ==
    ASSUME TypeInv, NEW t \in PropTasks, PropTake(t) \/ PropStep(t) \/ PropCrash(t)
    PROVE  ApiOK' /\ EvWell'
<1>1. UNCHANGED <<trigger, cancel, ev>>
    BY DEF PropTake, PropReceive, PropStep, PropCheck, PropFan, PropComplete, PropAnchor,
           PropHome, PropIterate, PropResetStatus, PropResetLock, PropRefire, PropClose,
           PropScan, PropFinish, PropCount, PropRetryIdle, PropUnlock, PropRetryEval,
           PropFail, PropCrash
<1> QED BY <1>1 DEF TypeInv, ApiOK, EvWell

LEMMA TypePropTake ==
    ASSUME TypeInv, NEW t \in PropTasks, PropTake(t) \/ PropCrash(t)
    PROVE  TypeInv'
<1> USE DEF TypeInv
<1>1. ApiOK' /\ EvWell'
    BY PropKeeps
<1>2. ASSUME NEW r \in Rules, NEW o \in Outcomes, PropReceive(t, r, o) PROVE TypeInv'
  <2> DEFINE x == [PropIdle EXCEPT !.pc = "check", !.rule = r, !.outcome = o]
  <2>1. x \in PropLocal /\ PropLocalWell(x)
      BY DEF PropIdle, PropLocal, PropPcs, PropLocalWell
  <2>2. UNCHANGED pr \/ pr' = [pr EXCEPT ![t] = x]
      BY <1>2 DEF PropReceive
  <2> HIDE DEF x
  <2>3. PrWell'
      BY <2>1, <2>2, PropChange DEF PrWell, PropLocalWell
  <2>4. UNCHANGED <<redis, evals, requests, bounds, history>>
      BY <1>2 DEF PropReceive
  <2>5. results' \in [Rules \X Outcomes -> Nat]
      BY <1>2 DEF PropReceive, QueuesOK
  <2> QED
      BY <1>1, <2>3, <2>4, <2>5 DEF RedisOK, QueuesOK, HistoryOK, redis, bounds, history
<1>3. CASE PropCrash(t)
  <2>1. PrWell' /\ HistoryOK'
      BY <1>3, PropAcked, SpendType DEF PropCrash, Events
  <2>2. pr[t].rule \in Rules /\ pr[t].outcome \in Outcomes
      BY <1>3, PropBusy DEF PropCrash, PropLocal
  <2>3. results' \in [Rules \X Outcomes -> Nat]
      BY <1>3, <2>2 DEF PropCrash, QueuesOK
  <2> QED
      BY <1>1, <1>3, <2>1, <2>3 DEF PropCrash, RedisOK, QueuesOK, redis
<1> QED BY <1>2, <1>3 DEF PropTake

LEMMA TypePropSuccess ==
    ASSUME TypeInv, NEW t \in PropTasks,
           PropCheck(t) \/ PropFan(t) \/ PropComplete(t) \/ PropAnchor(t) \/ PropHome(t)
    PROVE  TypeInv'
<1> USE DEF TypeInv
<1>0. ApiOK' /\ EvWell'
    BY PropKeeps DEF PropStep
<1>1. CASE PropCheck(t)
  <2> DEFINE pc == IF Route[pr[t].rule] = {} THEN "complete" ELSE "fan"
             x == [pr[t] EXCEPT !.todo = Route[pr[t].rule], !.pc = pc]
  <2>1. pr[t] \in PropLocal /\ pr[t].rule \in Rules /\ pr[t].pc # "idle"
      BY <1>1, PropBusy DEF PropCheck
  <2>2. \/ PropAck(t) \/ PropGoto(t, "count")
        \/ pr' = [pr EXCEPT ![t] = x]
      BY <1>1 DEF PropCheck
  <2>3. pc \in PropPcs /\ pc \notin {"resetStatus", "resetLock", "refire"}
      BY DEF PropPcs
  <2> HIDE DEF pc
  <2>4. x \in PropLocal /\ PropLocalWell(x)
      BY <2>1, <2>3, TopologyAssumption DEF PropLocal, PropLocalWell
  <2> HIDE DEF x
  <2>5. PrWell'
      BY <2>1, <2>2, <2>4, PropAcked, PropMoved, PropChange DEF PropPcs
  <2>6. accepted' \subseteq Rules
      BY <1>1, <2>1 DEF PropCheck, HistoryOK
  <2>7. UNCHANGED <<redis, queues, bounds, dispatches, abandoned>>
      BY <1>1 DEF PropCheck
  <2> QED
      BY <1>0, <2>5, <2>6, <2>7 DEF RedisOK, QueuesOK, HistoryOK, redis, queues, bounds
<1>2. CASE PropFan(t)
  <2>1. pr[t] \in PropLocal /\ pr[t].rule \in Rules
      BY <1>2, PropBusy DEF PropFan
  <2>2. PICK p \in pr[t].todo :
          /\ filled' = filled \cup {p}
          /\ PublishEvals(Affected(p))
          /\ pr' = [pr EXCEPT ![t].todo = pr[t].todo \ {p},
                              ![t].pc = IF pr[t].todo \ {p} = {} THEN "complete" ELSE "fan"]
      BY <1>2 DEF PropFan
  <2> DEFINE pc == IF pr[t].todo \ {p} = {} THEN "complete" ELSE "fan"
             x == [pr[t] EXCEPT !.todo = pr[t].todo \ {p}, !.pc = pc]
  <2>3. pr' = [pr EXCEPT ![t] = x]
      BY <2>2
  <2>4. pc \in PropPcs /\ pc \notin {"resetStatus", "resetLock", "refire"}
      BY DEF PropPcs
  <2> HIDE DEF pc
  <2>5. x \in PropLocal /\ PropLocalWell(x) /\ p \in Projections
      BY <2>1, <2>2, <2>4 DEF PropLocal, PropLocalWell
  <2> HIDE DEF x
  <2>6. PrWell' /\ evals' \in [Rules -> Nat] /\ filled' \subseteq Projections
      BY <2>2, <2>3, <2>5, PropChange, PublishType DEF QueuesOK, RedisOK
  <2> QED
      BY <1>0, <1>2, <2>6 DEF PropFan, RedisOK, QueuesOK, HistoryOK, bounds, history
<1>3. CASE PropComplete(t) \/ PropAnchor(t)
  <2>1. PrWell'
      BY <1>3, PropMoved DEF PropComplete, PropAnchor, AfterAnchor, PropPcs
  <2>2. pr[t].rule \in Rules /\ Owner[pr[t].rule] \in Nodes
      BY <1>3, PropBusy, TopologyAssumption DEF PropComplete, PropAnchor
  <2>3. RedisOK'
      BY <1>3, <2>2 DEF PropComplete, PropAnchor, RedisOK
  <2>4. UNCHANGED <<queues, bounds, history>>
      BY <1>3 DEF PropComplete, PropAnchor
  <2> QED
      BY <1>0, <2>1, <2>3, <2>4 DEF QueuesOK, HistoryOK, queues, bounds, history
<1>4. CASE PropHome(t)
  <2> DEFINE x == [pr[t] EXCEPT !.todo = HomeTargets(pr[t].rule), !.pc = "iterate"]
  <2>1. pr[t] \in PropLocal /\ pr[t].rule \in Rules /\ pr[t].pc # "idle"
      BY <1>4, PropBusy DEF PropHome
  <2>2. x \in PropLocal /\ PropLocalWell(x)
    <3>1. HomeTargets(pr[t].rule) \subseteq Projections
        BY <2>1, TopologyAssumption DEF HomeTargets
    <3> QED BY <2>1, <3>1 DEF PropLocal, PropLocalWell, PropPcs
  <2>3. PropGoto(t, "close") \/ pr' = [pr EXCEPT ![t] = x]
      BY <1>4 DEF PropHome
  <2> HIDE DEF x
  <2>4. PrWell'
      BY <2>1, <2>2, <2>3, PropMoved, PropChange DEF PropPcs
  <2>5. UNCHANGED <<redis, queues, bounds, history>>
      BY <1>4 DEF PropHome
  <2> QED BY <1>0, <2>4, <2>5, TypeStutter
<1> QED BY <1>1, <1>2, <1>3, <1>4

LEMMA TypePropHome ==
    ASSUME TypeInv, NEW t \in PropTasks,
           PropIterate(t) \/ PropResetStatus(t) \/ PropResetLock(t) \/ PropRefire(t)
    PROVE  TypeInv'
<1> USE DEF TypeInv
<1>0. ApiOK' /\ EvWell' /\ pr[t] \in PropLocal /\ pr[t].rule \in Rules /\ PropLocalWell(pr[t])
    BY PropKeeps, PropBusy
    DEF PropStep, PropIterate, PropResetStatus, PropResetLock, PropRefire
<1>1. CASE PropIterate(t)
  <2>0. PICK p \in pr[t].todo : \E c \in ControllersOn(ProjOwner[p]) :
          LET rest == pr[t].todo \ {p}
              exit == MaxIterations[c] # 0 /\ iteration[c] + 1 >= MaxIterations[c]
          IN  /\ iteration' = [iteration EXCEPT ![c] = @ + 1]
              /\ pr' = IF exit
                       THEN [pr EXCEPT ![t].todo = rest, ![t].pc = NextTarget(rest)]
                       ELSE [pr EXCEPT ![t].todo = rest, ![t].ctrl = c,
                                       ![t].resets = {c} \cup LoopBody(c),
                                       ![t].pc = "resetStatus"]
      BY <1>1 DEF PropIterate
  <2>1. PICK c \in ControllersOn(ProjOwner[p]) :
          LET rest == pr[t].todo \ {p}
              exit == MaxIterations[c] # 0 /\ iteration[c] + 1 >= MaxIterations[c]
          IN  /\ iteration' = [iteration EXCEPT ![c] = @ + 1]
              /\ pr' = IF exit
                       THEN [pr EXCEPT ![t].todo = rest, ![t].pc = NextTarget(rest)]
                       ELSE [pr EXCEPT ![t].todo = rest, ![t].ctrl = c,
                                       ![t].resets = {c} \cup LoopBody(c),
                                       ![t].pc = "resetStatus"]
      BY <2>0
  <2> DEFINE rest == pr[t].todo \ {p}
             body == {c} \cup LoopBody(c)
             pc == NextTarget(rest)
             x == [pr[t] EXCEPT !.todo = rest, !.pc = pc]
             y == [pr[t] EXCEPT !.todo = rest, !.ctrl = c, !.resets = body,
                                !.pc = "resetStatus"]
  <2>2. pr' = [pr EXCEPT ![t] = x] \/ pr' = [pr EXCEPT ![t] = y]
      BY <2>1
  <2>3. c \in Rules /\ body \subseteq Rules /\ rest \subseteq Projections
      BY <1>0, TopologyAssumption DEF ControllersOn, LoopBody, PropLocal
  <2>4. pc \in PropPcs /\ pc \notin {"resetStatus", "resetLock", "refire"}
      BY DEF PropPcs, NextTarget
  <2> HIDE DEF rest, body, pc
  <2>5. x \in PropLocal /\ PropLocalWell(x)
      BY <1>0, <2>3, <2>4 DEF PropLocal, PropLocalWell
  <2>6. y \in PropLocal /\ PropLocalWell(y)
      BY <1>0, <2>3 DEF PropLocal, PropLocalWell, PropPcs
  <2> HIDE DEF x, y
  <2>7. PrWell'
      BY <2>2, <2>5, <2>6, PropChange
  <2>8. iteration' \in [Rules -> Nat]
      BY <2>1, <2>3 DEF RedisOK
  <2> QED
      BY <1>0, <1>1, <2>7, <2>8 DEF PropIterate, RedisOK, QueuesOK, HistoryOK,
                                    queues, bounds, history
<1>2. CASE PropResetStatus(t)
  <2>1. PICK q \in pr[t].resets :
          /\ status' = [status EXCEPT ![q] = "Idle"]
          /\ pr' = [pr EXCEPT ![t].cur = q, ![t].pc = "resetLock"]
      BY <1>2 DEF PropResetStatus
  <2> DEFINE x == [pr[t] EXCEPT !.cur = q, !.pc = "resetLock"]
  <2>2. q \in Rules /\ pr[t].ctrl \in Rules
      BY <1>0, <1>2 DEF PropLocal, PropLocalWell, PropResetStatus
  <2>3. x \in PropLocal /\ PropLocalWell(x)
      BY <1>0, <2>2 DEF PropLocal, PropLocalWell, PropPcs
  <2>4. pr' = [pr EXCEPT ![t] = x]
      BY <2>1
  <2> HIDE DEF x
  <2>5. PrWell' /\ status' \in [Rules -> {"Idle", "Dispatched", "Completed", "Failed"}]
      BY <2>1, <2>3, <2>4, PropChange DEF RedisOK
  <2> QED
      BY <1>0, <1>2, <2>5 DEF PropResetStatus, RedisOK, QueuesOK, HistoryOK,
                              queues, bounds, history
<1>3. CASE PropResetLock(t)
  <2> DEFINE rest == pr[t].resets \ {pr[t].cur}
             pc == IF rest = {} THEN "refire" ELSE "resetStatus"
             x == [pr[t] EXCEPT !.resets = rest, !.cur = NoRule, !.pc = pc]
  <2>1. pr[t].ctrl \in Rules /\ rest \subseteq Rules /\ pc \in {"refire", "resetStatus"}
      BY <1>0, <1>3 DEF PropLocal, PropLocalWell, PropResetLock
  <2>2. pr' = [pr EXCEPT ![t] = x]
      BY <1>3 DEF PropResetLock
  <2> HIDE DEF rest, pc
  <2>3. x \in PropLocal /\ PropLocalWell(x)
      BY <1>0, <2>1 DEF PropLocal, PropLocalWell, PropPcs
  <2> HIDE DEF x
  <2>4. PrWell' /\ lock' \in [Rules -> BOOLEAN] /\ attempts' \in [Rules -> Nat]
      BY <1>3, <2>2, <2>3, PropChange DEF PropResetLock, RedisOK
  <2> QED
      BY <1>0, <1>3, <2>4 DEF PropResetLock, RedisOK, QueuesOK, HistoryOK,
                              queues, bounds, history
<1>4. CASE PropRefire(t)
  <2> DEFINE pc == NextTarget(pr[t].todo)
             x == [pr[t] EXCEPT !.ctrl = NoRule, !.pc = pc]
  <2>1. pr[t].ctrl \in Rules /\ pc \in {"close", "iterate"}
      BY <1>0, <1>4 DEF PropLocalWell, PropRefire, NextTarget
  <2>2. pr' = [pr EXCEPT ![t] = x]
      BY <1>4 DEF PropRefire
  <2> HIDE DEF pc
  <2>3. x \in PropLocal /\ PropLocalWell(x)
      BY <1>0, <2>1 DEF PropLocal, PropLocalWell, PropPcs
  <2> HIDE DEF x
  <2>4. PrWell' /\ filled' \subseteq Projections /\ evals' \in [Rules -> Nat]
      BY <1>4, <2>1, <2>2, <2>3, PropChange, InputSetType, PublishType
      DEF PropRefire, RedisOK, QueuesOK
  <2> QED
      BY <1>0, <1>4, <2>4 DEF PropRefire, RedisOK, QueuesOK, HistoryOK, bounds, history
<1> QED BY <1>1, <1>2, <1>3, <1>4

LEMMA TypePropClose ==
    ASSUME TypeInv, NEW t \in PropTasks, PropClose(t) \/ PropScan(t) \/ PropFinish(t)
    PROVE  TypeInv'
<1> USE DEF TypeInv
<1>0. ApiOK' /\ EvWell' /\ pr[t] \in PropLocal /\ pr[t].rule \in Rules
    BY PropKeeps, PropBusy DEF PropStep, PropClose, PropScan, PropFinish
<1>1. CASE PropClose(t)
  <2> DEFINE x == [pr[t] EXCEPT !.scan = Rules, !.pc = "scan"]
  <2>1. x \in PropLocal /\ PropLocalWell(x)
      BY <1>0 DEF PropLocal, PropLocalWell, PropPcs
  <2>2. PropAck(t) \/ pr' = [pr EXCEPT ![t] = x]
      BY <1>1 DEF PropClose
  <2> HIDE DEF x
  <2>3. PrWell' /\ UNCHANGED <<redis, queues, bounds, history>>
      BY <1>1, <2>1, <2>2, PropAcked, PropChange DEF PropClose
  <2> QED BY <1>0, <2>3, TypeStutter
<1>2. CASE PropScan(t)
  <2>1. PICK q \in pr[t].scan :
          LET done == status[q] \in {"Completed", "Failed"}
              looping == status[q] = "Idle" /\ q \in Controllers /\ iteration[q] > 0
              v == [pr[t] EXCEPT !.scan = @ \ {q},
                                 !.termsDone = @ /\ (q \in Terminal => done),
                                 !.running = @ \/ status[q] = "Dispatched" \/ looping,
                                 !.settled = @ /\ done]
          IN  pr' = [pr EXCEPT ![t] =
                       IF v.scan # {} THEN v
                       ELSE IF Finished(v) THEN [v EXCEPT !.pc = "finish"]
                       ELSE PropIdle]
      BY <1>2 DEF PropScan
  <2> DEFINE done == status[q] \in {"Completed", "Failed"}
             looping == status[q] = "Idle" /\ q \in Controllers /\ iteration[q] > 0
             rest == pr[t].scan \ {q}
             terms == pr[t].termsDone /\ (q \in Terminal => done)
             runs == pr[t].running \/ status[q] = "Dispatched" \/ looping
             ends == pr[t].settled /\ done
             v == [pr[t] EXCEPT !.scan = rest, !.termsDone = terms,
                                !.running = runs, !.settled = ends]
             w == [v EXCEPT !.pc = "finish"]
  <2>2. \/ pr' = [pr EXCEPT ![t] = v]
        \/ pr' = [pr EXCEPT ![t] = w]
        \/ PropAck(t)
      BY <2>1, Zenon DEF PropAck
  <2>3. rest \in SUBSET Rules /\ terms \in BOOLEAN /\ runs \in BOOLEAN /\ ends \in BOOLEAN
      BY <1>0 DEF PropLocal
  <2>4. pr[t].pc = "scan"
      BY <1>2 DEF PropScan
  <2> HIDE DEF rest, terms, runs, ends
  <2>5. v \in PropLocal /\ PropLocalWell(v)
      BY <1>0, <2>3, <2>4 DEF PropLocal, PropLocalWell
  <2>6. w \in PropLocal /\ PropLocalWell(w)
      BY <1>0, <2>3, <2>4 DEF PropLocal, PropLocalWell, PropPcs
  <2> HIDE DEF v, w
  <2>7. PrWell' /\ UNCHANGED <<redis, queues, bounds, history>>
      BY <1>2, <2>2, <2>5, <2>6, PropAcked, PropChange DEF PropScan
  <2> QED BY <1>0, <2>7, TypeStutter
<1>3. CASE PropFinish(t)
  <2>1. PrWell'
      BY <1>3, PropAcked DEF PropFinish
  <2> QED
      BY <1>0, <1>3, <2>1 DEF PropFinish, RedisOK, QueuesOK, HistoryOK,
                              queues, bounds, history
<1> QED BY <1>1, <1>2, <1>3

LEMMA TypePropFailure ==
    ASSUME TypeInv, NEW t \in PropTasks,
           \/ PropCount(t) \/ PropRetryIdle(t) \/ PropUnlock(t)
           \/ PropRetryEval(t) \/ PropFail(t)
    PROVE  TypeInv'
<1> USE DEF TypeInv
<1>0. /\ ApiOK' /\ EvWell' /\ pr[t] \in PropLocal /\ pr[t].rule \in Rules
      /\ pr[t].pc # "idle"
    BY PropKeeps, PropBusy
    DEF PropStep, PropCount, PropRetryIdle, PropUnlock, PropRetryEval, PropFail
<1>1. PrWell'
    BY <1>0, PropMoved, PropAcked
    DEF PropCount, PropRetryIdle, PropUnlock, PropRetryEval, PropFail, PropPcs
<1>2. UNCHANGED <<requests, results, bounds, dispatches, accepted,
                  runStatus, snapshot, filled, anchored, iteration>>
    BY DEF PropCount, PropRetryIdle, PropUnlock, PropRetryEval, PropFail,
           redis, queues, history
<1>3. RedisOK'
  <2>1. status' \in [Rules -> {"Idle", "Dispatched", "Completed", "Failed"}]
      BY <1>0 DEF PropCount, PropRetryIdle, PropUnlock, PropRetryEval, PropFail,
                  RedisOK, redis
  <2>2. lock' \in [Rules -> BOOLEAN]
      BY <1>0 DEF PropCount, PropRetryIdle, PropUnlock, PropRetryEval, PropFail,
                  RedisOK, redis
  <2>3. attempts' \in [Rules -> Nat]
      BY <1>0 DEF PropCount, PropRetryIdle, PropUnlock, PropRetryEval, PropFail,
                  RedisOK, redis
  <2> QED BY <1>2, <2>1, <2>2, <2>3 DEF RedisOK
<1>4. evals' \in [Rules -> Nat]
    BY PublishType
    DEF PropCount, PropRetryIdle, PropUnlock, PropRetryEval, PropFail, QueuesOK, queues
<1>5. abandoned' \subseteq Rules
    BY <1>0 DEF PropCount, PropRetryIdle, PropUnlock, PropRetryEval, PropFail,
                HistoryOK, history
<1> QED BY <1>0, <1>1, <1>2, <1>3, <1>4, <1>5 DEF QueuesOK, HistoryOK, bounds

LEMMA TypeInfer ==
    ASSUME TypeInv, NEW r \in Rules,
           \/ Infer(r) \/ InferLose(r) \/ LockExpire(r)
           \/ \E o \in Outcomes : InferAgain(r, o)
    PROVE  TypeInv'
<1> USE DEF TypeInv
<1>1. UNCHANGED <<handlers, history>>
    BY DEF Infer, InferSuccess, InferError, InferLose, InferAgain, LockExpire
<1>2. ApiOK' /\ EvWell' /\ PrWell'
    BY <1>1 DEF handlers, ApiOK, EvWell, PrWell
<1>3. HistoryOK'
  <2>1. UNCHANGED bounds \/ \E e \in Events : Spend(e)
      BY DEF Infer, InferSuccess, InferError, InferLose, InferAgain, LockExpire, Events
  <2> QED BY <1>1, <2>1, SpendType DEF HistoryOK, bounds, history
<1>4. requests' \in [Rules -> Nat]
  <2>1. requests \in [Rules -> Nat]
      BY DEF QueuesOK
  <2>2. UNCHANGED requests \/ TakeRequest(r)
      BY DEF Infer, InferSuccess, InferError, InferLose, InferAgain, LockExpire, queues
  <2> QED BY <2>1, <2>2 DEF TakeRequest
<1>5. results' \in [Rules \X Outcomes -> Nat]
  <2>1. results \in [Rules \X Outcomes -> Nat]
      BY DEF QueuesOK
  <2>2. UNCHANGED results \/ \E o \in Outcomes : Answer(r, o)
      BY DEF Infer, InferSuccess, InferError, InferLose, InferAgain, LockExpire, queues,
             Outcomes
  <2>3. ASSUME NEW o \in Outcomes, Answer(r, o) PROVE results' \in [Rules \X Outcomes -> Nat]
    <3>1. <<r, o>> \in Rules \X Outcomes
        OBVIOUS
    <3>2. results' = [results EXCEPT ![<<r, o>>] = results[<<r, o>>] + 1]
        BY <2>3 DEF Answer
    <3> QED BY <2>1, <3>1, <3>2
  <2> QED BY <2>1, <2>2, <2>3
<1>6. RedisOK' /\ UNCHANGED evals
    BY DEF Infer, InferSuccess, InferError, InferLose, InferAgain, LockExpire,
           RedisOK, redis, queues
<1> QED BY <1>2, <1>3, <1>4, <1>5, <1>6 DEF QueuesOK

LEMMA TypeNext == TypeInv /\ [Next]_vars => TypeInv'
<1> SUFFICES ASSUME TypeInv, [Next]_vars PROVE TypeInv'
    OBVIOUS
<1>1. CASE UNCHANGED vars
    BY <1>1 DEF TypeInv, RedisOK, QueuesOK, ApiOK, HistoryOK, EvWell, PrWell,
                vars, redis, queues, handlers, bounds, history
<1>2. CASE Next
  <2>1. ASSUME NEW t \in PropTasks, PropStep(t) PROVE TypeInv'
      BY <2>1, TypePropSuccess, TypePropHome, TypePropClose, TypePropFailure DEF PropStep
  <2> QED
      BY <1>2, <2>1, TypeTrigger, TypeCancel, TypeEval, TypePropTake, TypeInfer DEF Next
<1> QED BY <1>1, <1>2

\* Every variable keeps its type, and no task is ever busy without a rule.
THEOREM TypeInvariance == Spec => []TypeInv
BY TypeInit, TypeNext, PTL DEF Spec

\* Every variable of the engine keeps its type (RuleStatus, RunStatus, the Redis
\* keys, the queues and the handlers' local variables).
THEOREM TypeCorrect == Spec => []TypeOK
BY TypeInvariance, TypeInvType, PTL

-----------------------------------------------------------------------------
(* The engine implements GraphRun, for every graph, every number of tasks, *)
(* every budget of failures and every pace of inference.                   *)
(*                                                                         *)
(* The contract speaks of successes; the engine only has data, marks and   *)
(* local variables.  The invariant Lineage traces each of them back to the *)
(* successes, requests and failures it stems from.                         *)

Sent == {r \in Rules : dispatches[r] > 0}
Ended == accepted \cup abandoned
MustEnd == IF Terminal # {} THEN Terminal ELSE Rules

\* Data, anchors and statuses stem from seeds, successes and failures.
DataFrom(A, B) ==
    /\ trigger.todo \subseteq UserInputs
    /\ \A p \in filled : AvailableFrom(A, p)
    /\ \A n \in anchored : AnchoredFrom(A, n)
    /\ \A r \in Rules : status[r] = "Completed" => r \in A
    /\ \A r \in Rules : status[r] = "Failed" => r \in B

\* Only what was sent is answered.
AnswersFrom(S) ==
    /\ \A r \in Rules : requests[r] > 0 => r \in S
    /\ \A r \in Rules, o \in Outcomes : results[<<r, o>>] > 0 => r \in S

\* What an evaluator has seen was there, and past the gate its rule may be sent.
EvFrom(A, x) ==
    /\ \A p \in x.avail : AvailableFrom(A, p)
    /\ x.pc \in {"lock", "recheck", "render", "publish"} =>
          Ready(x.rule, x.avail) /\ PastAnchor(A, x.rule)

\* A propagator works for a rule that was sent, fans out what was accepted, and
\* resets the controllers its home run reaches; its completion scan has met only
\* rules that have ended.
PrFrom(S, A, E, x) ==
    /\ x.pc # "idle" => x.rule \in S
    /\ x.pc \in {"fan", "complete", "anchor", "home", "iterate",
                 "resetStatus", "resetLock", "refire"} => x.rule \in A
    /\ x.pc = "fan" => x.todo \subseteq Route[x.rule]
    /\ x.pc = "anchor" => IsForwardFamily(x.rule)
    /\ x.pc \in {"iterate", "resetStatus", "resetLock", "refire"} =>
          x.todo \subseteq HomeTargets(x.rule)
    /\ x.pc \in {"resetStatus", "resetLock", "refire"} =>
          \E d \in HomeTargets(x.rule) : x.ctrl \in ControllersOn(ProjOwner[d])
    /\ x.pc = "scan" => /\ x.termsDone => Terminal \ x.scan \subseteq E
                        /\ x.settled => Rules \ x.scan \subseteq E
    /\ x.pc = "finish" => MustEnd \subseteq E

EvLineage == \A t \in EvalTasks : EvFrom(accepted, ev[t])
PrLineage == \A t \in PropTasks : PrFrom(Sent, accepted, Ended, pr[t])

Lineage ==
    /\ DataFrom(accepted, abandoned)
    /\ AnswersFrom(Sent)
    /\ EvLineage
    /\ PrLineage

-----------------------------------------------------------------------------
(* The lineage of a thing is never lost: histories only grow.             *)

LEMMA AvailableGrows ==
    ASSUME NEW A, NEW B, A \subseteq B, NEW p, AvailableFrom(A, p)
    PROVE  AvailableFrom(B, p)
BY DEF AvailableFrom

LEMMA AnchoredGrows ==
    ASSUME NEW A, NEW B, A \subseteq B, NEW n, AnchoredFrom(A, n)
    PROVE  AnchoredFrom(B, n)
BY DEF AnchoredFrom

LEMMA EvGrows ==
    ASSUME NEW A, NEW B, A \subseteq B, NEW x, EvFrom(A, x)
    PROVE  EvFrom(B, x)
BY AvailableGrows, AnchoredGrows DEF EvFrom, PastAnchor

LEMMA PrGrows ==
    ASSUME NEW S1, NEW S2, S1 \subseteq S2, NEW A1, NEW A2, A1 \subseteq A2,
           NEW E1, NEW E2, E1 \subseteq E2, NEW x, PrFrom(S1, A1, E1, x)
    PROVE  PrFrom(S2, A2, E2, x)
BY DEF PrFrom

HistoryGrows == Sent \subseteq Sent' /\ accepted \subseteq accepted' /\ abandoned \subseteq abandoned'

LEMMA HistoryKept == UNCHANGED history => HistoryGrows
BY DEF history, HistoryGrows, Sent

LEMMA DataKept ==
    ASSUME HistoryGrows, DataFrom(accepted, abandoned), 
           UNCHANGED <<trigger, filled, anchored, status>>
    PROVE  DataFrom(accepted, abandoned)'
BY AvailableGrows, AnchoredGrows DEF HistoryGrows, DataFrom

LEMMA AnswersKept ==
    ASSUME HistoryGrows, AnswersFrom(Sent), UNCHANGED <<requests, results>>
    PROVE  AnswersFrom(Sent)'
BY DEF HistoryGrows, AnswersFrom

LEMMA EvKept ==
    ASSUME HistoryGrows, EvLineage, UNCHANGED ev
    PROVE  EvLineage'
BY EvGrows DEF HistoryGrows, EvLineage

LEMMA PrKept ==
    ASSUME HistoryGrows, PrLineage, UNCHANGED pr
    PROVE  PrLineage'
<1>1. Ended \subseteq Ended'
    BY DEF HistoryGrows, Ended
<1> QED BY <1>1, PrGrows DEF HistoryGrows, PrLineage

\* One evaluator moves, to x.
LEMMA EvTo ==
    ASSUME HistoryGrows, TypeInv, EvLineage, NEW t \in EvalTasks, NEW x,
           ev' = [ev EXCEPT ![t] = x], EvFrom(accepted, x)
    PROVE  EvLineage'
<1>1. ASSUME NEW u \in EvalTasks PROVE EvFrom(accepted', ev'[u])
  <2>1. EvFrom(accepted, ev'[u])
      BY DEF EvLineage, TypeInv, EvWell
  <2> QED BY <2>1, EvGrows DEF HistoryGrows
<1> QED BY <1>1 DEF EvLineage

\* One propagator moves, to x.
LEMMA PrTo ==
    ASSUME HistoryGrows, TypeInv, PrLineage, NEW t \in PropTasks, NEW x,
           pr' = [pr EXCEPT ![t] = x], PrFrom(Sent', accepted', Ended', x)
    PROVE  PrLineage'
<1>1. Ended \subseteq Ended'
    BY DEF HistoryGrows, Ended
<1>2. ASSUME NEW u \in PropTasks PROVE PrFrom(Sent', accepted', Ended', pr'[u])
  <2>1. CASE u = t
      BY <2>1 DEF TypeInv, PrWell
  <2>2. CASE u # t
      BY <1>1, <2>2, PrGrows DEF HistoryGrows, PrLineage, TypeInv, PrWell
  <2> QED BY <2>1, <2>2
<1> QED BY <1>2 DEF PrLineage

LEMMA EvAckedFrom ==
    ASSUME HistoryGrows, TypeInv, EvLineage, NEW t \in EvalTasks, EvalAck(t)
    PROVE  EvLineage'
<1>1. EvFrom(accepted, EvalIdle)
    BY DEF EvFrom, EvalIdle
<1> QED BY <1>1, EvTo DEF EvalAck

Gated == {"lock", "recheck", "render", "publish"}

\* An evaluator that goes on is past the gate only if it was before.
LEMMA EvGoesOn ==
    ASSUME HistoryGrows, TypeInv, EvLineage, NEW t \in EvalTasks, NEW pc, EvalGoto(t, pc),
           \/ pc \notin Gated
           \/ ev[t].pc \in Gated
           \/ Ready(ev[t].rule, ev[t].avail) /\ PastAnchor(accepted, ev[t].rule)
    PROVE  EvLineage'
<1> DEFINE x == [ev[t] EXCEPT !.pc = pc]
<1>1. /\ ev[t] \in EvalLocal
      /\ EvFrom(accepted, ev[t])
    BY DEF TypeInv, EvWell, EvLineage
<1>2. x.pc = pc /\ x.rule = ev[t].rule /\ x.avail = ev[t].avail
    BY <1>1 DEF EvalLocal
<1>3. ev' = [ev EXCEPT ![t] = x]
    BY DEF EvalGoto
<1> HIDE DEF x
<1>4. EvFrom(accepted, x)
    BY <1>1, <1>2 DEF EvFrom, Gated
<1> QED BY <1>3, <1>4, EvTo

LEMMA PrAckedFrom ==
    ASSUME HistoryGrows, TypeInv, PrLineage, NEW t \in PropTasks, PropAck(t)
    PROVE  PrLineage'
<1>1. PrFrom(Sent', accepted', Ended', PropIdle)
    BY DEF PrFrom, PropIdle
<1> QED BY <1>1, PrTo DEF PropAck

-----------------------------------------------------------------------------
(* Every step keeps the lineage                                            *)

LEMMA LineageInit == Init => Lineage
<1> SUFFICES ASSUME Init PROVE Lineage
    OBVIOUS
<1> USE DEF Init
<1>1. DataFrom(accepted, abandoned) /\ AnswersFrom(Sent)
    BY DEF DataFrom, AnswersFrom
<1>2. EvLineage
    BY DEF EvLineage, EvFrom, EvalIdle
<1>3. PrLineage
    BY DEF PrLineage, PrFrom, PropIdle
<1> QED BY <1>1, <1>2, <1>3 DEF Lineage

LEMMA LineageApi ==
    ASSUME TypeInv, Lineage, Trigger \/ CancelMark \/ CancelCleanup
    PROVE  Lineage'
<1> USE DEF Lineage
<1>1. UNCHANGED <<history, ev, pr, requests, results>>
    BY DEF Trigger, TriggerSave, TriggerSeed, TriggerRun, CancelMark, CancelCleanup, queues
<1>2. HistoryGrows /\ EvLineage' /\ PrLineage' /\ AnswersFrom(Sent)'
    BY <1>1, HistoryKept, EvKept, PrKept, AnswersKept
<1>3. CASE TriggerSave \/ TriggerRun \/ CancelMark
  <2>1. UNCHANGED <<filled, anchored, status, accepted, abandoned>>
      BY <1>1, <1>3 DEF TriggerSave, TriggerRun, CancelMark, history
  <2>2. trigger'.todo \subseteq UserInputs
      BY <1>3 DEF TriggerSave, TriggerRun, CancelMark, DataFrom, TypeInv, ApiOK
  <2> QED BY <1>2, <2>1, <2>2 DEF DataFrom
<1>4. ASSUME NEW n \in Nodes, TriggerSeed(n) PROVE Lineage'
  <2>1. UNCHANGED <<anchored, status, accepted, abandoned>>
      BY <1>1, <1>4 DEF TriggerSeed, history
  <2>2. n \in UserInputs /\ trigger'.todo \subseteq UserInputs
      BY <1>4 DEF TriggerSeed, DataFrom
  <2>3. filled' = filled \/ \E p \in SeedsOf(n) : filled' = filled \cup {p}
      BY <1>4 DEF TriggerSeed
  <2>4. \A p \in filled' : AvailableFrom(accepted, p)
      BY <2>2, <2>3 DEF AvailableFrom, DataFrom
  <2> QED BY <1>2, <2>1, <2>2, <2>4 DEF DataFrom
<1>5. CASE CancelCleanup
  <2>1. DataFrom(accepted, abandoned)'
      BY <1>1, <1>5 DEF CancelCleanup, DataFrom, history
  <2> QED BY <1>2, <2>1
<1> QED BY <1>3, <1>4, <1>5 DEF Trigger

LEMMA LineageEval ==
    ASSUME TypeInv, Lineage, NEW t \in EvalTasks, EvalTake(t) \/ EvalStep(t) \/ EvalCrash(t)
    PROVE  Lineage'
<1> USE DEF Lineage
<1>1. UNCHANGED <<trigger, filled, anchored, pr, results, accepted, abandoned>>
    BY DEF EvalTake, EvalReceive, EvalStep, EvalStatus, EvalScan, EvalGate, EvalLock,
           EvalRecheck, EvalRender, EvalPublish, EvalDispatch, EvalCrash,
           redis, queues, handlers, history
<1>2. CASE EvalPublish(t)
  <2>1. ev[t].rule \in Rules /\ dispatches \in [Rules -> Nat] /\ requests \in [Rules -> Nat]
      BY <1>2 DEF EvalPublish, TypeInv, EvWell, HistoryOK, QueuesOK
  <2>2. HistoryGrows /\ AnswersFrom(Sent)'
      BY <1>1, <1>2, <2>1 DEF EvalPublish, HistoryGrows, Sent, AnswersFrom
  <2>3. DataFrom(accepted, abandoned)' /\ PrLineage'
      BY <1>1, <1>2, <2>2, DataKept, PrKept DEF EvalPublish, redis
  <2>4. EvLineage'
      BY <1>2, <2>2, EvGoesOn DEF EvalPublish, Gated
  <2> QED BY <2>2, <2>3, <2>4
<1>3. CASE EvalDispatch(t)
  <2>1. UNCHANGED <<history, requests>>
      BY <1>3 DEF EvalDispatch, queues
  <2>2. ev[t].rule \in Rules /\ status' = [status EXCEPT ![ev[t].rule] = "Dispatched"]
      BY <1>3 DEF EvalDispatch, TypeInv, EvWell
  <2>3. \A r \in Rules : status'[r] \in {"Completed", "Failed"} => status'[r] = status[r]
      BY <2>2 DEF TypeInv, RedisOK
  <2>4. DataFrom(accepted, abandoned)'
      BY <1>1, <2>3 DEF DataFrom
  <2>5. HistoryGrows /\ EvLineage' /\ PrLineage' /\ AnswersFrom(Sent)'
      BY <1>1, <1>3, <2>1, HistoryKept, EvAckedFrom, PrKept, AnswersKept DEF EvalDispatch
  <2> QED BY <2>4, <2>5
<1>4. CASE EvalTake(t) \/ EvalStatus(t) \/ EvalScan(t) \/ EvalGate(t) \/ EvalLock(t)
           \/ EvalRecheck(t) \/ EvalRender(t) \/ EvalCrash(t)
  <2>1. UNCHANGED <<history, requests, status>>
      BY <1>4 DEF EvalTake, EvalReceive, EvalStatus, EvalScan, EvalGate, EvalLock,
                  EvalRecheck, EvalRender, EvalCrash, redis, queues
  <2>2. HistoryGrows /\ PrLineage' /\ AnswersFrom(Sent)' /\ DataFrom(accepted, abandoned)'
      BY <1>1, <2>1, HistoryKept, PrKept, AnswersKept, DataKept
  <2>3. ASSUME NEW r \in Rules, EvalReceive(t, r) PROVE EvLineage'
    <3> DEFINE x == [EvalIdle EXCEPT !.pc = "status", !.rule = r]
    <3>1. EvFrom(accepted, x)
        BY DEF EvFrom, EvalIdle
    <3>2. UNCHANGED ev \/ ev' = [ev EXCEPT ![t] = x]
        BY <2>3 DEF EvalReceive
    <3> HIDE DEF x
    <3> QED BY <2>2, <3>1, <3>2, EvTo, EvKept
  <2>4. CASE EvalScan(t)
    <3> DEFINE r == ev[t].rule
               i == ev[t].next
               a == IF Inputs[r][i] \in filled
                    THEN ev[t].avail \cup {Inputs[r][i]} ELSE ev[t].avail
               pc == IF i = Len(Inputs[r]) THEN "gate" ELSE "scan"
               x == [ev[t] EXCEPT !.avail = a, !.next = i + 1, !.pc = pc]
    <3>1. ev[t] \in EvalLocal /\ EvFrom(accepted, ev[t])
        BY DEF TypeInv, EvWell, EvLineage
    <3>2. ev' = [ev EXCEPT ![t] = x]
        BY <2>4 DEF EvalScan
    <3>3. \A p \in a : AvailableFrom(accepted, p)
        BY <3>1 DEF EvFrom, DataFrom
    <3>4. pc \notin {"lock", "recheck", "render", "publish"}
        OBVIOUS
    <3> HIDE DEF a, pc
    <3>5. x.avail = a /\ x.pc = pc
        BY <3>1 DEF EvalLocal
    <3> HIDE DEF x
    <3>6. EvFrom(accepted, x)
        BY <3>3, <3>4, <3>5 DEF EvFrom
    <3> QED BY <2>2, <3>2, <3>6, EvTo
  <2>5. CASE EvalGate(t)
    <3>1. ASSUME Owner[ev[t].rule] \in anchored \/ IsForwardFamily(ev[t].rule)
          PROVE  PastAnchor(accepted, ev[t].rule)
        BY <3>1 DEF PastAnchor, DataFrom
    <3>2. \/ EvalAck(t)
          \/ /\ EvalGoto(t, "lock")
             /\ Ready(ev[t].rule, ev[t].avail)
             /\ IsForwardFamily(ev[t].rule) \/ Owner[ev[t].rule] \in anchored
        BY <2>5 DEF EvalGate
    <3> QED BY <2>2, <3>1, <3>2, EvAckedFrom, EvGoesOn
  <2>6. CASE EvalStatus(t)
      BY <2>2, <2>6, EvAckedFrom, EvGoesOn DEF EvalStatus, Gated
  <2>7. CASE EvalLock(t)
      BY <2>2, <2>7, EvAckedFrom, EvGoesOn DEF EvalLock, Gated
  <2>8. CASE EvalRecheck(t)
      BY <2>2, <2>8, EvAckedFrom, EvGoesOn DEF EvalRecheck, Gated
  <2>9. CASE EvalRender(t)
      BY <2>2, <2>9, EvAckedFrom, EvGoesOn DEF EvalRender, Gated
  <2>10. CASE EvalCrash(t)
      BY <2>2, <2>10, EvAckedFrom DEF EvalCrash
  <2> QED
      BY <1>4, <2>2, <2>3, <2>4, <2>5, <2>6, <2>7, <2>8, <2>9, <2>10 DEF EvalTake
<1> QED BY <1>2, <1>3, <1>4 DEF EvalStep

Succeeding == {"fan", "complete", "anchor", "home", "iterate",
               "resetStatus", "resetLock", "refire"}
Plain == {"complete", "anchor", "home", "close", "count", "retryIdle", "unlock",
          "retryEval", "fail"}

\* What is known of a busy propagator.
LEMMA PrKnown ==
    ASSUME TypeInv, PrLineage, NEW t \in PropTasks, pr[t].pc # "idle"
    PROVE  /\ pr[t] \in PropLocal /\ pr[t].rule \in Rules /\ pr[t].rule \in Sent
           /\ PrFrom(Sent, accepted, Ended, pr[t])
           /\ pr[t].pc \in Succeeding => pr[t].rule \in accepted
BY DEF TypeInv, PrWell, PropLocalWell, PrLineage, PrFrom, Succeeding

\* A propagator goes on to a step that holds nothing but the rule.
LEMMA PrGoesOn ==
    ASSUME HistoryGrows, TypeInv, PrLineage, NEW t \in PropTasks, pr[t].pc # "idle",
           NEW pc \in Plain, PropGoto(t, pc),
           pc \in Succeeding => pr[t].rule \in accepted,
           pc = "anchor" => IsForwardFamily(pr[t].rule)
    PROVE  PrLineage'
<1> DEFINE x == [pr[t] EXCEPT !.pc = pc]
<1>1. pr[t] \in PropLocal /\ pr[t].rule \in Sent
    BY PrKnown
<1>2. x.pc = pc /\ x.rule = pr[t].rule
    BY <1>1 DEF PropLocal
<1>3. pr' = [pr EXCEPT ![t] = x]
    BY DEF PropGoto
<1> HIDE DEF x
<1>4. PrFrom(Sent', accepted', Ended', x)
    BY <1>1, <1>2 DEF PrFrom, Plain, Succeeding, HistoryGrows
<1> QED BY <1>3, <1>4, PrTo

\* One kind of answer to what was sent comes or goes.
LEMMA AnswersChange ==
    ASSUME HistoryGrows, TypeInv, AnswersFrom(Sent), UNCHANGED requests,
           NEW r \in Sent, NEW o, NEW n, results' = [results EXCEPT ![<<r, o>>] = n]
    PROVE  AnswersFrom(Sent)'
<1>1. ASSUME NEW q \in Rules, NEW u \in Outcomes, results'[<<q, u>>] > 0
      PROVE  q \in Sent
  <2>1. CASE <<q, u>> = <<r, o>>
      BY <2>1
  <2>2. CASE <<q, u>> # <<r, o>>
    <3>1. results'[<<q, u>>] = results[<<q, u>>]
      <4>1. <<q, u>> \in Rules \X Outcomes
          OBVIOUS
      <4> QED BY <2>2, <4>1 DEF TypeInv, QueuesOK
    <3> QED BY <1>1, <3>1 DEF AnswersFrom
  <2> QED BY <2>1, <2>2
<1> QED BY <1>1 DEF AnswersFrom, HistoryGrows

LEMMA LineagePropTake ==
    ASSUME TypeInv, Lineage, NEW t \in PropTasks, PropTake(t) \/ PropCrash(t)
    PROVE  Lineage'
<1> USE DEF Lineage
<1>1. UNCHANGED <<trigger, filled, anchored, status, ev, requests, history>>
    BY DEF PropTake, PropReceive, PropCrash, redis
<1>2. HistoryGrows /\ DataFrom(accepted, abandoned)' /\ EvLineage' /\ UNCHANGED Sent
    BY <1>1, HistoryKept, DataKept, EvKept DEF history, Sent
<1>3. ASSUME NEW r \in Rules, NEW o \in Outcomes, PropReceive(t, r, o) PROVE Lineage'
  <2> DEFINE x == [PropIdle EXCEPT !.pc = "check", !.rule = r, !.outcome = o]
  <2>1. UNCHANGED pr \/ pr' = [pr EXCEPT ![t] = x]
      BY <1>3 DEF PropReceive
  <2>2. r \in Sent
      BY <1>3 DEF PropReceive, AnswersFrom
  <2>3. PrFrom(Sent', accepted', Ended', x)
      BY <1>2, <2>2 DEF PrFrom, PropIdle
  <2> HIDE DEF x
  <2>4. PrLineage'
      BY <1>2, <2>1, <2>3, PrKept, PrTo
  <2>5. results' = [results EXCEPT ![<<r, o>>] = results[<<r, o>>] - 1]
      BY <1>3 DEF PropReceive
  <2> QED BY <1>1, <1>2, <2>2, <2>4, <2>5, AnswersChange
<1>4. CASE PropCrash(t)
  <2>1. PrLineage'
      BY <1>2, <1>4, PrAckedFrom DEF PropCrash
  <2> DEFINE r == pr[t].rule
             o == pr[t].outcome
  <2>2. results' = [results EXCEPT ![<<r, o>>] = results[<<r, o>>] + 1]
      BY <1>4 DEF PropCrash
  <2>3. r \in Sent
      BY <1>4, PrKnown DEF PropCrash
  <2> HIDE DEF r, o
  <2> QED BY <1>1, <1>2, <2>1, <2>2, <2>3, AnswersChange
<1> QED BY <1>3, <1>4 DEF PropTake

LEMMA LineagePropSuccess ==
    ASSUME TypeInv, Lineage, NEW t \in PropTasks,
           PropCheck(t) \/ PropFan(t) \/ PropComplete(t) \/ PropAnchor(t) \/ PropHome(t)
    PROVE  Lineage'
<1> USE DEF Lineage
<1>0. /\ pr[t] \in PropLocal /\ pr[t].rule \in Rules /\ pr[t].rule \in Sent
      /\ pr[t].pc # "idle"
      /\ PrFrom(Sent, accepted, Ended, pr[t])
      /\ pr[t].pc \in Succeeding => pr[t].rule \in accepted
    BY PrKnown DEF PropCheck, PropFan, PropComplete, PropAnchor, PropHome
<1>1. HistoryGrows /\ AnswersFrom(Sent)' /\ EvLineage'
  <2>1. UNCHANGED <<trigger, ev, requests, results, dispatches, abandoned>>
      BY DEF PropCheck, PropFan, PropComplete, PropAnchor, PropHome, queues, history
  <2>2. HistoryGrows
      BY <2>1 DEF PropCheck, PropFan, PropComplete, PropAnchor, PropHome, history,
                  HistoryGrows, Sent
  <2> QED BY <2>1, <2>2, AnswersKept, EvKept
<1>2. CASE PropCheck(t)
  <2> DEFINE r == pr[t].rule
             pc == IF Route[r] = {} THEN "complete" ELSE "fan"
             x == [pr[t] EXCEPT !.todo = Route[r], !.pc = pc]
  <2>1. \/ PropAck(t) \/ PropGoto(t, "count")
        \/ pr' = [pr EXCEPT ![t] = x] /\ accepted' = accepted \cup {r}
      BY <1>2 DEF PropCheck
  <2>2. pc \in {"complete", "fan"}
      OBVIOUS
  <2> HIDE DEF pc
  <2>3. x.pc = pc /\ x.rule = r /\ x.todo = Route[r]
      BY <1>0 DEF PropLocal
  <2> HIDE DEF x
  <2>4. ASSUME accepted' = accepted \cup {r} PROVE PrFrom(Sent', accepted', Ended', x)
      BY <1>0, <1>1, <2>2, <2>3, <2>4 DEF PrFrom, HistoryGrows
  <2>5. PrLineage'
      BY <1>0, <1>1, <2>1, <2>4, PrAckedFrom, PrGoesOn, PrTo DEF Plain, Succeeding
  <2>6. DataFrom(accepted, abandoned)'
      BY <1>1, <1>2, DataKept DEF PropCheck, redis
  <2> QED BY <1>1, <2>5, <2>6
<1>3. CASE PropFan(t)
  <2>1. PICK p \in pr[t].todo :
          /\ filled' = filled \cup {p}
          /\ pr' = [pr EXCEPT ![t].todo = pr[t].todo \ {p},
                              ![t].pc = IF pr[t].todo \ {p} = {} THEN "complete" ELSE "fan"]
      BY <1>3 DEF PropFan
  <2> DEFINE r == pr[t].rule
             rest == pr[t].todo \ {p}
             pc == IF rest = {} THEN "complete" ELSE "fan"
             x == [pr[t] EXCEPT !.todo = rest, !.pc = pc]
  <2>2. pr' = [pr EXCEPT ![t] = x]
      BY <2>1
  <2>3. r \in accepted /\ pr[t].todo \subseteq Route[r]
      BY <1>0, <1>3 DEF PropFan, Succeeding, PrFrom
  <2>4. rest \subseteq Route[r] /\ p \in Route[r] /\ pc \in {"complete", "fan"}
      BY <2>3
  <2> HIDE DEF rest, pc
  <2>5. x.pc = pc /\ x.rule = r /\ x.todo = rest
      BY <1>0 DEF PropLocal
  <2> HIDE DEF x
  <2>6. PrFrom(Sent', accepted', Ended', x)
      BY <1>0, <1>1, <2>3, <2>4, <2>5 DEF PrFrom, HistoryGrows
  <2>7. DataFrom(accepted, abandoned)'
    <3>1. AvailableFrom(accepted, p)
        BY <2>3, <2>4 DEF AvailableFrom, Feeds
    <3>2. UNCHANGED <<trigger, anchored, status, accepted, abandoned>>
        BY <1>3 DEF PropFan, history
    <3> QED BY <2>1, <3>1, <3>2 DEF DataFrom
  <2> QED BY <1>1, <2>2, <2>6, <2>7, PrTo
<1>4. CASE PropComplete(t)
  <2> DEFINE r == pr[t].rule
             pc == IF IsForwardFamily(r) THEN "anchor" ELSE AfterAnchor(r)
  <2>1. /\ status' = [status EXCEPT ![r] = "Completed"] /\ PropGoto(t, pc)
        /\ UNCHANGED <<trigger, filled, anchored, accepted, abandoned>>
      BY <1>4 DEF PropComplete, history
  <2>2. r \in accepted
      BY <1>0, <1>4 DEF PropComplete, Succeeding
  <2>3. pc \in Plain /\ (pc = "anchor" => IsForwardFamily(r))
      BY DEF AfterAnchor, Plain
  <2> HIDE DEF pc
  <2>4. PrLineage'
      BY <1>0, <1>1, <2>1, <2>2, <2>3, PrGoesOn
  <2>5. \A q \in Rules : status'[q] = IF q = r THEN "Completed" ELSE status[q]
      BY <1>0, <2>1 DEF TypeInv, RedisOK
  <2>6. DataFrom(accepted, abandoned)'
      BY <2>1, <2>2, <2>5 DEF DataFrom
  <2> QED BY <1>1, <2>4, <2>6
<1>5. CASE PropAnchor(t)
  <2> DEFINE r == pr[t].rule
  <2>1. /\ anchored' = anchored \cup {Owner[r]} /\ PropGoto(t, AfterAnchor(r))
        /\ UNCHANGED <<trigger, filled, status, accepted, abandoned>>
      BY <1>5 DEF PropAnchor, history
  <2>2. r \in accepted /\ IsForwardFamily(r)
      BY <1>0, <1>5 DEF PropAnchor, Succeeding, PrFrom
  <2>3. AfterAnchor(r) \in Plain /\ AfterAnchor(r) # "anchor"
      BY DEF AfterAnchor, Plain
  <2>4. PrLineage'
      BY <1>0, <1>1, <2>1, <2>2, <2>3, PrGoesOn
  <2>5. AnchoredFrom(accepted, Owner[r])
      BY <2>2 DEF AnchoredFrom
  <2>6. DataFrom(accepted, abandoned)'
      BY <2>1, <2>5 DEF DataFrom
  <2> QED BY <1>1, <2>4, <2>6
<1>6. CASE PropHome(t)
  <2> DEFINE r == pr[t].rule
             x == [pr[t] EXCEPT !.todo = HomeTargets(r), !.pc = "iterate"]
  <2>1. PropGoto(t, "close") \/ pr' = [pr EXCEPT ![t] = x]
      BY <1>6 DEF PropHome
  <2>2. r \in accepted
      BY <1>0, <1>6 DEF PropHome, Succeeding
  <2>3. x.pc = "iterate" /\ x.rule = r /\ x.todo = HomeTargets(r)
      BY <1>0 DEF PropLocal
  <2> HIDE DEF x
  <2>4. PrFrom(Sent', accepted', Ended', x)
      BY <1>0, <1>1, <2>2, <2>3 DEF PrFrom, HistoryGrows
  <2>5. PrLineage'
      BY <1>0, <1>1, <2>1, <2>4, PrGoesOn, PrTo DEF Plain, Succeeding
  <2>6. DataFrom(accepted, abandoned)'
      BY <1>1, <1>6, DataKept DEF PropHome, redis
  <2> QED BY <1>1, <2>5, <2>6
<1> QED BY <1>2, <1>3, <1>4, <1>5, <1>6

Resetting == {"resetStatus", "resetLock", "refire"}

\* A home run goes on: the targets left are among those of the rule, and a
\* controller in reset is one the home run reached.
LEMMA PrHomeGoesOn ==
    ASSUME HistoryGrows, TypeInv, PrLineage, NEW t \in PropTasks, pr[t].pc # "idle",
           NEW x, pr' = [pr EXCEPT ![t] = x],
           x.rule = pr[t].rule, pr[t].rule \in accepted,
           x.pc \in {"close", "iterate"} \cup Resetting,
           x.todo \subseteq HomeTargets(x.rule),
           x.pc \in Resetting =>
              \E d \in HomeTargets(x.rule) : x.ctrl \in ControllersOn(ProjOwner[d])
    PROVE  PrLineage'
<1>1. pr[t].rule \in Sent
    BY PrKnown
<1>2. PrFrom(Sent', accepted', Ended', x)
    BY <1>1 DEF PrFrom, HistoryGrows, Resetting
<1> QED BY <1>2, PrTo

LEMMA LineagePropHome ==
    ASSUME TypeInv, Lineage, NEW t \in PropTasks,
           PropIterate(t) \/ PropResetStatus(t) \/ PropResetLock(t) \/ PropRefire(t)
    PROVE  Lineage'
<1> USE DEF Lineage
<1> DEFINE r == pr[t].rule
<1>0. /\ pr[t] \in PropLocal /\ r \in Rules /\ pr[t].pc # "idle"
      /\ r \in accepted /\ pr[t].todo \subseteq HomeTargets(r)
      /\ pr[t].pc \in Resetting =>
            \E d \in HomeTargets(r) : pr[t].ctrl \in ControllersOn(ProjOwner[d])
    BY PrKnown DEF PropIterate, PropResetStatus, PropResetLock, PropRefire,
                   PrFrom, Succeeding, Resetting
<1>1. UNCHANGED <<trigger, anchored, history, ev, requests, results>>
    BY DEF PropIterate, PropResetStatus, PropResetLock, PropRefire, queues
<1>2. HistoryGrows /\ AnswersFrom(Sent)' /\ EvLineage' /\ UNCHANGED <<accepted, abandoned>>
    BY <1>1, HistoryKept, AnswersKept, EvKept DEF history
<1>3. CASE PropIterate(t)
  <2>0. PICK p \in pr[t].todo : \E c \in ControllersOn(ProjOwner[p]) :
          LET rest == pr[t].todo \ {p}
              exit == MaxIterations[c] # 0 /\ iteration[c] + 1 >= MaxIterations[c]
          IN  pr' = IF exit
                    THEN [pr EXCEPT ![t].todo = rest, ![t].pc = NextTarget(rest)]
                    ELSE [pr EXCEPT ![t].todo = rest, ![t].ctrl = c,
                                    ![t].resets = {c} \cup LoopBody(c),
                                    ![t].pc = "resetStatus"]
      BY <1>3 DEF PropIterate
  <2>1. PICK c \in ControllersOn(ProjOwner[p]) :
          LET rest == pr[t].todo \ {p}
              exit == MaxIterations[c] # 0 /\ iteration[c] + 1 >= MaxIterations[c]
          IN  pr' = IF exit
                    THEN [pr EXCEPT ![t].todo = rest, ![t].pc = NextTarget(rest)]
                    ELSE [pr EXCEPT ![t].todo = rest, ![t].ctrl = c,
                                    ![t].resets = {c} \cup LoopBody(c),
                                    ![t].pc = "resetStatus"]
      BY <2>0
  <2> DEFINE rest == pr[t].todo \ {p}
             body == {c} \cup LoopBody(c)
             pc == NextTarget(rest)
             x == [pr[t] EXCEPT !.todo = rest, !.pc = pc]
             y == [pr[t] EXCEPT !.todo = rest, !.ctrl = c, !.resets = body,
                                !.pc = "resetStatus"]
  <2>2. pr' = [pr EXCEPT ![t] = x] \/ pr' = [pr EXCEPT ![t] = y]
      BY <2>1
  <2>3. pc \in {"close", "iterate"} /\ p \in HomeTargets(r) /\ rest \subseteq HomeTargets(r)
      BY <1>0 DEF NextTarget
  <2> HIDE DEF rest, body, pc
  <2>4. x.pc = pc /\ x.rule = r /\ x.todo = rest
      BY <1>0 DEF PropLocal
  <2>5. y.pc = "resetStatus" /\ y.rule = r /\ y.todo = rest /\ y.ctrl = c
      BY <1>0 DEF PropLocal
  <2> HIDE DEF x, y
  <2>6. ASSUME pr' = [pr EXCEPT ![t] = x] PROVE PrLineage'
      BY <1>0, <1>2, <2>3, <2>4, <2>6, PrHomeGoesOn DEF Resetting
  <2>7. ASSUME pr' = [pr EXCEPT ![t] = y] PROVE PrLineage'
      BY <1>0, <1>2, <2>3, <2>5, <2>7, PrHomeGoesOn DEF Resetting
  <2>8. DataFrom(accepted, abandoned)'
      BY <1>2, <1>3, DataKept DEF PropIterate
  <2> QED BY <1>2, <2>2, <2>6, <2>7, <2>8
<1>4. CASE PropResetStatus(t)
  <2>1. PICK q \in pr[t].resets :
          /\ status' = [status EXCEPT ![q] = "Idle"]
          /\ pr' = [pr EXCEPT ![t].cur = q, ![t].pc = "resetLock"]
      BY <1>4 DEF PropResetStatus
  <2> DEFINE x == [pr[t] EXCEPT !.cur = q, !.pc = "resetLock"]
  <2>2. x.pc = "resetLock" /\ x.rule = r /\ x.todo = pr[t].todo /\ x.ctrl = pr[t].ctrl
      BY <1>0 DEF PropLocal
  <2>3. pr' = [pr EXCEPT ![t] = x] /\ pr[t].pc = "resetStatus"
      BY <1>4, <2>1 DEF PropResetStatus
  <2> HIDE DEF x
  <2>4. PrLineage'
      BY <1>0, <1>2, <2>2, <2>3, PrHomeGoesOn DEF Resetting
  <2>5. \A u \in Rules : status'[u] = "Idle" \/ status'[u] = status[u]
      BY <2>1 DEF TypeInv, RedisOK
  <2>6. DataFrom(accepted, abandoned)'
      BY <1>1, <1>2, <1>4, <2>5 DEF PropResetStatus, DataFrom
  <2> QED BY <1>2, <2>4, <2>6
<1>5. CASE PropResetLock(t)
  <2> DEFINE rest == pr[t].resets \ {pr[t].cur}
             pc == IF rest = {} THEN "refire" ELSE "resetStatus"
             x == [pr[t] EXCEPT !.resets = rest, !.cur = NoRule, !.pc = pc]
  <2>1. pr' = [pr EXCEPT ![t] = x] /\ pr[t].pc = "resetLock"
      BY <1>5 DEF PropResetLock
  <2>2. pc \in {"refire", "resetStatus"}
      OBVIOUS
  <2> HIDE DEF rest, pc
  <2>3. x.pc = pc /\ x.rule = r /\ x.todo = pr[t].todo /\ x.ctrl = pr[t].ctrl
      BY <1>0 DEF PropLocal
  <2> HIDE DEF x
  <2>4. PrLineage'
      BY <1>0, <1>2, <2>1, <2>2, <2>3, PrHomeGoesOn DEF Resetting
  <2>5. DataFrom(accepted, abandoned)'
      BY <1>2, <1>5, DataKept DEF PropResetLock
  <2> QED BY <1>2, <2>4, <2>5
<1>6. CASE PropRefire(t)
  <2> DEFINE pc == NextTarget(pr[t].todo)
             x == [pr[t] EXCEPT !.ctrl = NoRule, !.pc = pc]
  <2>1. pr' = [pr EXCEPT ![t] = x] /\ pr[t].pc = "refire"
      BY <1>6 DEF PropRefire
  <2>2. pc \in {"close", "iterate"}
      BY DEF NextTarget
  <2> HIDE DEF pc
  <2>3. x.pc = pc /\ x.rule = r /\ x.todo = pr[t].todo
      BY <1>0 DEF PropLocal
  <2> HIDE DEF x
  <2>4. PrLineage'
      BY <1>0, <1>2, <2>1, <2>2, <2>3, PrHomeGoesOn DEF Resetting
  <2>5. \A p \in InputSet(pr[t].ctrl) : AvailableFrom(accepted, p)
      BY <1>0, <2>1 DEF AvailableFrom, Feeds, Resetting
  <2>6. DataFrom(accepted, abandoned)'
      BY <1>1, <1>2, <1>6, <2>5 DEF PropRefire, DataFrom
  <2> QED BY <1>2, <2>4, <2>6
<1> QED BY <1>3, <1>4, <1>5, <1>6

LEMMA LineagePropClose ==
    ASSUME TypeInv, Lineage, NEW t \in PropTasks, PropClose(t) \/ PropScan(t) \/ PropFinish(t)
    PROVE  Lineage'
<1> USE DEF Lineage
<1>0. /\ pr[t] \in PropLocal /\ pr[t].rule \in Sent /\ pr[t].pc # "idle"
      /\ PrFrom(Sent, accepted, Ended, pr[t])
    BY PrKnown DEF PropClose, PropScan, PropFinish
<1>1. UNCHANGED <<trigger, status, filled, anchored, history, ev, requests, results>>
    BY DEF PropClose, PropScan, PropFinish, queues, redis
<1>2. /\ HistoryGrows /\ AnswersFrom(Sent)' /\ EvLineage' /\ DataFrom(accepted, abandoned)'
      /\ UNCHANGED <<Sent, accepted, Ended>>
    BY <1>1, HistoryKept, AnswersKept, EvKept, DataKept DEF history, Sent, Ended
<1>3. CASE PropClose(t)
  <2> DEFINE x == [pr[t] EXCEPT !.scan = Rules, !.pc = "scan"]
  <2>1. PropAck(t) \/ pr' = [pr EXCEPT ![t] = x]
      BY <1>3 DEF PropClose
  <2>2. x.pc = "scan" /\ x.rule = pr[t].rule /\ x.scan = Rules
      BY <1>0 DEF PropLocal
  <2> HIDE DEF x
  <2>3. PrFrom(Sent', accepted', Ended', x)
      BY <1>0, <1>2, <2>2, TopologyAssumption DEF PrFrom
  <2> QED BY <1>2, <2>1, <2>3, PrAckedFrom, PrTo
<1>4. CASE PropScan(t)
  <2>1. PICK q \in pr[t].scan :
          LET done == status[q] \in {"Completed", "Failed"}
              looping == status[q] = "Idle" /\ q \in Controllers /\ iteration[q] > 0
              v == [pr[t] EXCEPT !.scan = @ \ {q},
                                 !.termsDone = @ /\ (q \in Terminal => done),
                                 !.running = @ \/ status[q] = "Dispatched" \/ looping,
                                 !.settled = @ /\ done]
          IN  pr' = [pr EXCEPT ![t] =
                       IF v.scan # {} THEN v
                       ELSE IF Finished(v) THEN [v EXCEPT !.pc = "finish"]
                       ELSE PropIdle]
      BY <1>4 DEF PropScan
  <2> DEFINE done == status[q] \in {"Completed", "Failed"}
             looping == status[q] = "Idle" /\ q \in Controllers /\ iteration[q] > 0
             rest == pr[t].scan \ {q}
             terms == pr[t].termsDone /\ (q \in Terminal => done)
             runs == pr[t].running \/ status[q] = "Dispatched" \/ looping
             ends == pr[t].settled /\ done
             v == [pr[t] EXCEPT !.scan = rest, !.termsDone = terms,
                                !.running = runs, !.settled = ends]
             w == [v EXCEPT !.pc = "finish"]
  <2>2. \/ pr' = [pr EXCEPT ![t] = v]
        \/ pr' = [pr EXCEPT ![t] = w] /\ v.scan = {} /\ Finished(v)
        \/ PropAck(t)
      BY <2>1, Zenon DEF PropAck
  <2>3. pr[t].pc = "scan" /\ q \in Rules
      BY <1>0, <1>4, <2>1 DEF PropScan, PropLocal
  <2>4. done => q \in Ended
      BY <2>3 DEF DataFrom, Ended
  <2>5. /\ terms => Terminal \ rest \subseteq Ended
        /\ ends => Rules \ rest \subseteq Ended
      BY <1>0, <2>3, <2>4 DEF PrFrom
  <2> HIDE DEF rest, terms, runs, ends
  <2>6. /\ v.pc = "scan" /\ v.rule = pr[t].rule
        /\ v.scan = rest /\ v.termsDone = terms /\ v.settled = ends
      BY <1>0, <2>3 DEF PropLocal
  <2>7. w.pc = "finish" /\ w.rule = pr[t].rule
      BY <1>0 DEF PropLocal
  <2> HIDE DEF v, w
  <2>8. PrFrom(Sent', accepted', Ended', v)
      BY <1>0, <1>2, <2>5, <2>6 DEF PrFrom
  <2>9. ASSUME v.scan = {}, Finished(v) PROVE PrFrom(Sent', accepted', Ended', w)
    <3>1. MustEnd \subseteq Ended
        BY <2>5, <2>6, <2>9 DEF Finished, MustEnd
    <3> QED BY <1>0, <1>2, <2>7, <3>1 DEF PrFrom
  <2> QED BY <1>2, <2>2, <2>8, <2>9, PrAckedFrom, PrTo
<1>5. CASE PropFinish(t)
    BY <1>2, <1>5, PrAckedFrom DEF PropFinish
<1> QED BY <1>3, <1>4, <1>5

LEMMA LineagePropFailure ==
    ASSUME TypeInv, Lineage, NEW t \in PropTasks,
           \/ PropCount(t) \/ PropRetryIdle(t) \/ PropUnlock(t)
           \/ PropRetryEval(t) \/ PropFail(t)
    PROVE  Lineage'
<1> USE DEF Lineage
<1> DEFINE r == pr[t].rule
<1>0. r \in Rules /\ pr[t].pc # "idle"
    BY PrKnown DEF PropCount, PropRetryIdle, PropUnlock, PropRetryEval, PropFail
<1>1. UNCHANGED <<trigger, filled, anchored, ev, requests, results, dispatches, accepted>>
    BY DEF PropCount, PropRetryIdle, PropUnlock, PropRetryEval, PropFail,
           redis, queues, history
<1>2. HistoryGrows
    BY <1>1 DEF PropCount, PropRetryIdle, PropUnlock, PropRetryEval, PropFail,
                history, HistoryGrows, Sent
<1>3. AnswersFrom(Sent)' /\ EvLineage'
    BY <1>1, <1>2, AnswersKept, EvKept
<1>4. PrLineage'
    BY <1>0, <1>2, PrGoesOn, PrAckedFrom
    DEF PropCount, PropRetryIdle, PropUnlock, PropRetryEval, PropFail, Plain, Succeeding
<1>5. \A q \in Rules : \/ status'[q] = status[q]
                       \/ status'[q] = "Idle"
                       \/ status'[q] = "Failed" /\ q \in abandoned'
    BY <1>0 DEF PropCount, PropRetryIdle, PropUnlock, PropRetryEval, PropFail,
                TypeInv, RedisOK, redis
<1>6. DataFrom(accepted, abandoned)'
    BY <1>1, <1>2, <1>5 DEF DataFrom, HistoryGrows
<1> QED BY <1>3, <1>4, <1>6

LEMMA LineageInfer ==
    ASSUME TypeInv, Lineage, NEW r \in Rules,
           \/ Infer(r) \/ InferLose(r) \/ LockExpire(r)
           \/ \E o \in Outcomes : InferAgain(r, o)
    PROVE  Lineage'
<1> USE DEF Lineage
<1>1. UNCHANGED <<trigger, ev, pr, history, status, filled, anchored>>
    BY DEF Infer, InferSuccess, InferError, InferLose, InferAgain, LockExpire,
           handlers, redis
<1>2. HistoryGrows /\ EvLineage' /\ PrLineage' /\ DataFrom(accepted, abandoned)' /\ UNCHANGED Sent
    BY <1>1, HistoryKept, EvKept, PrKept, DataKept DEF history, Sent
<1>3. CASE LockExpire(r)
    BY <1>2, <1>3, AnswersKept DEF LockExpire, queues
<1>4. CASE ~LockExpire(r)
  <2>1. r \in Sent
      BY <1>4 DEF Infer, InferSuccess, InferError, InferLose, InferAgain, TakeRequest,
                  AnswersFrom
  <2>2. UNCHANGED requests \/ requests' = [requests EXCEPT ![r] = requests[r] - 1]
      BY <1>4 DEF Infer, InferSuccess, InferError, InferLose, InferAgain, TakeRequest
  <2>3. \A q \in Rules : requests'[q] > 0 => q \in Sent
      BY <2>1, <2>2 DEF AnswersFrom, TypeInv, QueuesOK
  <2>4. \/ UNCHANGED results
        \/ \E o \in Outcomes : results' = [results EXCEPT ![<<r, o>>] = results[<<r, o>>] + 1]
      BY <1>4 DEF Infer, InferSuccess, InferError, InferLose, InferAgain, Answer, Outcomes
  <2>5. \A q \in Rules, u \in Outcomes : results'[<<q, u>>] > 0 => q \in Sent
    <3> SUFFICES ASSUME NEW q \in Rules, NEW u \in Outcomes, results'[<<q, u>>] > 0, q # r
                 PROVE  q \in Sent
        BY <2>1
    <3>1. <<q, u>> \in Rules \X Outcomes /\ \A o : <<q, u>> # <<r, o>>
        OBVIOUS
    <3>2. results'[<<q, u>>] = results[<<q, u>>]
        BY <2>4, <3>1 DEF TypeInv, QueuesOK
    <3> QED BY <3>2 DEF AnswersFrom
  <2> QED BY <1>2, <2>3, <2>5 DEF AnswersFrom
<1> QED BY <1>3, <1>4

LEMMA LineageNext == TypeInv /\ Lineage /\ [Next]_vars => Lineage'
<1> SUFFICES ASSUME TypeInv, Lineage, [Next]_vars PROVE Lineage'
    OBVIOUS
<1>1. CASE UNCHANGED vars
    BY <1>1, HistoryKept, DataKept, AnswersKept, EvKept, PrKept
    DEF Lineage, vars, redis, queues, handlers
<1>2. CASE Next
  <2>1. ASSUME NEW t \in PropTasks, PropStep(t) PROVE Lineage'
      BY <2>1, LineagePropSuccess, LineagePropHome, LineagePropClose, LineagePropFailure
      DEF PropStep
  <2> QED
      BY <1>2, <2>1, LineageApi, LineageEval, LineagePropTake, LineageInfer DEF Next
<1> QED BY <1>1, <1>2

\* All data, anchors, statuses, requests, results and local variables stem from
\* seeds, requests, successes and failures of the run.
THEOREM LineageInvariance == Spec => []Lineage
<1>1. Init /\ [][Next]_vars => []TypeInv
    BY TypeInvariance DEF Spec
<1> QED BY <1>1, LineageInit, LineageNext, PTL DEF Spec

-----------------------------------------------------------------------------
(* The refinement                                                          *)

\* The instance of GraphRun has a copy of the topology's operators.
LEMMA SameReady ==
    \A r, avail : Contract!Ready(r, avail) <=> Ready(r, avail)
BY DEF Contract!Ready, Ready, Contract!InputSet, InputSet

LEMMA SameAvailable ==
    \A A, p : Contract!AvailableFrom(A, p) <=> AvailableFrom(A, p)
<1>1. Contract!FeedbackFamily = FeedbackFamily
    BY DEF Contract!FeedbackFamily, FeedbackFamily, Contract!DerivedFrom, DerivedFrom,
           Contract!ClosedUnderDerivation, ClosedUnderDerivation
<1>2. \A r : Contract!InputSet(r) = InputSet(r)
    BY DEF Contract!InputSet, InputSet
<1>3. \A n : Contract!ControllersOn(n) = ControllersOn(n)
    BY DEF Contract!ControllersOn, ControllersOn
<1>4. \A n : Contract!SeedsOf(n) = SeedsOf(n)
    BY DEF Contract!SeedsOf, SeedsOf
<1>5. \A r : Contract!HomeTargets(r) = HomeTargets(r)
    BY <1>1, <1>3 DEF Contract!HomeTargets, HomeTargets
<1> QED
    BY <1>2, <1>3, <1>4, <1>5 DEF Contract!AvailableFrom, AvailableFrom, Contract!Feeds, Feeds

LEMMA SamePastAnchor ==
    \A A, r : Contract!PastAnchor(A, r) <=> PastAnchor(A, r)
<1>1. Contract!FeedbackFamily = FeedbackFamily
    BY DEF Contract!FeedbackFamily, FeedbackFamily, Contract!DerivedFrom, DerivedFrom,
           Contract!ClosedUnderDerivation, ClosedUnderDerivation
<1>2. \A r : Contract!IsForwardFamily(r) <=> IsForwardFamily(r)
    BY <1>1 DEF Contract!IsForwardFamily, IsForwardFamily, Contract!InputSet, InputSet
<1> QED
    BY <1>2 DEF Contract!PastAnchor, PastAnchor, Contract!AnchoredFrom, AnchoredFrom

\* A rule is ready whenever the data it was found ready with is there.
LEMMA ReadyGrows ==
    ASSUME NEW r \in Rules, NEW S, NEW B, Ready(r, S), S \cap InputSet(r) \subseteq B
    PROVE  Ready(r, B)
<1>1. Inputs[r] \in Seq(Projections) /\ Mode[r] \in Modes
    BY TopologyAssumption
<1>2. Inputs[r] # <<>> => Inputs[r][1] \in InputSet(r)
    BY <1>1 DEF InputSet
<1> QED BY <1>1, <1>2 DEF Ready, Modes

LEMMA ContractInit == Init => Contract!Init
BY DEF Init, Contract!Init

LEMMA ContractSend ==
    ASSUME TypeInv, Lineage, NEW t \in EvalTasks, EvalPublish(t)
    PROVE  \E r \in Rules : Contract!Send(r)
<1> DEFINE r == ev[t].rule
<1>1. r \in Rules /\ dispatches \in [Rules -> Nat]
    BY DEF EvalPublish, TypeInv, EvWell, HistoryOK
<1>2. /\ \A p \in ev[t].avail : AvailableFrom(accepted, p)
      /\ Ready(r, ev[t].avail) /\ PastAnchor(accepted, r)
    BY DEF EvalPublish, Lineage, EvLineage, EvFrom
<1>3. Ready(r, {p \in InputSet(r) : AvailableFrom(accepted, p)})
    BY <1>1, <1>2, ReadyGrows
<1>4. Contract!MayBeSent(r)
  <2>1. {p \in Contract!InputSet(r) : Contract!AvailableFrom(accepted, p)}
           = {p \in InputSet(r) : AvailableFrom(accepted, p)}
      BY SameAvailable DEF Contract!InputSet, InputSet
  <2> QED BY <1>2, <1>3, <2>1, SameReady, SamePastAnchor DEF Contract!MayBeSent
<1>5. dispatches' = [dispatches EXCEPT ![r] = dispatches[r] + 1]
      /\ UNCHANGED <<runStatus, accepted, abandoned>>
    BY DEF EvalPublish, redis
<1>6. {q \in Rules : dispatches'[q] > 0} = {q \in Rules : dispatches[q] > 0} \cup {r}
    BY <1>1, <1>5
<1> QED BY <1>1, <1>4, <1>5, <1>6 DEF Contract!Send

LEMMA ContractAccept ==
    ASSUME TypeInv, Lineage, NEW t \in PropTasks, PropCheck(t)
    PROVE  (\E r \in Rules : Contract!Accept(r)) \/ UNCHANGED Contract!vars
<1>1. pr[t].rule \in Rules /\ pr[t].rule \in Sent
    BY PrKnown DEF PropCheck, Lineage
<1>2. UNCHANGED <<runStatus, dispatches, abandoned>>
      /\ (UNCHANGED accepted \/ accepted' = accepted \cup {pr[t].rule})
    BY DEF PropCheck, redis
<1> QED BY <1>1, <1>2 DEF Contract!Accept, Contract!vars, Sent

LEMMA ContractAbandon ==
    ASSUME TypeInv, Lineage, NEW t \in PropTasks, PropFail(t)
    PROVE  \E r \in Rules : Contract!Abandon(r)
<1>1. pr[t].rule \in Rules /\ pr[t].rule \in Sent
    BY PrKnown DEF PropFail, Lineage
<1> QED BY <1>1 DEF PropFail, Contract!Abandon, Sent

LEMMA ContractClose ==
    ASSUME TypeInv, Lineage, NEW t \in PropTasks, PropFinish(t)
    PROVE  Contract!Close
<1>1. MustEnd \subseteq accepted \cup abandoned
    BY DEF PropFinish, Lineage, PrLineage, PrFrom, Ended
<1>2. runStatus' = "Completed" /\ UNCHANGED <<dispatches, accepted, abandoned>>
    BY DEF PropFinish, history
<1> QED BY <1>1, <1>2 DEF Contract!Close, Contract!MayClose, MustEnd

\* What neither closes nor reopens the run and records nothing is a stutter.
LEMMA ContractStutter ==
    UNCHANGED <<runStatus, history>> => UNCHANGED Contract!vars
BY DEF Contract!vars, history

LEMMA ContractReopen ==
    ASSUME TypeInv, TriggerRun \/ CancelMark \/ CancelCleanup
    PROVE  Contract!Reopen
BY DEF TriggerRun, CancelMark, CancelCleanup, Contract!Reopen, history

LEMMA ContractNext ==
    ASSUME TypeInv, Lineage, [Next]_vars
    PROVE  [Contract!Next]_Contract!vars
<1>1. CASE UNCHANGED vars
    BY <1>1, ContractStutter DEF vars, redis
<1>2. CASE Trigger
    BY <1>2, ContractStutter, ContractReopen
    DEF Trigger, TriggerSave, TriggerSeed, Contract!Next
<1>3. CASE CancelMark \/ CancelCleanup
    BY <1>3, ContractReopen DEF Contract!Next
<1>4. ASSUME NEW t \in EvalTasks, EvalTake(t) \/ EvalStep(t) \/ EvalCrash(t)
      PROVE  [Contract!Next]_Contract!vars
  <2>1. CASE EvalPublish(t)
      BY <2>1, ContractSend DEF Contract!Next
  <2>2. CASE ~EvalPublish(t)
    <3>1. UNCHANGED <<runStatus, history>>
        BY <1>4, <2>2 DEF EvalTake, EvalReceive, EvalStep, EvalStatus, EvalScan, EvalGate,
                          EvalLock, EvalRecheck, EvalRender, EvalDispatch, EvalCrash, redis
    <3> QED BY <3>1, ContractStutter
  <2> QED BY <2>1, <2>2
<1>5. ASSUME NEW t \in PropTasks, PropTake(t) \/ PropStep(t) \/ PropCrash(t)
      PROVE  [Contract!Next]_Contract!vars
  <2>1. CASE PropCheck(t)
      BY <2>1, ContractAccept DEF Contract!Next
  <2>2. CASE PropFail(t)
      BY <2>2, ContractAbandon DEF Contract!Next
  <2>3. CASE PropFinish(t)
      BY <2>3, ContractClose DEF Contract!Next
  <2>4. CASE ~PropCheck(t) /\ ~PropFail(t) /\ ~PropFinish(t)
    <3>1. UNCHANGED <<runStatus, history>>
        BY <1>5, <2>4
        DEF PropTake, PropReceive, PropStep, PropFan, PropComplete, PropAnchor, PropHome,
            PropIterate, PropResetStatus, PropResetLock, PropRefire, PropClose, PropScan,
            PropCount, PropRetryIdle, PropUnlock, PropRetryEval, PropCrash, redis
    <3> QED BY <3>1, ContractStutter
  <2> QED BY <2>1, <2>2, <2>3, <2>4
<1>6. ASSUME NEW r \in Rules,
             \/ Infer(r) \/ InferLose(r) \/ LockExpire(r)
             \/ \E o \in Outcomes : InferAgain(r, o)
      PROVE  [Contract!Next]_Contract!vars
  <2>1. UNCHANGED <<runStatus, history>>
      BY <1>6 DEF Infer, InferSuccess, InferError, InferLose, InferAgain, LockExpire, redis
  <2> QED BY <2>1, ContractStutter
<1> QED BY <1>1, <1>2, <1>3, <1>4, <1>5, <1>6 DEF Next

\* Whatever fails, is lost, repeated, delayed or cancelled, the engine carries
\* out the contract of GraphRun: causal dispatch, the anchor gate, successes and
\* failures only of what was sent, and a run closed only over terminal rules that
\* have ended (evaluator.rs, propagator.rs).
THEOREM EngineImplementsContract == Spec => ContractSpec
<1>1. Init /\ [][Next]_vars => []TypeInv
    BY TypeInvariance DEF Spec
<1>2. Init /\ [][Next]_vars => []Lineage
    BY LineageInvariance DEF Spec
<1>3. TypeInv /\ Lineage /\ [Next]_vars => [Contract!Next]_Contract!vars
    BY ContractNext
<1> QED
    BY <1>1, <1>2, <1>3, ContractInit, PTL DEF Spec, ContractSpec, Contract!Spec

-----------------------------------------------------------------------------
(* How a task goes on                                                      *)

\* Evaluator t goes on as x, and the others stay where they are.
EvalTo(t, x) == ev' = [ev EXCEPT ![t] = x]

LEMMA EvalToOthers ==
    ASSUME EvWell, NEW t \in EvalTasks, NEW x, EvalTo(t, x)
    PROVE  ev'[t] = x /\ \A u \in EvalTasks : u # t => ev'[u] = ev[u]
BY DEF EvWell, EvalTo

LEMMA EvalGotoTo ==
    ASSUME EvWell, NEW t \in EvalTasks, NEW pc, EvalGoto(t, pc)
    PROVE  \E x : /\ EvalTo(t, x)
                  /\ x.pc = pc /\ x.rule = ev[t].rule /\ x.next = ev[t].next /\ x.avail = ev[t].avail
<1> DEFINE x == [ev[t] EXCEPT !.pc = pc]
<1>1. x.pc = pc /\ x.rule = ev[t].rule /\ x.next = ev[t].next /\ x.avail = ev[t].avail
    BY DEF EvWell, EvalLocal
<1>2. EvalTo(t, x)
    BY DEF EvalTo, EvalGoto
<1> HIDE DEF x
<1> QED BY <1>1, <1>2

\* Propagator t goes on as x, and the others stay where they are.
PropTo(t, x) == pr' = [pr EXCEPT ![t] = x]

LEMMA PropToOthers ==
    ASSUME PrWell, NEW t \in PropTasks, NEW x, PropTo(t, x)
    PROVE  pr'[t] = x /\ \A u \in PropTasks : u # t => pr'[u] = pr[u]
BY DEF PrWell, PropTo

LEMMA PropGotoTo ==
    ASSUME PrWell, NEW t \in PropTasks, NEW pc, PropGoto(t, pc)
    PROVE  \E x : /\ PropTo(t, x)
                  /\ x.pc = pc /\ x.rule = pr[t].rule /\ x.todo = pr[t].todo
                  /\ x.termsDone = pr[t].termsDone /\ x.running = pr[t].running
                  /\ x.settled = pr[t].settled
<1> DEFINE x == [pr[t] EXCEPT !.pc = pc]
<1>1. /\ x.pc = pc /\ x.rule = pr[t].rule /\ x.todo = pr[t].todo
      /\ x.termsDone = pr[t].termsDone /\ x.running = pr[t].running
      /\ x.settled = pr[t].settled
    BY DEF PrWell, PropLocal
<1>2. PropTo(t, x)
    BY DEF PropTo, PropGoto
<1> HIDE DEF x
<1> QED BY <1>1, <1>2

-----------------------------------------------------------------------------
(* The budget of mishaps                                                   *)

Disturbances == {"duplicate", "propCrash", "lockExpiry", "cancel"}

BudgetKept ==
    /\ \A e \in Events : budget[e] <= Budget[e]
    /\ cancel = "cleanup" => budget["cancel"] < Budget["cancel"]

\* The only mishaps so far are inference errors.
OnlyErrors == \A e \in Events \ {"error"} : budget[e] = Budget[e]

\* What a step can do to the budget, the cancellation and the loops.
LEMMA Environment ==
    ASSUME Next
    PROVE  /\ UNCHANGED budget \/ \E e \in Events : Spend(e)
           /\ UNCHANGED cancel \/ cancel' = "idle" \/ CancelMark
           /\ \/ UNCHANGED iteration
              \/ CancelCleanup
              \/ \E c \in Controllers : iteration' = [iteration EXCEPT ![c] = @ + 1]
<1> DEFINE Goal ==
        /\ UNCHANGED budget \/ \E e \in Events : Spend(e)
        /\ UNCHANGED cancel \/ cancel' = "idle" \/ CancelMark
        /\ \/ UNCHANGED iteration
           \/ CancelCleanup
           \/ \E c \in Controllers : iteration' = [iteration EXCEPT ![c] = @ + 1]
<1>1. CASE Trigger \/ CancelMark \/ CancelCleanup
    BY <1>1 DEF Trigger, TriggerSave, TriggerSeed, TriggerRun, CancelMark, CancelCleanup,
                Events, bounds
<1>2. ASSUME NEW t \in EvalTasks, EvalTake(t) \/ EvalStep(t) \/ EvalCrash(t) PROVE Goal
    BY <1>2 DEF EvalTake, EvalReceive, EvalStep, EvalStatus, EvalScan, EvalGate, EvalLock,
                EvalRecheck, EvalRender, EvalPublish, EvalDispatch, EvalCrash,
                Events, bounds, redis
<1>3. ASSUME NEW t \in PropTasks, PropTake(t) \/ PropStep(t) \/ PropCrash(t) PROVE Goal
  <2>1. CASE PropIterate(t)
      BY <2>1 DEF PropIterate, ControllersOn, bounds
  <2>2. CASE ~PropIterate(t)
      BY <1>3, <2>2
      DEF PropTake, PropReceive, PropStep, PropCheck, PropFan, PropComplete, PropAnchor,
          PropHome, PropResetStatus, PropResetLock, PropRefire, PropClose, PropScan,
          PropFinish, PropCount, PropRetryIdle, PropUnlock, PropRetryEval, PropFail,
          PropCrash, Events, bounds, redis
  <2> QED BY <2>1, <2>2
<1>4. ASSUME NEW r \in Rules,
             \/ Infer(r) \/ InferLose(r) \/ LockExpire(r)
             \/ \E o \in Outcomes : InferAgain(r, o)
      PROVE  Goal
    BY <1>4 DEF Infer, InferSuccess, InferError, InferLose, InferAgain, LockExpire,
                Events, bounds, redis, handlers
<1> QED BY <1>1, <1>2, <1>3, <1>4 DEF Next

LEMMA BudgetType ==
    ASSUME TypeInv
    PROVE  budget \in [Events -> Nat] /\ Budget \in [Events -> Nat]
           /\ Disturbances \subseteq Events
BY EngineAssumption DEF TypeInv, HistoryOK, Disturbances, Events

LEMMA BudgetNext ==
    ASSUME TypeInv, BudgetKept, Next
    PROVE  BudgetKept' /\ \A e \in Events : budget'[e] <= budget[e]
<1>1. \A e \in Events : budget'[e] <= budget[e] /\ budget'[e] \in Nat
    BY BudgetType, Environment DEF Spend
<1>2. \A e \in Events : budget'[e] <= Budget[e]
    BY <1>1, BudgetType DEF BudgetKept
<1>3. CASE CancelMark
  <2>1. "cancel" \in Events /\ budget'["cancel"] = budget["cancel"] - 1
      BY <1>3, BudgetType DEF CancelMark, Spend, Disturbances
  <2> QED BY <1>1, <1>2, <2>1, BudgetType DEF BudgetKept
<1>4. CASE ~CancelMark
  <2>1. UNCHANGED cancel \/ cancel' = "idle"
      BY <1>4, Environment
  <2>2. "cancel" \in Events
      BY BudgetType DEF Disturbances
  <2> QED BY <1>1, <1>2, <2>1, <2>2, BudgetType DEF BudgetKept
<1> QED BY <1>1, <1>3, <1>4

-----------------------------------------------------------------------------
(* A loop with one thread of control.                                      *)
(*                                                                         *)
(* In a graph with one loop, in which each success wakes one rule, or goes *)
(* home, a slow inference (Pace = "drained") leaves one thread of control: *)
(* one rule carries it at a time, and it is over when the loop has reached *)
(* its bound or a rule was given up.                                       *)

\* Nothing is under way but what the propagators hold.
Silent ==
    /\ \A x \in Rules : evals[x] = 0 /\ requests[x] = 0
    /\ \A t \in EvalTasks : ev[t].pc = "idle"

NoResults == \A m \in Rules \X Outcomes : results[m] = 0

\* Inference errors are the only mishaps, and the loop has iterations to go.
Going(c) ==
    /\ cancel = "idle"
    /\ abandoned = {}
    /\ MaxIterations[c] # 0 => iteration[c] < MaxIterations[c]

\* The thread has come to q, and not past it.
Reached(q, rank) ==
    /\ status[q] \in {"Idle", "Dispatched"}
    /\ \A x \in Rules : rank[q] < rank[x] => status[x] = "Idle"

Stale(x) == ~(InputSet(x) \subseteq filled)

Looks(t, q) == ev[t].rule = q /\ ev[t].pc \notin {"idle", "dispatch"}

\* There is one check or one request of q, and no check of another rule can
\* come to anything.
Token(q) ==
    /\ evals[q] + requests[q] <= 1
    /\ \A t, u \in EvalTasks : Looks(t, q) /\ Looks(u, q) => t = u
    /\ (\E t \in EvalTasks : Looks(t, q)) => evals[q] = 0 /\ requests[q] = 0
    /\ \A x \in Rules \ {q} : requests[x] = 0 /\ (evals[x] > 0 => Stale(x))
    /\ \A t \in EvalTasks : ev[t].pc # "idle" /\ ev[t].rule # q =>
          ev[t].pc \notin {"publish", "dispatch"} /\ Stale(ev[t].rule)

\* Evaluators and inference carry the thread.
Carry(c, first, rank, q) ==
    /\ Going(c) /\ Reached(q, rank) /\ Token(q)
    /\ \A t \in PropTasks : pr[t].pc = "idle"
    /\ runStatus = IF trigger.pc = "done" THEN "Running" ELSE "Absent"
    /\ trigger.pc # "done" => q = first /\ filled \subseteq SeedData /\ NoResults
    /\ trigger.pc = "save" => Silent
    /\ trigger.pc = "seed" =>
          /\ trigger.todo \subseteq UserInputs
          /\ Owner[first] \in trigger.todo =>
                /\ evals[first] = 0 /\ requests[first] = 0
                /\ \A t \in EvalTasks : ev[t].pc # "idle" => ev[t].rule # first
    /\ \A x \in Rules \ {q}, o \in Outcomes : results[<<x, o>>] = 0
    /\ results[<<q, "success">>] + results[<<q, "error">>] <= 1
    /\ (\E o \in Outcomes : results[<<q, o>>] > 0) => Silent

\* One propagator is at work.
Alone(c, t) ==
    /\ Going(c) /\ NoResults
    /\ trigger.pc = "done" /\ runStatus = "Running"
    /\ pr[t].pc # "idle"
    /\ \A u \in PropTasks \ {t} : pr[u].pc = "idle"

\* Propagator t has the result of q, and has not yet woken the next rule.
Judge(c, rank, t, q) ==
    /\ Alone(c, t) /\ Silent /\ Reached(q, rank)
    /\ pr[t].rule = q
    /\ \/ pr[t].pc \in {"check", "count", "retryIdle", "unlock", "retryEval", "fail"}
       \/ /\ pr[t].pc = "fan" /\ ~Homing(q)
          /\ pr[t].todo \subseteq Route[q]
          /\ \E p \in pr[t].todo : Affected(p) # {}

\* Propagator t has woken q, and finishes its own rule: it does not close the run.
Finishing(c, rank, t, q) ==
    /\ Alone(c, t) /\ Reached(q, rank) /\ Token(q)
    /\ \A x \in Rules \ {q} : evals[x] = 0
    /\ \A u \in EvalTasks : ev[u].pc # "idle" => ev[u].rule = q
    /\ pr[t].pc \in {"fan", "complete", "anchor", "home", "close", "scan"}
    /\ pr[t].pc \in {"fan", "complete"} => rank[pr[t].rule] < rank[q]
    /\ pr[t].pc \in {"fan", "complete", "anchor", "home"} => ~Homing(pr[t].rule)
    /\ pr[t].pc = "fan" =>
          pr[t].todo \subseteq Route[pr[t].rule] /\ \A p \in pr[t].todo : Affected(p) = {}
    /\ pr[t].pc = "home" => pr[t].rule \notin Controllers
    /\ pr[t].pc = "scan" => q \in pr[t].scan \/ ~pr[t].settled

\* Propagator t has a homing result, and has not yet woken the controller.
Turn(c, t) ==
    /\ Alone(c, t) /\ Silent
    /\ \/ /\ pr[t].pc \in {"fan", "complete", "anchor", "home", "iterate"}
          /\ Homing(pr[t].rule)
          /\ pr[t].pc = "fan" => pr[t].todo \subseteq Route[pr[t].rule]
          /\ pr[t].pc = "iterate" => pr[t].todo \subseteq HomeTargets(pr[t].rule)
       \/ /\ pr[t].pc \in {"resetStatus", "resetLock", "refire"}
          /\ pr[t].todo = {} /\ pr[t].ctrl = c
          /\ pr[t].pc = "refire" => pr[t].resets = {}
          /\ pr[t].pc = "resetLock" => status[pr[t].cur] = "Idle"
          /\ \A x \in ({c} \cup LoopBody(c)) \ pr[t].resets : status[x] = "Idle"

\* The thread has ended: only the completion check is left.
LoopOver(c) ==
    /\ Silent /\ NoResults
    /\ trigger.pc = "done" /\ cancel = "idle" /\ runStatus # "Canceled"
    /\ \A t \in PropTasks : pr[t].pc \in {"idle", "close", "scan", "finish"}
    /\ \/ abandoned # {} /\ (MaxIterations[c] # 0 => iteration[c] <= MaxIterations[c])
       \/ MaxIterations[c] # 0 /\ iteration[c] = MaxIterations[c]

Thread(c, first, rank) ==
    \/ \E q \in Rules : Carry(c, first, rank, q)
    \/ \E t \in PropTasks, q \in Rules : Judge(c, rank, t, q) \/ Finishing(c, rank, t, q)
    \/ \E t \in PropTasks : Turn(c, t)
    \/ LoopOver(c)

LoopInv(c, first, rank) == BudgetKept /\ (OnlyErrors => Thread(c, first, rank))

-----------------------------------------------------------------------------
(* Steps in a run in which only errors happen                              *)

LEMMA OnlyErrorsBack ==
    ASSUME TypeInv, BudgetKept, Next, OnlyErrors'
    PROVE  OnlyErrors /\ \A e \in Events \ {"error"} : ~Spend(e)
<1>1. ASSUME NEW e \in Events \ {"error"} PROVE budget[e] = Budget[e] /\ ~Spend(e)
  <2>1. budget[e] \in Nat /\ Budget[e] \in Nat /\ budget'[e] = Budget[e]
      BY BudgetType DEF OnlyErrors
  <2>2. budget'[e] <= budget[e] /\ budget[e] <= Budget[e]
      BY BudgetNext DEF BudgetKept
  <2>3. budget[e] = Budget[e]
      BY <2>1, <2>2
  <2>4. ~Spend(e)
    <3> SUFFICES ASSUME Spend(e) PROVE FALSE
        OBVIOUS
    <3>1. budget'[e] = budget[e] - 1
        BY BudgetType DEF Spend
    <3> QED BY <2>1, <2>3, <3>1
  <2> QED BY <2>3, <2>4
<1> QED BY <1>1 DEF OnlyErrors

LEMMA ErrorSteps ==
    ASSUME TypeInv, BudgetKept, Next, OnlyErrors'
    PROVE  \/ Trigger
           \/ \E t \in EvalTasks : EvalTake(t) \/ EvalStep(t)
           \/ \E t \in PropTasks : PropTake(t) \/ PropStep(t)
           \/ \E r \in Rules : Infer(r)
<1>1. \A e \in Events \ {"error"} : budget[e] = Budget[e] /\ ~Spend(e)
    BY OnlyErrorsBack DEF OnlyErrors
<1>2. {"lost", "duplicate", "evalCrash", "propCrash", "lockExpiry", "cancel"}
        \subseteq Events \ {"error"}
    BY DEF Events
<1>3. ~CancelMark
    BY <1>1, <1>2 DEF CancelMark
<1>4. ~CancelCleanup
  <2>1. budget["cancel"] = Budget["cancel"] /\ Budget["cancel"] \in Nat
      BY <1>1, <1>2, BudgetType
  <2> QED BY <2>1 DEF CancelCleanup, BudgetKept
<1>5. \A t \in EvalTasks : ~EvalCrash(t)
    BY <1>1, <1>2 DEF EvalCrash
<1>6. \A t \in PropTasks : ~PropCrash(t)
    BY <1>1, <1>2 DEF PropCrash
<1>7. \A r \in Rules : ~InferLose(r) /\ ~LockExpire(r)
    BY <1>1, <1>2 DEF InferLose, LockExpire
<1>8. \A r \in Rules, o \in Outcomes : ~InferAgain(r, o)
    BY <1>1, <1>2 DEF InferAgain
<1> QED BY <1>3, <1>4, <1>5, <1>6, <1>7, <1>8 DEF Next

-----------------------------------------------------------------------------
(* What the steps of the tasks write                                       *)

LEMMA EvalWrites ==
    ASSUME NEW t \in EvalTasks, EvalStep(t)
    PROVE  /\ ev[t].pc # "idle"
           /\ UNCHANGED <<runStatus, filled, iteration, evals, results,
                          trigger, cancel, pr, abandoned>>
           /\ IF ev[t].pc = "publish"
              THEN requests' = [requests EXCEPT ![ev[t].rule] = @ + 1]
              ELSE UNCHANGED requests
           /\ IF ev[t].pc = "dispatch"
              THEN status' = [status EXCEPT ![ev[t].rule] = "Dispatched"]
              ELSE UNCHANGED status
BY DEF EvalStep, EvalStatus, EvalScan, EvalGate, EvalLock, EvalRecheck, EvalRender,
       EvalPublish, EvalDispatch, redis, queues, history

\* An evaluator that is about to send r has seen all inputs of r.
EvalAdvances(t, x) ==
    /\ EvalTo(t, x)
    /\ x.pc # "idle" => x.rule = ev[t].rule
    /\ x.pc = "publish" => InputSet(ev[t].rule) \subseteq filled
    /\ x.pc = "dispatch" <=> ev[t].pc = "publish"
    /\ ev[t].pc = "dispatch" => x.pc = "idle"

LEMMA EvalAdvance ==
    ASSUME EvWell, NEW t \in EvalTasks, EvalStep(t)
    PROVE  \E x : EvalAdvances(t, x)
<1>1. ASSUME EvalAck(t), ev[t].pc # "publish" PROVE \E x : EvalAdvances(t, x)
  <2>1. EvalAdvances(t, EvalIdle)
      BY <1>1, IdleLocals DEF EvalAdvances, EvalTo, EvalAck
  <2> QED BY <2>1
<1>2. ASSUME NEW pc, EvalGoto(t, pc), pc = "publish" => InputSet(ev[t].rule) \subseteq filled,
             pc = "dispatch" <=> ev[t].pc = "publish", ev[t].pc # "dispatch"
      PROVE  \E x : EvalAdvances(t, x)
  <2>1. PICK x : EvalTo(t, x) /\ x.pc = pc /\ x.rule = ev[t].rule
      BY <1>2, EvalGotoTo
  <2>2. EvalAdvances(t, x)
      BY <1>2, <2>1 DEF EvalAdvances
  <2> QED BY <2>2
<1>3. CASE EvalScan(t)
  <2> DEFINE i == ev[t].next
             p == Inputs[ev[t].rule][i]
             x == [ev[t] EXCEPT !.avail = IF p \in filled THEN @ \cup {p} ELSE @,
                                !.next = i + 1,
                                !.pc = IF i = Len(Inputs[ev[t].rule]) THEN "gate" ELSE "scan"]
  <2>1. EvalTo(t, x)
      BY <1>3 DEF EvalScan, EvalTo
  <2>2. x.rule = ev[t].rule /\ x.pc \in {"gate", "scan"} /\ ev[t].pc = "scan"
      BY <1>3 DEF EvalScan, EvWell, EvalLocal
  <2> HIDE DEF x
  <2>3. EvalAdvances(t, x)
      BY <2>1, <2>2 DEF EvalAdvances
  <2> QED BY <2>3
<1>4. CASE EvalRender(t)
  <2>1. ev[t].pc = "render"
      BY <1>4 DEF EvalRender
  <2>2. \/ EvalAck(t)
        \/ EvalGoto(t, "publish") /\ InputSet(ev[t].rule) \subseteq filled
      BY <1>4 DEF EvalRender, Placeholders
  <2> QED BY <1>1, <1>2, <2>1, <2>2
<1>5. CASE EvalStatus(t)
  <2>1. ev[t].pc = "status" /\ (EvalAck(t) \/ EvalGoto(t, "gate") \/ EvalGoto(t, "scan"))
      BY <1>5 DEF EvalStatus
  <2> QED BY <1>1, <1>2, <2>1
<1>6. CASE EvalGate(t)
  <2>1. ev[t].pc = "gate" /\ (EvalAck(t) \/ EvalGoto(t, "lock"))
      BY <1>6 DEF EvalGate
  <2> QED BY <1>1, <1>2, <2>1
<1>7. CASE EvalLock(t)
  <2>1. ev[t].pc = "lock" /\ (EvalAck(t) \/ EvalGoto(t, "recheck"))
      BY <1>7 DEF EvalLock
  <2> QED BY <1>1, <1>2, <2>1
<1>8. CASE EvalRecheck(t)
  <2>1. ev[t].pc = "recheck" /\ (EvalAck(t) \/ EvalGoto(t, "render"))
      BY <1>8 DEF EvalRecheck
  <2> QED BY <1>1, <1>2, <2>1
<1>9. CASE EvalPublish(t)
  <2>1. ev[t].pc = "publish" /\ EvalGoto(t, "dispatch")
      BY <1>9 DEF EvalPublish
  <2> QED BY <1>2, <2>1
<1>10. CASE EvalDispatch(t)
  <2>1. ev[t].pc = "dispatch" /\ EvalAck(t)
      BY <1>10 DEF EvalDispatch
  <2> QED BY <1>1, <2>1
<1> QED BY <1>3, <1>4, <1>5, <1>6, <1>7, <1>8, <1>9, <1>10 DEF EvalStep

\* A check taken off the queue is dropped or looked at.
LEMMA EvalTakes ==
    ASSUME EvWell, NEW t \in EvalTasks, NEW r \in Rules, EvalReceive(t, r)
    PROVE  /\ evals[r] > 0 /\ evals' = [evals EXCEPT ![r] = @ - 1]
           /\ ev[t].pc = "idle"
           /\ UNCHANGED <<runStatus, status, filled, iteration, requests, results,
                          trigger, cancel, pr, abandoned>>
           /\ UNCHANGED ev \/ \E x : EvalTo(t, x) /\ x.pc = "status" /\ x.rule = r
<1> DEFINE x == [EvalIdle EXCEPT !.pc = "status", !.rule = r]
<1>1. UNCHANGED ev \/ EvalTo(t, x)
    BY DEF EvalReceive, EvalTo
<1>2. x.pc = "status" /\ x.rule = r
    BY DEF EvalIdle
<1> HIDE DEF x
<1> QED BY <1>1, <1>2 DEF EvalReceive, redis, history

-----------------------------------------------------------------------------
(* The evaluators                                                          *)

\* The check of a stale rule comes to nothing, and the one of q to one request.
LEMMA TokenEval ==
    ASSUME TypeInv, NEW q \in Rules, Token(q), NEW t \in EvalTasks, EvalTake(t) \/ EvalStep(t)
    PROVE  Token(q)'
<1>1. /\ EvWell /\ evals \in [Rules -> Nat] /\ requests \in [Rules -> Nat]
      /\ \A u \in EvalTasks : ev[u].pc # "idle" => ev[u].rule \in Rules
    BY DEF TypeInv, QueuesOK, EvWell
<1>2. ASSUME NEW r \in Rules, EvalReceive(t, r) PROVE Token(q)'
  <2>1. /\ evals[r] > 0 /\ evals' = [evals EXCEPT ![r] = @ - 1]
        /\ ev[t].pc = "idle" /\ UNCHANGED <<filled, requests>>
        /\ UNCHANGED ev \/ \E x : EvalTo(t, x) /\ x.pc = "status" /\ x.rule = r
      BY <1>1, <1>2, EvalTakes
  <2>2. \A x \in Rules : Stale(x)' <=> Stale(x)
      BY <2>1 DEF Stale
  <2>3. /\ \A u \in EvalTasks : u # t => ev'[u] = ev[u]
        /\ ev'[t] = ev[t] \/ (ev'[t].pc = "status" /\ ev'[t].rule = r)
      BY <1>1, <2>1, EvalToOthers
  <2>4. r # q => Stale(r)
      BY <2>1 DEF Token
  <2>5. /\ \A x \in Rules : evals'[x] = IF x = r THEN evals[x] - 1 ELSE evals[x]
        /\ \A x \in Rules : requests'[x] = requests[x]
      BY <1>1, <2>1
  <2>6. r = q => evals[q] = 1 /\ requests[q] = 0 /\ \A u \in EvalTasks : ~Looks(u, q)
      BY <1>1, <2>1 DEF Token
  <2>7. \A u \in EvalTasks : Looks(u, q)' => Looks(u, q) \/ (u = t /\ r = q)
      BY <2>1, <2>3 DEF Looks
  <2>8. /\ evals'[q] + requests'[q] <= 1
        /\ \A u, v \in EvalTasks : Looks(u, q)' /\ Looks(v, q)' => u = v
        /\ (\E u \in EvalTasks : Looks(u, q)') => evals'[q] = 0 /\ requests'[q] = 0
      BY <1>1, <2>5, <2>6, <2>7 DEF Token
  <2>9. \A x \in Rules \ {q} : requests'[x] = 0 /\ (evals'[x] > 0 => Stale(x)')
      BY <1>1, <2>2, <2>5 DEF Token
  <2>10. ASSUME NEW u \in EvalTasks, ev'[u].pc # "idle", ev'[u].rule # q
         PROVE  ev'[u].pc \notin {"publish", "dispatch"} /\ Stale(ev[u].rule)'
    <3>1. CASE ev'[u] = ev[u]
        BY <1>1, <2>2, <2>10, <3>1 DEF Token
    <3>2. CASE ev'[u] # ev[u]
      <4>1. u = t /\ ev'[u].pc = "status" /\ ev'[u].rule = r
          BY <2>3, <3>2
      <4> QED BY <2>2, <2>4, <2>10, <4>1
    <3> QED BY <3>1, <3>2
  <2> QED BY <2>8, <2>9, <2>10 DEF Token
<1>3. CASE EvalStep(t)
  <2>1. /\ ev[t].pc # "idle" /\ UNCHANGED <<filled, evals>>
        /\ IF ev[t].pc = "publish"
           THEN requests' = [requests EXCEPT ![ev[t].rule] = @ + 1]
           ELSE UNCHANGED requests
      BY <1>3, EvalWrites
  <2>2. PICK x : EvalAdvances(t, x)
      BY <1>1, <1>3, EvalAdvance
  <2>3. ev'[t] = x /\ \A u \in EvalTasks : u # t => ev'[u] = ev[u]
      BY <1>1, <2>2, EvalToOthers DEF EvalAdvances
  <2>4. /\ x.pc # "idle" => x.rule = ev[t].rule
        /\ x.pc = "publish" => InputSet(ev[t].rule) \subseteq filled
        /\ x.pc = "dispatch" <=> ev[t].pc = "publish"
        /\ ev[t].pc = "dispatch" => x.pc = "idle"
      BY <2>2 DEF EvalAdvances
  <2>5. \A y \in Rules : Stale(y)' <=> Stale(y)
      BY <2>1 DEF Stale
  <2>6. ev[t].rule # q => ev[t].pc \notin {"publish", "dispatch"} /\ Stale(ev[t].rule)
      BY <2>1 DEF Token
  <2>7. \A u \in EvalTasks : Looks(u, q)' => Looks(u, q)
      BY <2>1, <2>3, <2>4 DEF Looks
  <2>8. CASE ev[t].pc = "publish"
    <3>1. ev[t].rule = q /\ Looks(t, q)
        BY <2>6, <2>8 DEF Looks
    <3>2. evals[q] = 0 /\ requests[q] = 0 /\ \A u \in EvalTasks : Looks(u, q) => u = t
        BY <3>1 DEF Token
    <3>3. \A u \in EvalTasks : ~Looks(u, q)'
        BY <2>3, <2>4, <2>7, <2>8, <3>2 DEF Looks
    <3>4. requests' = [requests EXCEPT ![q] = 1] /\ evals' = evals
        BY <1>1, <2>1, <2>8, <3>1, <3>2
    <3>5. \A y \in Rules \ {q} : requests'[y] = 0 /\ (evals'[y] > 0 => Stale(y)')
        BY <1>1, <2>5, <3>4 DEF Token
    <3>6. ASSUME NEW u \in EvalTasks, ev'[u].pc # "idle", ev'[u].rule # q
          PROVE  ev'[u].pc \notin {"publish", "dispatch"} /\ Stale(ev[u].rule)'
      <4>1. u # t
          BY <2>3, <2>4, <3>1, <3>6
      <4> QED BY <1>1, <2>3, <2>5, <3>6, <4>1 DEF Token
    <3> QED BY <1>1, <3>2, <3>3, <3>4, <3>5, <3>6 DEF Token
  <2>9. CASE ev[t].pc # "publish"
    <3>1. UNCHANGED <<requests, evals>>
        BY <2>1, <2>9
    <3>2. \A y \in Rules \ {q} : requests'[y] = 0 /\ (evals'[y] > 0 => Stale(y)')
        BY <2>5, <3>1 DEF Token
    <3>3. ASSUME NEW u \in EvalTasks, ev'[u].pc # "idle", ev'[u].rule # q
          PROVE  ev'[u].pc \notin {"publish", "dispatch"} /\ Stale(ev[u].rule)'
      <4>1. CASE u # t
          BY <1>1, <2>3, <2>5, <3>3, <4>1 DEF Token
      <4>2. CASE u = t
        <5>1. ev[t].rule # q /\ ev[t].rule \in Rules /\ ev'[t].rule = ev[t].rule
            BY <1>1, <2>1, <2>3, <2>4, <3>3, <4>2
        <5>2. x.pc \notin {"publish", "dispatch"}
            BY <2>4, <2>6, <2>9, <5>1 DEF Stale
        <5> QED BY <2>3, <2>5, <2>6, <4>2, <5>1, <5>2
      <4> QED BY <4>1, <4>2
    <3>4. /\ evals'[q] + requests'[q] <= 1
          /\ \A u, v \in EvalTasks : Looks(u, q)' /\ Looks(v, q)' => u = v
          /\ (\E u \in EvalTasks : Looks(u, q)') => evals'[q] = 0 /\ requests'[q] = 0
        BY <2>7, <3>1 DEF Token
    <3> QED BY <3>2, <3>3, <3>4 DEF Token
  <2> QED BY <2>8, <2>9
<1> QED BY <1>2, <1>3 DEF EvalTake

LEMMA ReachedEval ==
    ASSUME TypeInv, NEW q \in Rules, NEW rank \in [Rules -> Nat], Token(q), Reached(q, rank),
           NEW t \in EvalTasks, EvalTake(t) \/ EvalStep(t)
    PROVE  Reached(q, rank)'
<1>1. status \in [Rules -> {"Idle", "Dispatched", "Completed", "Failed"}]
    BY DEF TypeInv, RedisOK
<1>2. UNCHANGED status \/ status' = [status EXCEPT ![q] = "Dispatched"]
  <2>1. CASE EvalTake(t)
      BY <2>1 DEF EvalTake, EvalReceive, redis
  <2>2. CASE EvalStep(t)
    <3>1. ev[t].pc = "dispatch" => ev[t].rule = q
        BY DEF Token
    <3> QED BY <2>2, <3>1, EvalWrites
  <2> QED BY <2>1, <2>2
<1>3. \A x \in Rules : rank[q] < rank[x] => x # q
    OBVIOUS
<1> QED BY <1>1, <1>2, <1>3 DEF Reached

\* What an evaluator leaves alone.
LEMMA EvalLeavesAlone ==
    ASSUME NEW t \in EvalTasks, EvalTake(t) \/ EvalStep(t)
    PROVE  /\ UNCHANGED <<runStatus, filled, iteration, results, trigger, cancel, pr, abandoned>>
           /\ ~Silent
<1>1. ASSUME NEW r \in Rules, EvalReceive(t, r)
      PROVE  /\ UNCHANGED <<runStatus, filled, iteration, results, trigger, cancel, pr, abandoned>>
             /\ evals[r] > 0
    BY <1>1 DEF EvalReceive, redis, history
<1>2. ASSUME NEW r \in Rules, evals[r] > 0 PROVE ~Silent
    BY <1>2 DEF Silent
<1>3. CASE EvalStep(t)
    BY <1>3, EvalWrites DEF Silent
<1> QED BY <1>1, <1>2, <1>3 DEF EvalTake

LEMMA GoingKept ==
    ASSUME NEW c, Going(c), UNCHANGED <<iteration, cancel, abandoned>>
    PROVE  Going(c)'
BY DEF Going

-----------------------------------------------------------------------------
(* The thread with the evaluators and with inference                       *)

LEMMA CarryEval ==
    ASSUME TypeInv, NEW c, NEW first \in Rules, NEW rank \in [Rules -> Nat], NEW q \in Rules,
           Carry(c, first, rank, q), NEW t \in EvalTasks, EvalTake(t) \/ EvalStep(t)
    PROVE  Carry(c, first, rank, q)'
<1>1. UNCHANGED <<runStatus, filled, iteration, results, trigger, cancel, pr, abandoned>> /\ ~Silent
    BY EvalLeavesAlone
<1>2. Token(q)' /\ Reached(q, rank)'
    BY TokenEval, ReachedEval DEF Carry
<1>3. Going(c)'
    BY <1>1, GoingKept DEF Carry
<1>4. ASSUME trigger'.pc = "seed", Owner[first] \in trigger'.todo
      PROVE  /\ evals'[first] = 0 /\ requests'[first] = 0
             /\ \A u \in EvalTasks : ev'[u].pc # "idle" => ev'[u].rule # first
  <2>1. /\ evals[first] = 0 /\ requests[first] = 0
        /\ \A u \in EvalTasks : ev[u].pc # "idle" => ev[u].rule # first
      BY <1>1, <1>4 DEF Carry
  <2>2. EvWell /\ evals \in [Rules -> Nat] /\ requests \in [Rules -> Nat]
      BY DEF TypeInv, QueuesOK
  <2>3. ASSUME NEW r \in Rules, EvalReceive(t, r)
        PROVE  /\ evals'[first] = 0 /\ requests'[first] = 0
               /\ \A u \in EvalTasks : ev'[u].pc # "idle" => ev'[u].rule # first
    <3>1. /\ evals[r] > 0 /\ evals' = [evals EXCEPT ![r] = @ - 1] /\ UNCHANGED requests
          /\ UNCHANGED ev \/ \E x : EvalTo(t, x) /\ x.pc = "status" /\ x.rule = r
        BY <2>2, <2>3, EvalTakes
    <3>2. r # first
        BY <2>1, <3>1
    <3>3. UNCHANGED ev \/ (/\ ev'[t].rule = r /\ \A u \in EvalTasks : u # t => ev'[u] = ev[u])
        BY <2>2, <3>1, EvalToOthers
    <3> QED BY <2>1, <2>2, <3>1, <3>2, <3>3
  <2>4. ASSUME EvalStep(t)
        PROVE  /\ evals'[first] = 0 /\ requests'[first] = 0
               /\ \A u \in EvalTasks : ev'[u].pc # "idle" => ev'[u].rule # first
    <3>1. PICK x : EvalAdvances(t, x)
        BY <2>2, <2>4, EvalAdvance
    <3>2. ev'[t] = x /\ \A u \in EvalTasks : u # t => ev'[u] = ev[u]
        BY <2>2, <3>1, EvalToOthers DEF EvalAdvances
    <3>3. ev[t].pc # "idle" /\ (x.pc # "idle" => x.rule = ev[t].rule)
        BY <2>4, <3>1, EvalWrites DEF EvalAdvances
    <3>4. UNCHANGED evals /\ (UNCHANGED requests \/ requests' = [requests EXCEPT ![ev[t].rule] = @ + 1])
        BY <2>4, EvalWrites
    <3> QED BY <2>1, <2>2, <3>2, <3>3, <3>4
  <2> QED BY <2>3, <2>4 DEF EvalTake
<1>5. trigger.pc # "save" /\ ~(\E o \in Outcomes : results[<<q, o>>] > 0)
    BY <1>1 DEF Carry
<1>6. NoResults => NoResults'
    BY <1>1 DEF NoResults
<1> QED BY <1>1, <1>2, <1>3, <1>4, <1>5, <1>6 DEF Carry

LEMMA CarryTrigger ==
    ASSUME TypeInv, NEW c, NEW first \in Rules, NEW rank \in [Rules -> Nat],
           OneThread(c, first, rank), NEW q \in Rules,
           Carry(c, first, rank, q), Trigger
    PROVE  Carry(c, first, rank, q)'
<1>1. UNCHANGED <<status, iteration, requests, results, cancel, ev, pr, abandoned>>
    BY DEF Trigger, TriggerSave, TriggerSeed, TriggerRun, queues, history
<1>2. trigger.pc # "done"
    BY DEF Trigger, TriggerSave, TriggerSeed, TriggerRun
<1>3. q = first /\ filled \subseteq SeedData /\ NoResults /\ runStatus = "Absent"
    BY <1>2 DEF Carry
<1>4. Going(c)' /\ Reached(q, rank)' /\ \A t \in PropTasks : pr'[t].pc = "idle"
    BY <1>1, GoingKept DEF Carry, Reached
<1>5. /\ \A x \in Rules \ {q}, o \in Outcomes : results'[<<x, o>>] = 0
      /\ results'[<<q, "success">>] + results'[<<q, "error">>] <= 1
      /\ ~(\E o \in Outcomes : results'[<<q, o>>] > 0) /\ NoResults'
  <2>1. NoResults'
      BY <1>1, <1>3 DEF NoResults
  <2>2. \A x \in Rules, o \in Outcomes : results'[<<x, o>>] = 0
      BY <2>1 DEF NoResults
  <2>3. "success" \in Outcomes /\ "error" \in Outcomes
      BY DEF Outcomes
  <2>4. results'[<<q, "success">>] = 0 /\ results'[<<q, "error">>] = 0
      BY <2>2, <2>3
  <2>5. results'[<<q, "success">>] + results'[<<q, "error">>] <= 1
      BY <2>4
  <2>6. ASSUME NEW o \in Outcomes, results'[<<q, o>>] > 0 PROVE FALSE
    <3>1. results'[<<q, o>>] = 0
        BY <2>2
    <3> QED BY <2>6, <3>1
  <2> QED BY <2>1, <2>2, <2>5, <2>6
<1>6. CASE TriggerSave
  <2>1. UNCHANGED <<runStatus, filled, evals>>
      BY <1>6 DEF TriggerSave, queues
  <2>2. trigger'.pc \in {"seed", "run"} /\ trigger'.todo = UserInputs
      BY <1>6 DEF TriggerSave
  <2>3. Silent
      BY <1>6 DEF TriggerSave, Carry
  <2>4. Token(q)'
      BY <1>1, <2>1 DEF Carry, Token, Looks, Stale
  <2> QED BY <1>1, <1>3, <1>4, <1>5, <2>1, <2>2, <2>3, <2>4 DEF Carry, Silent
<1>7. ASSUME NEW n \in Nodes, TriggerSeed(n) PROVE Carry(c, first, rank, q)'
  <2>1. trigger.pc = "seed" /\ n \in trigger.todo /\ UNCHANGED runStatus
      BY <1>7 DEF TriggerSeed
  <2>2. /\ trigger'.pc \in {"seed", "run"} /\ trigger'.todo = trigger.todo \ {n}
      BY <1>7 DEF TriggerSeed
  <2>3. trigger.todo \subseteq UserInputs
      BY <2>1 DEF Carry
  <2>4. filled' \subseteq SeedData
    <3>1. filled' \subseteq filled \cup SeedsOf(n)
        BY <1>7 DEF TriggerSeed
    <3>2. SeedsOf(n) \subseteq SeedData
        BY <2>1, <2>3 DEF SeedData
    <3> QED BY <1>3, <3>1, <3>2
  <2>5. \A x \in Rules \ {q} : Stale(x)'
      BY <1>3, <2>4 DEF OneThread, Stale
  <2>6. evals \in [Rules -> Nat] /\ requests \in [Rules -> Nat] /\ EvWell
      BY DEF TypeInv, QueuesOK
  <2>7. UNCHANGED evals \/ PublishEvals(RulesOn(n))
      BY <1>7 DEF TriggerSeed
  <2>8. \A x \in Rules : evals'[x] = evals[x] \/ (Owner[x] = n /\ evals'[x] = evals[x] + 1)
      BY <2>6, <2>7 DEF PublishEvals, RulesOn
  <2>9. Owner[first] = n =>
          /\ evals[first] = 0 /\ requests[first] = 0
          /\ \A u \in EvalTasks : ev[u].pc # "idle" => ev[u].rule # first
      BY <2>1 DEF Carry
  <2>10. Token(q)'
    <3>1. evals'[q] + requests'[q] <= 1
      <4>1. evals[q] + requests[q] <= 1
          BY DEF Carry, Token
      <4> QED BY <1>1, <1>3, <2>6, <2>8, <2>9, <4>1
    <3>2. \A u \in EvalTasks : Looks(u, q)' <=> Looks(u, q)
        BY <1>1 DEF Looks
    <3>3. (\E u \in EvalTasks : Looks(u, q)) => evals'[q] = 0 /\ requests'[q] = 0
      <4> SUFFICES ASSUME NEW u \in EvalTasks, Looks(u, q)
                   PROVE  evals'[q] = 0 /\ requests'[q] = 0
          OBVIOUS
      <4>1. Owner[first] # n
          BY <1>3, <2>9 DEF Looks
      <4>2. evals[q] = 0 /\ requests[q] = 0
          BY DEF Carry, Token
      <4> QED BY <1>1, <1>3, <2>8, <4>1, <4>2
    <3>4. \A x \in Rules \ {q} : requests'[x] = 0 /\ (evals'[x] > 0 => Stale(x)')
        BY <1>1, <2>5 DEF Carry, Token
    <3>5. \A u \in EvalTasks : ev'[u].pc # "idle" /\ ev'[u].rule # q =>
            ev'[u].pc \notin {"publish", "dispatch"} /\ Stale(ev[u].rule)'
        BY <1>1, <2>5, <2>6 DEF Carry, Token, EvWell
    <3>6. \A u, v \in EvalTasks : Looks(u, q)' /\ Looks(v, q)' => u = v
        BY <3>2 DEF Carry, Token
    <3> QED BY <3>1, <3>2, <3>3, <3>4, <3>5, <3>6 DEF Token
  <2>11. ASSUME Owner[first] \in trigger'.todo
         PROVE  /\ evals'[first] = 0 /\ requests'[first] = 0
                /\ \A u \in EvalTasks : ev'[u].pc # "idle" => ev'[u].rule # first
    <3>1. Owner[first] # n /\ Owner[first] \in trigger.todo
        BY <2>2, <2>11
    <3> QED BY <1>1, <2>1, <2>8, <3>1 DEF Carry
  <2> QED BY <1>3, <1>4, <1>5, <2>1, <2>2, <2>3, <2>4, <2>10, <2>11 DEF Carry
<1>8. CASE TriggerRun
  <2>1. UNCHANGED <<filled, evals>> /\ runStatus' = "Running" /\ trigger'.pc = "done"
    <3>1. trigger' = [trigger EXCEPT !.pc = "done"]
        BY <1>8 DEF TriggerRun
    <3> QED BY <1>8, <3>1 DEF TriggerRun, queues, TypeInv, ApiOK
  <2>2. Token(q)'
      BY <1>1, <2>1 DEF Carry, Token, Looks, Stale
  <2> QED BY <1>4, <1>5, <2>1, <2>2 DEF Carry
<1> QED BY <1>6, <1>7, <1>8 DEF Trigger

LEMMA CarryInfer ==
    ASSUME TypeInv, Pace = "drained", NEW c, NEW first \in Rules, NEW rank \in [Rules -> Nat],
           NEW q \in Rules, Carry(c, first, rank, q), NEW r \in Rules, Infer(r)
    PROVE  Carry(c, first, rank, q)'
<1>1. PICK o \in Outcomes : Answer(r, o)
    BY DEF Infer, InferSuccess, InferError, Outcomes
<1>2. TakeRequest(r) /\ HandlersDone /\ trigger.pc = "done"
    BY DEF Infer, InferSuccess, InferError, MayReply, FollowUpsDone
<1>3. UNCHANGED <<runStatus, status, filled, iteration, evals, trigger, cancel, ev, pr, abandoned>>
    BY DEF Infer, InferSuccess, InferError, redis, handlers, history
<1>4. /\ requests \in [Rules -> Nat] /\ evals \in [Rules -> Nat]
      /\ results \in [Rules \X Outcomes -> Nat]
    BY DEF TypeInv, QueuesOK
<1>5. r = q /\ requests[q] = 1
    BY <1>2, <1>4 DEF TakeRequest, Carry, Token
<1>6. requests' = [requests EXCEPT ![q] = 0] /\ results' = [results EXCEPT ![<<q, o>>] = @ + 1]
    BY <1>1, <1>2, <1>4, <1>5 DEF TakeRequest, Answer
<1>7. \A d \in Outcomes : results[<<q, d>>] = 0
  <2>1. ~Silent
      BY <1>5 DEF Silent
  <2>2. \A d \in Outcomes : results[<<q, d>>] \in Nat
      BY <1>4
  <2> QED BY <2>1, <2>2 DEF Carry
<1>8. \A x \in Rules \ {q}, d \in Outcomes : results'[<<x, d>>] = 0
    BY <1>4, <1>6 DEF Carry
<1>9. results'[<<q, "success">>] + results'[<<q, "error">>] <= 1
    BY <1>4, <1>6, <1>7 DEF Outcomes
<1>10. Silent'
  <2>1. \A x \in Rules : evals'[x] = 0 /\ requests'[x] = 0
      BY <1>2, <1>3, <1>4, <1>6 DEF HandlersDone, Carry, Token
  <2> QED BY <1>2, <1>3, <2>1 DEF HandlersDone, Silent
<1>11. Token(q)'
  <2>1. \A u \in EvalTasks : ev'[u].pc = "idle"
      BY <1>10 DEF Silent
  <2> QED BY <1>10, <2>1 DEF Token, Silent, Looks
<1>12. Going(c)' /\ Reached(q, rank)'
    BY <1>3, GoingKept DEF Carry, Reached
<1> QED BY <1>2, <1>3, <1>8, <1>9, <1>10, <1>11, <1>12 DEF Carry

LEMMA CarryTake ==
    ASSUME TypeInv, NEW c, NEW first \in Rules, NEW rank \in [Rules -> Nat],
           NEW q \in Rules, Carry(c, first, rank, q), NEW t \in PropTasks, PropTake(t)
    PROVE  Judge(c, rank, t, q)'
<1>1. PICK r \in Rules, o \in Outcomes : PropReceive(t, r, o)
    BY DEF PropTake
<1>2. PrWell /\ results \in [Rules \X Outcomes -> Nat]
    BY DEF TypeInv, QueuesOK
<1>3. results[<<r, o>>] > 0 /\ results' = [results EXCEPT ![<<r, o>>] = @ - 1]
    BY <1>1 DEF PropReceive
<1>4. r = q /\ Silent /\ trigger.pc = "done"
  <2>1. r = q
      BY <1>3 DEF Carry
  <2>2. ~NoResults
      BY <1>3 DEF NoResults
  <2> QED BY <1>3, <2>1, <2>2 DEF Carry
<1>5. runStatus = "Running"
    BY <1>4 DEF Carry
<1> DEFINE x == [PropIdle EXCEPT !.pc = "check", !.rule = r, !.outcome = o]
<1>6. PropTo(t, x)
    BY <1>1, <1>5 DEF PropReceive, PropTo
<1>7. x.pc = "check" /\ x.rule = q
    BY <1>4 DEF PropIdle
<1> HIDE DEF x
<1>8. pr'[t].pc = "check" /\ pr'[t].rule = q /\ \A u \in PropTasks \ {t} : pr'[u].pc = "idle"
    BY <1>2, <1>6, <1>7, PropToOthers DEF Carry
<1>9. UNCHANGED <<runStatus, status, iteration, evals, requests, trigger, cancel, ev, abandoned>>
    BY <1>1 DEF PropReceive, redis, history
<1>10. NoResults'
  <2>1. \A d \in Outcomes : results[<<q, d>>] \in Nat /\ <<q, d>> \in Rules \X Outcomes
      BY <1>2
  <2>2. results[<<q, "success">>] + results[<<q, "error">>] <= 1
      BY DEF Carry
  <2>3. ASSUME NEW d \in Outcomes PROVE results'[<<q, d>>] = 0
    <3>1. results[<<q, "success">>] \in Nat /\ results[<<q, "error">>] \in Nat
        BY <2>1 DEF Outcomes
    <3>2. results[<<q, o>>] > 0
        BY <1>3, <1>4
    <3>3. CASE d = o
      <4>1. results[<<q, o>>] = 1
          BY <2>2, <3>1, <3>2 DEF Outcomes
      <4>2. results'[<<q, o>>] = results[<<q, o>>] - 1
          BY <1>2, <1>3, <1>4, <2>1
      <4> QED BY <3>3, <4>1, <4>2
    <3>4. CASE d # o
      <4>1. results[<<q, d>>] = 0
          BY <2>2, <3>1, <3>2, <3>4 DEF Outcomes
      <4>2. results'[<<q, d>>] = results[<<q, d>>]
          BY <1>2, <1>3, <1>4, <2>1, <3>4
      <4> QED BY <4>1, <4>2
    <3> QED BY <3>3, <3>4
  <2>4. ASSUME NEW y \in Rules, y # q, NEW d \in Outcomes PROVE results'[<<y, d>>] = 0
      BY <1>2, <1>3, <1>4, <2>4 DEF Carry
  <2> QED BY <2>3, <2>4 DEF NoResults
<1>11. Going(c)' /\ Reached(q, rank)' /\ Silent'
    BY <1>4, <1>9, GoingKept DEF Carry, Reached, Silent
<1> QED BY <1>4, <1>5, <1>8, <1>9, <1>10, <1>11 DEF Judge, Alone

-----------------------------------------------------------------------------
(* The thread with a propagator                                            *)

LEMMA PropLeavesAlone ==
    ASSUME NEW t \in PropTasks, PropStep(t)
    PROVE  UNCHANGED <<requests, results, trigger, cancel, ev>> /\ pr[t].pc # "idle"
BY DEF PropStep, PropCheck, PropFan, PropComplete, PropAnchor, PropHome, PropIterate,
       PropResetStatus, PropResetLock, PropRefire, PropClose, PropScan, PropFinish,
       PropCount, PropRetryIdle, PropUnlock, PropRetryEval, PropFail, queues

\* Where a propagator is, decides which step it takes.
LEMMA PropStepAt ==
    ASSUME NEW t \in PropTasks, PropStep(t)
    PROVE  /\ pr[t].pc = "check" => PropCheck(t)
           /\ pr[t].pc = "fan" => PropFan(t)
           /\ pr[t].pc = "complete" => PropComplete(t)
           /\ pr[t].pc = "anchor" => PropAnchor(t)
           /\ pr[t].pc = "home" => PropHome(t)
           /\ pr[t].pc = "iterate" => PropIterate(t)
           /\ pr[t].pc = "resetStatus" => PropResetStatus(t)
           /\ pr[t].pc = "resetLock" => PropResetLock(t)
           /\ pr[t].pc = "refire" => PropRefire(t)
           /\ pr[t].pc = "close" => PropClose(t)
           /\ pr[t].pc = "scan" => PropScan(t)
           /\ pr[t].pc = "finish" => PropFinish(t)
           /\ pr[t].pc = "count" => PropCount(t)
           /\ pr[t].pc = "retryIdle" => PropRetryIdle(t)
           /\ pr[t].pc = "unlock" => PropUnlock(t)
           /\ pr[t].pc = "retryEval" => PropRetryEval(t)
           /\ pr[t].pc = "fail" => PropFail(t)
<1>1. /\ PropCheck(t) => pr[t].pc = "check"
      /\ PropFan(t) => pr[t].pc = "fan"
      /\ PropComplete(t) => pr[t].pc = "complete"
      /\ PropAnchor(t) => pr[t].pc = "anchor"
      /\ PropHome(t) => pr[t].pc = "home"
      /\ PropIterate(t) => pr[t].pc = "iterate"
      /\ PropResetStatus(t) => pr[t].pc = "resetStatus"
      /\ PropResetLock(t) => pr[t].pc = "resetLock"
      /\ PropRefire(t) => pr[t].pc = "refire"
  BY DEF PropCheck, PropFan, PropComplete, PropAnchor, PropHome, PropIterate,
         PropResetStatus, PropResetLock, PropRefire
<1>2. /\ PropClose(t) => pr[t].pc = "close"
      /\ PropScan(t) => pr[t].pc = "scan"
      /\ PropFinish(t) => pr[t].pc = "finish"
      /\ PropCount(t) => pr[t].pc = "count"
      /\ PropRetryIdle(t) => pr[t].pc = "retryIdle"
      /\ PropUnlock(t) => pr[t].pc = "unlock"
      /\ PropRetryEval(t) => pr[t].pc = "retryEval"
      /\ PropFail(t) => pr[t].pc = "fail"
  BY DEF PropClose, PropScan, PropFinish, PropCount, PropRetryIdle, PropUnlock,
         PropRetryEval, PropFail
<1> QED BY <1>1, <1>2 DEF PropStep

LEMMA AloneOn ==
    ASSUME TypeInv, NEW c, NEW t \in PropTasks, Alone(c, t),
           UNCHANGED <<runStatus, iteration, cancel, abandoned, results, trigger>>,
           NEW x, PropTo(t, x), x.pc # "idle"
    PROVE  Alone(c, t)' /\ pr'[t] = x
<1>1. pr'[t] = x /\ \A u \in PropTasks : u # t => pr'[u] = pr[u]
    BY PropToOthers DEF TypeInv
<1> QED BY <1>1 DEF Alone, Going, NoResults

\* The propagator has done its part, and evaluators carry on with q.
LEMMA AloneDone ==
    ASSUME TypeInv, NEW c, NEW first, NEW rank, NEW q \in Rules, NEW t \in PropTasks,
           Alone(c, t), UNCHANGED <<runStatus, iteration, cancel, abandoned, results, trigger>>,
           PropAck(t), Reached(q, rank)', Token(q)'
    PROVE  Carry(c, first, rank, q)'
<1>1. PropTo(t, PropIdle)
    BY DEF PropTo, PropAck
<1>2. \A u \in PropTasks : pr'[u].pc = "idle"
    BY <1>1, IdleLocals, PropToOthers DEF TypeInv, Alone
<1>3. Going(c)' /\ NoResults' /\ runStatus' = "Running" /\ trigger'.pc = "done"
    BY DEF Alone, Going, NoResults
<1>4. \A x \in Rules, o \in Outcomes : results'[<<x, o>>] = 0
    BY <1>3 DEF NoResults
<1>5. results'[<<q, "success">>] + results'[<<q, "error">>] <= 1
  <2>1. results'[<<q, "success">>] = 0 /\ results'[<<q, "error">>] = 0
      BY <1>4 DEF Outcomes
  <2> QED BY <2>1
<1>6. ASSUME NEW o \in Outcomes, results'[<<q, o>>] > 0 PROVE FALSE
  <2>1. results'[<<q, o>>] = 0
      BY <1>4
  <2> QED BY <1>6, <2>1
<1> QED BY <1>2, <1>3, <1>4, <1>5, <1>6 DEF Carry

LEMMA SilentToken ==
    ASSUME NEW q \in Rules, Silent'
    PROVE  Token(q)'
BY DEF Silent, Token, Looks

\* One check of q is published.
LEMMA WakeToken ==
    ASSUME TypeInv, Silent, NEW q \in Rules, PublishEvals({q}), UNCHANGED <<requests, ev>>
    PROVE  /\ Token(q)'
           /\ \A x \in Rules \ {q} : evals'[x] = 0
           /\ \A u \in EvalTasks : ev'[u].pc # "idle" => ev'[u].rule = q
<1>1. \A x \in Rules : evals'[x] = IF x = q THEN 1 ELSE 0
    BY DEF Silent, PublishEvals
<1>2. \A x \in Rules : requests'[x] = 0
    BY DEF Silent
<1>3. \A u \in EvalTasks : ev'[u].pc = "idle"
    BY DEF Silent
<1> QED BY <1>1, <1>2, <1>3 DEF Token, Looks

LEMMA SilentKept ==
    ASSUME Silent, UNCHANGED <<evals, requests, ev>>
    PROVE  Silent'
BY DEF Silent

\* The status of q goes back to Idle, or nothing is written.
LEMMA ReachedKept ==
    ASSUME TypeInv, NEW rank \in [Rules -> Nat], NEW q \in Rules, Reached(q, rank),
           UNCHANGED status \/ status' = [status EXCEPT ![q] = "Idle"]
    PROVE  Reached(q, rank)'
<1>1. status \in [Rules -> {"Idle", "Dispatched", "Completed", "Failed"}]
    BY DEF TypeInv, RedisOK
<1> QED BY <1>1 DEF Reached

-----------------------------------------------------------------------------
LEMMA JudgeOn ==
    ASSUME TypeInv, NEW c, NEW rank \in [Rules -> Nat], NEW q \in Rules, NEW t \in PropTasks,
           Judge(c, rank, t, q),
           UNCHANGED <<runStatus, iteration, cancel, abandoned, results, trigger,
                       evals, requests, ev>>,
           UNCHANGED status \/ status' = [status EXCEPT ![q] = "Idle"],
           NEW x, PropTo(t, x), x.rule = q,
           x.pc \in {"check", "count", "retryIdle", "unlock", "retryEval", "fail"}
    PROVE  Judge(c, rank, t, q)'
<1>1. Alone(c, t)' /\ pr'[t] = x
    BY AloneOn DEF Judge
<1>2. Silent' /\ Reached(q, rank)'
    BY SilentKept, ReachedKept DEF Judge
<1> QED BY <1>1, <1>2 DEF Judge

LEMMA JudgeCheck ==
    ASSUME TypeInv, NEW c, NEW first \in Rules, NEW rank \in [Rules -> Nat],
           OneThread(c, first, rank), NEW q \in Rules, NEW t \in PropTasks,
           Judge(c, rank, t, q), PropCheck(t)
    PROVE  Carry(c, first, rank, q)' \/ Judge(c, rank, t, q)' \/ Turn(c, t)'
<1> USE DEF TypeInv
<1>1. UNCHANGED <<runStatus, status, iteration, cancel, abandoned, results, trigger,
                  evals, requests, ev>>
    BY DEF PropCheck, redis, queues
<1>2. pr[t].rule = q /\ Silent' /\ Reached(q, rank)' /\ Alone(c, t)
    BY <1>1, SilentKept, ReachedKept DEF Judge
<1>3. CASE PropAck(t)
    BY <1>1, <1>2, <1>3, AloneDone, SilentToken
<1>4. CASE PropGoto(t, "count")
  <2>1. PICK x : PropTo(t, x) /\ x.pc = "count" /\ x.rule = q
      BY <1>2, <1>4, PropGotoTo
  <2> QED BY <1>1, <2>1, JudgeOn
<1> DEFINE x == [pr[t] EXCEPT !.todo = Route[q],
                              !.pc = IF Route[q] = {} THEN "complete" ELSE "fan"]
<1>5. CASE PropTo(t, x)
  <2>1. x.todo = Route[q] /\ x.rule = q /\ x.pc = IF Route[q] = {} THEN "complete" ELSE "fan"
      BY <1>2 DEF PrWell, PropLocal
  <2> HIDE DEF x
  <2>2. Alone(c, t)' /\ pr'[t] = x
      BY <1>1, <1>2, <1>5, <2>1, AloneOn
  <2>3. Route[q] # {}
    <3>1. CASE Homing(q)
        BY <3>1 DEF Homing, HomeTargets
    <3>2. CASE ~Homing(q)
        BY <3>2 DEF OneThread
    <3> QED BY <3>1, <3>2
  <2>4. CASE Homing(q)
      BY <1>2, <2>1, <2>2, <2>3, <2>4 DEF Turn
  <2>5. CASE ~Homing(q)
    <3>1. \E p \in Route[q] : Affected(p) # {}
        BY <2>5 DEF OneThread
    <3> QED BY <1>2, <2>1, <2>2, <2>3, <2>5, <3>1 DEF Judge
  <2> QED BY <2>4, <2>5
<1> QED BY <1>2, <1>3, <1>4, <1>5 DEF PropCheck, PropTo

\* One target of the fan-out.
FanOut(t, p) ==
    /\ pr[t].pc = "fan"
    /\ filled' = filled \cup {p}
    /\ PublishEvals(Affected(p))
    /\ pr' = [pr EXCEPT ![t].todo = @ \ {p},
                        ![t].pc = IF pr[t].todo \ {p} = {} THEN "complete" ELSE "fan"]
    /\ UNCHANGED <<runStatus, snapshot, status, lock, attempts, anchored, iteration,
                   requests, results, trigger, cancel, ev, bounds, history>>

LEMMA FanTarget ==
    ASSUME NEW t \in PropTasks, PropFan(t)
    PROVE  \E p \in pr[t].todo : FanOut(t, p)
BY DEF PropFan, FanOut

\* The next rule is woken, or the targets before it are written.
LEMMA JudgeFan ==
    ASSUME TypeInv, NEW c, NEW first \in Rules, NEW rank \in [Rules -> Nat],
           OneThread(c, first, rank), NEW q \in Rules, NEW t \in PropTasks,
           Judge(c, rank, t, q), NEW p \in pr[t].todo, FanOut(t, p)
    PROVE  \/ Affected(p) = {} /\ Judge(c, rank, t, q)'
           \/ \E z \in Rules : Affected(p) = {z} /\ Finishing(c, rank, t, z)'
<1> USE DEF TypeInv
<1>1. /\ pr[t].pc = "fan" /\ pr[t].rule = q /\ ~Homing(q) /\ pr[t].todo \subseteq Route[q]
      /\ Alone(c, t) /\ Silent /\ Reached(q, rank)
    BY DEF FanOut, Judge
<1>2. PICK w \in pr[t].todo : Affected(w) # {}
    BY <1>1 DEF Judge
<1>3. PICK z \in Rules : /\ Affected(w) = {z} /\ rank[q] < rank[z]
                         /\ \A d \in Route[q] \ {w} : Affected(d) = {}
    BY <1>1, <1>2 DEF OneThread
<1>4. UNCHANGED <<runStatus, status, iteration, cancel, abandoned, results, trigger,
                  requests, ev>>
    BY DEF FanOut, history
<1>5.        /\ PublishEvals(Affected(p))
        /\ pr' = [pr EXCEPT ![t].todo = pr[t].todo \ {p},
                            ![t].pc = IF pr[t].todo \ {p} = {} THEN "complete" ELSE "fan"]
    BY DEF FanOut
<1> DEFINE x == [pr[t] EXCEPT !.todo = pr[t].todo \ {p},
                              !.pc = IF pr[t].todo \ {p} = {} THEN "complete" ELSE "fan"]
<1>6. PropTo(t, x)
    BY <1>5 DEF PropTo
<1>7. /\ x.todo = pr[t].todo \ {p} /\ x.rule = q
      /\ x.pc = IF pr[t].todo \ {p} = {} THEN "complete" ELSE "fan"
    BY <1>1 DEF PrWell, PropLocal
<1> HIDE DEF x
<1>8. Alone(c, t)' /\ pr'[t] = x
    BY <1>1, <1>4, <1>6, <1>7, AloneOn
<1>9. CASE p = w
  <2>1. PublishEvals({z})
      BY <1>3, <1>5, <1>9
  <2>2. /\ Token(z)'
        /\ \A y \in Rules \ {z} : evals'[y] = 0
        /\ \A u \in EvalTasks : ev'[u].pc # "idle" => ev'[u].rule = z
      BY <1>1, <1>4, <2>1, WakeToken
  <2>3. Reached(z, rank)'
    <3>1. status[z] = "Idle"
        BY <1>1, <1>3 DEF Reached
    <3>2. ASSUME NEW y \in Rules, rank[z] < rank[y] PROVE status[y] = "Idle"
      <4>1. rank[q] \in Nat /\ rank[z] \in Nat /\ rank[y] \in Nat
          OBVIOUS
      <4>2. rank[q] < rank[y]
          BY <1>3, <3>2, <4>1
      <4> QED BY <1>1, <4>2 DEF Reached
    <3> QED BY <1>4, <3>1, <3>2 DEF Reached
  <2>4. x.todo \subseteq Route[q] /\ \A d \in x.todo : Affected(d) = {}
      BY <1>1, <1>3, <1>7, <1>9
  <2>5. Finishing(c, rank, t, z)'
      BY <1>1, <1>3, <1>7, <1>8, <2>2, <2>3, <2>4 DEF Finishing
  <2> QED BY <1>3, <1>9, <2>5
<1>10. CASE p # w
  <2>1. PublishEvals({})
      BY <1>1, <1>3, <1>5, <1>10
  <2>2. UNCHANGED evals
    <3>1. evals \in [Rules -> Nat]
        BY DEF QueuesOK
    <3>2. evals' = [r \in Rules |-> evals[r]]
        BY <2>1 DEF PublishEvals
    <3> QED BY <3>1, <3>2
  <2>3. Silent' /\ Reached(q, rank)'
      BY <1>1, <1>4, <2>2, SilentKept, ReachedKept
  <2>4. w \in x.todo /\ x.todo \subseteq Route[q] /\ x.pc = "fan"
      BY <1>1, <1>7, <1>10
  <2>5. Judge(c, rank, t, q)'
      BY <1>1, <1>2, <1>7, <1>8, <2>3, <2>4 DEF Judge
  <2>6. Affected(p) = {}
      BY <1>1, <1>3, <1>10
  <2> QED BY <2>5, <2>6
<1> QED BY <1>9, <1>10

LEMMA JudgeProp ==
    ASSUME TypeInv, NEW c, NEW first \in Rules, NEW rank \in [Rules -> Nat],
           OneThread(c, first, rank), NEW q \in Rules, NEW t \in PropTasks,
           Judge(c, rank, t, q), PropStep(t)
    PROVE  Thread(c, first, rank)'
<1> USE DEF TypeInv
<1>1. /\ pr[t].rule = q /\ Alone(c, t) /\ Silent /\ Reached(q, rank)
      /\ pr[t].pc \in {"check", "fan", "count", "retryIdle", "unlock", "retryEval", "fail"}
    BY DEF Judge
<1>2. UNCHANGED <<requests, results, trigger, cancel, ev>>
    BY PropLeavesAlone
<1>3. ASSUME NEW pc \in {"count", "retryIdle", "unlock", "retryEval", "fail"}, PropGoto(t, pc),
             UNCHANGED <<runStatus, iteration, abandoned, evals>>,
             UNCHANGED status \/ status' = [status EXCEPT ![q] = "Idle"]
      PROVE  Thread(c, first, rank)'
  <2>1. PICK x : PropTo(t, x) /\ x.pc = pc /\ x.rule = q
      BY <1>1, <1>3, PropGotoTo
  <2>2. x.pc \in {"check", "count", "retryIdle", "unlock", "retryEval", "fail"}
      BY <2>1
  <2> QED BY <1>2, <1>3, <2>1, <2>2, JudgeOn DEF Thread
<1>4. CASE pr[t].pc = "check"
    BY <1>4, JudgeCheck, PropStepAt DEF Thread
<1>5. CASE pr[t].pc = "fan"
  <2>1. PICK p \in pr[t].todo : FanOut(t, p)
      BY <1>5, FanTarget, PropStepAt
  <2> QED BY <2>1, JudgeFan DEF Thread
<1>6. CASE pr[t].pc = "count"
  <2>1. PropCount(t)
      BY <1>6, PropStepAt
  <2>2. PropGoto(t, "retryIdle") \/ PropGoto(t, "fail")
      BY <2>1 DEF PropCount
  <2>3. UNCHANGED <<runStatus, iteration, abandoned, evals, status>>
      BY <2>1 DEF PropCount, queues, history
  <2> QED BY <1>3, <2>2, <2>3
<1>7. CASE pr[t].pc = "retryIdle"
  <2>1. PropRetryIdle(t)
      BY <1>7, PropStepAt
  <2>2. PropGoto(t, "unlock") /\ UNCHANGED <<runStatus, iteration, abandoned, evals>>
        /\ status' = [status EXCEPT ![q] = "Idle"]
      BY <1>1, <2>1 DEF PropRetryIdle, queues, history
  <2> QED BY <1>3, <2>2
<1>8. CASE pr[t].pc = "unlock"
  <2>1. PropUnlock(t)
      BY <1>8, PropStepAt
  <2>2. PropGoto(t, "retryEval") /\ UNCHANGED <<runStatus, iteration, abandoned, evals, status>>
      BY <1>1, <2>1 DEF PropUnlock, queues, history
  <2> QED BY <1>3, <2>2
<1>9. CASE pr[t].pc = "retryEval"
  <2>1. PropRetryEval(t)
      BY <1>9, PropStepAt
  <2>2. /\ PropAck(t) /\ PublishEvals({q})
        /\ UNCHANGED <<runStatus, status, iteration, abandoned>>
      BY <1>1, <2>1 DEF PropRetryEval, redis, history
  <2>3. Token(q)' /\ Reached(q, rank)'
      BY <1>1, <1>2, <2>2, WakeToken, ReachedKept
  <2> QED BY <1>1, <1>2, <2>2, <2>3, AloneDone DEF Thread
<1>10. CASE pr[t].pc = "fail"
  <2>1. PropFail(t)
      BY <1>10, PropStepAt
  <2>2. /\ PropGoto(t, "close") /\ abandoned' = abandoned \cup {q}
        /\ UNCHANGED <<runStatus, iteration, evals>>
      BY <1>1, <2>1 DEF PropFail, queues
  <2>3. PICK x : PropTo(t, x) /\ x.pc = "close"
      BY <2>2, PropGotoTo
  <2>4. \A u \in PropTasks : pr'[u].pc \in {"idle", "close", "scan", "finish"}
      BY <1>1, <2>3, PropToOthers DEF Alone
  <2>5. Silent' /\ NoResults'
      BY <1>1, <1>2, <2>2, SilentKept DEF Alone, NoResults
  <2>6. MaxIterations[c] # 0 => iteration'[c] <= MaxIterations[c]
    <3>1. c \in Rules
        BY TopologyAssumption DEF OneThread
    <3>2. iteration[c] \in Nat /\ MaxIterations[c] \in Nat
        BY <3>1, TopologyAssumption DEF RedisOK
    <3>3. MaxIterations[c] # 0 => iteration[c] < MaxIterations[c]
        BY <1>1 DEF Alone, Going
    <3> QED BY <2>2, <3>2, <3>3
  <2>7. LoopOver(c)'
      BY <1>1, <1>2, <2>2, <2>4, <2>5, <2>6 DEF LoopOver, Alone, Going
  <2> QED BY <2>7 DEF Thread
<1> QED BY <1>1, <1>4, <1>5, <1>6, <1>7, <1>8, <1>9, <1>10

-----------------------------------------------------------------------------
LEMMA FinishingEval ==
    ASSUME TypeInv, NEW c, NEW rank \in [Rules -> Nat], NEW q \in Rules, NEW t \in PropTasks,
           Finishing(c, rank, t, q), NEW v \in EvalTasks, EvalTake(v) \/ EvalStep(v)
    PROVE  Finishing(c, rank, t, q)'
<1>1. UNCHANGED <<runStatus, filled, iteration, results, trigger, cancel, pr, abandoned>>
    BY EvalLeavesAlone
<1>2. Token(q)' /\ Reached(q, rank)'
    BY TokenEval, ReachedEval DEF Finishing
<1>3. Alone(c, t)'
    BY <1>1 DEF Finishing, Alone, Going, NoResults
<1>4. EvWell /\ evals \in [Rules -> Nat]
    BY DEF TypeInv, QueuesOK
<1>5. ASSUME NEW r \in Rules, EvalReceive(v, r)
      PROVE  /\ \A x \in Rules \ {q} : evals'[x] = 0
             /\ \A u \in EvalTasks : ev'[u].pc # "idle" => ev'[u].rule = q
  <2>1. /\ evals[r] > 0 /\ evals' = [evals EXCEPT ![r] = @ - 1]
        /\ UNCHANGED ev \/ \E x : EvalTo(v, x) /\ x.pc = "status" /\ x.rule = r
      BY <1>4, <1>5, EvalTakes
  <2>2. r = q
      BY <2>1 DEF Finishing
  <2>3. UNCHANGED ev \/ (/\ ev'[v].rule = r /\ \A u \in EvalTasks : u # v => ev'[u] = ev[u])
      BY <1>4, <2>1, EvalToOthers
  <2> QED BY <1>4, <2>1, <2>2, <2>3 DEF Finishing
<1>6. ASSUME EvalStep(v)
      PROVE  /\ \A x \in Rules \ {q} : evals'[x] = 0
             /\ \A u \in EvalTasks : ev'[u].pc # "idle" => ev'[u].rule = q
  <2>1. PICK x : EvalAdvances(v, x)
      BY <1>4, <1>6, EvalAdvance
  <2>2. ev'[v] = x /\ \A u \in EvalTasks : u # v => ev'[u] = ev[u]
      BY <1>4, <2>1, EvalToOthers DEF EvalAdvances
  <2>3. ev[v].pc # "idle" /\ (x.pc # "idle" => x.rule = ev[v].rule) /\ UNCHANGED evals
      BY <1>6, <2>1, EvalWrites DEF EvalAdvances
  <2> QED BY <2>2, <2>3 DEF Finishing
<1> QED BY <1>1, <1>2, <1>3, <1>5, <1>6 DEF Finishing, EvalTake

LEMMA TokenKept ==
    ASSUME NEW q \in Rules, Token(q), UNCHANGED <<evals, requests, ev>>,
           \A x \in Rules \ {q} : evals[x] = 0,
           \A u \in EvalTasks : ev[u].pc # "idle" => ev[u].rule = q
    PROVE  Token(q)'
BY DEF Token, Looks

\* The propagator goes on with the rule that it has.
LEMMA FinishingOn ==
    ASSUME TypeInv, NEW c, NEW rank \in [Rules -> Nat], NEW q \in Rules, NEW t \in PropTasks,
           Finishing(c, rank, t, q),
           UNCHANGED <<runStatus, iteration, cancel, abandoned, results, trigger,
                       evals, requests, ev>>,
           Reached(q, rank)',
           NEW x, PropTo(t, x), x.rule = pr[t].rule,
           x.pc \in {"complete", "anchor", "home", "close"},
           x.pc = "complete" => pr[t].pc = "fan",
           x.pc \in {"anchor", "home"} => pr[t].pc \in {"complete", "anchor"},
           x.pc = "home" => x.rule \notin Controllers
    PROVE  Finishing(c, rank, t, q)'
<1>1. Alone(c, t)' /\ pr'[t] = x
    BY AloneOn DEF Finishing
<1>2. Token(q)'
    BY TokenKept DEF Finishing
<1> QED BY <1>1, <1>2 DEF Finishing

LEMMA FinishingFan ==
    ASSUME TypeInv, NEW c, NEW rank \in [Rules -> Nat], NEW q \in Rules, NEW t \in PropTasks,
           Finishing(c, rank, t, q), PropFan(t)
    PROVE  Finishing(c, rank, t, q)'
<1> USE DEF TypeInv
<1>1. /\ pr[t].pc = "fan" /\ Alone(c, t) /\ Reached(q, rank) /\ Token(q)
      /\ pr[t].todo \subseteq Route[pr[t].rule] /\ \A p \in pr[t].todo : Affected(p) = {}
      /\ rank[pr[t].rule] < rank[q] /\ ~Homing(pr[t].rule)
    BY DEF PropFan, Finishing
<1>2. UNCHANGED <<runStatus, status, iteration, cancel, abandoned, results, trigger,
                  requests, ev>>
    BY DEF PropFan, history
<1>3. PICK p \in pr[t].todo :
        /\ PublishEvals(Affected(p))
        /\ pr' = [pr EXCEPT ![t].todo = pr[t].todo \ {p},
                            ![t].pc = IF pr[t].todo \ {p} = {} THEN "complete" ELSE "fan"]
    BY DEF PropFan
<1> DEFINE x == [pr[t] EXCEPT !.todo = pr[t].todo \ {p},
                              !.pc = IF pr[t].todo \ {p} = {} THEN "complete" ELSE "fan"]
<1>4. PropTo(t, x)
    BY <1>3 DEF PropTo
<1>5. /\ x.todo \subseteq pr[t].todo /\ x.rule = pr[t].rule
      /\ x.pc \in {"complete", "fan"}
    BY <1>1 DEF PrWell, PropLocal
<1> HIDE DEF x
<1>6. Alone(c, t)' /\ pr'[t] = x
    BY <1>1, <1>2, <1>4, <1>5, AloneOn
<1>7. UNCHANGED evals
  <2>1. evals \in [Rules -> Nat]
      BY DEF QueuesOK
  <2>2. evals' = [r \in Rules |-> evals[r]]
      BY <1>1, <1>3 DEF PublishEvals
  <2> QED BY <2>1, <2>2
<1>8. Token(q)' /\ Reached(q, rank)'
    BY <1>1, <1>2, <1>7, TokenKept, ReachedKept DEF Finishing
<1> QED BY <1>1, <1>2, <1>5, <1>6, <1>7, <1>8 DEF Finishing

\* The completion check sees that q is not settled.
LEMMA FinishingScan ==
    ASSUME TypeInv, NEW c, NEW first \in Rules, NEW rank \in [Rules -> Nat],
           OneThread(c, first, rank), NEW q \in Rules, NEW t \in PropTasks,
           Finishing(c, rank, t, q), PropScan(t)
    PROVE  Finishing(c, rank, t, q)' \/ Carry(c, first, rank, q)'
<1> USE DEF TypeInv
<1>1. /\ pr[t].pc = "scan" /\ Alone(c, t) /\ Reached(q, rank) /\ Token(q)
      /\ q \in pr[t].scan \/ ~pr[t].settled
    BY DEF PropScan, Finishing
<1>2. UNCHANGED <<runStatus, status, iteration, cancel, abandoned, results, trigger,
                  evals, requests, ev>>
    BY DEF PropScan, redis, queues, history
<1>3. Token(q)' /\ Reached(q, rank)'
    BY <1>1, <1>2, TokenKept, ReachedKept DEF Finishing
<1>4. PICK d \in pr[t].scan :
        LET done == status[d] \in {"Completed", "Failed"}
            looping == status[d] = "Idle" /\ d \in Controllers /\ iteration[d] > 0
            v == [pr[t] EXCEPT !.scan = @ \ {d},
                               !.termsDone = @ /\ (d \in Terminal => done),
                               !.running = @ \/ status[d] = "Dispatched" \/ looping,
                               !.settled = @ /\ done]
        IN  pr' = [pr EXCEPT ![t] =
                     IF v.scan # {} THEN v
                     ELSE IF Finished(v) THEN [v EXCEPT !.pc = "finish"]
                     ELSE PropIdle]
    BY DEF PropScan
<1> DEFINE done == status[d] \in {"Completed", "Failed"}
           looping == status[d] = "Idle" /\ d \in Controllers /\ iteration[d] > 0
           v == [pr[t] EXCEPT !.scan = @ \ {d},
                              !.termsDone = @ /\ (d \in Terminal => done),
                              !.running = @ \/ status[d] = "Dispatched" \/ looping,
                              !.settled = @ /\ done]
<1>5. /\ v.scan = pr[t].scan \ {d} /\ v.pc = "scan" /\ v.rule = pr[t].rule
      /\ v.settled <=> pr[t].settled /\ done
    BY <1>1 DEF PrWell, PropLocal
<1>6. d = q => ~done
    BY <1>1 DEF Reached
<1>7. q \in v.scan \/ ~v.settled
    BY <1>1, <1>5, <1>6
<1>8. pr' = [pr EXCEPT ![t] = IF v.scan # {} THEN v
                              ELSE IF Finished(v) THEN [v EXCEPT !.pc = "finish"]
                              ELSE PropIdle]
    BY <1>4
<1> HIDE DEF v
<1>9. CASE v.scan # {}
  <2>1. PropTo(t, v)
      BY <1>8, <1>9 DEF PropTo
  <2>2. Alone(c, t)' /\ pr'[t] = v
      BY <1>1, <1>2, <1>5, <2>1, AloneOn
  <2>3. Finishing(c, rank, t, q)'
      BY <1>2, <1>3, <1>5, <1>7, <2>2 DEF Finishing
  <2> QED BY <2>3
<1>10. CASE v.scan = {}
  <2>1. ~Finished(v)
      BY <1>7, <1>10 DEF Finished, OneThread
  <2>2. PropAck(t)
      BY <1>8, <1>10, <2>1 DEF PropAck
  <2> QED BY <1>1, <1>2, <1>3, <2>2, AloneDone
<1> QED BY <1>9, <1>10

LEMMA FinishingProp ==
    ASSUME TypeInv, NEW c, NEW first \in Rules, NEW rank \in [Rules -> Nat],
           OneThread(c, first, rank), NEW q \in Rules, NEW t \in PropTasks,
           Finishing(c, rank, t, q), PropStep(t)
    PROVE  Finishing(c, rank, t, q)' \/ Carry(c, first, rank, q)'
<1> USE DEF TypeInv
<1>1. /\ Alone(c, t) /\ Reached(q, rank)
      /\ pr[t].pc \in {"fan", "complete", "anchor", "home", "close", "scan"}
    BY DEF Finishing
<1>2. UNCHANGED <<requests, results, trigger, cancel, ev>>
    BY PropLeavesAlone
<1>3. ASSUME NEW pc \in {"anchor", "home", "close"}, PropGoto(t, pc),
             UNCHANGED <<runStatus, iteration, abandoned, evals>>, Reached(q, rank)',
             pc \in {"anchor", "home"} => pr[t].pc \in {"complete", "anchor"},
             pc = "home" => pr[t].rule \notin Controllers
      PROVE  Finishing(c, rank, t, q)' \/ Carry(c, first, rank, q)'
  <2>1. PICK x : PropTo(t, x) /\ x.pc = pc /\ x.rule = pr[t].rule
      BY <1>3, PropGotoTo
  <2>2. Finishing(c, rank, t, q)'
      BY <1>2, <1>3, <2>1, FinishingOn
  <2> QED BY <2>2
<1>4. CASE pr[t].pc = "fan"
    BY <1>4, FinishingFan, PropStepAt
<1>5. CASE pr[t].pc = "complete"
  <2>1. PropComplete(t)
      BY <1>5, PropStepAt
  <2>2. /\ UNCHANGED <<runStatus, iteration, abandoned, evals>>
        /\ status' = [status EXCEPT ![pr[t].rule] = "Completed"]
        /\ \/ PropGoto(t, "anchor")
           \/ PropGoto(t, "close")
           \/ PropGoto(t, "home") /\ pr[t].rule \notin Controllers
      BY <2>1 DEF PropComplete, AfterAnchor, queues, history
  <2>3. Reached(q, rank)'
    <3>1. pr[t].rule \in Rules /\ rank[pr[t].rule] < rank[q]
        BY <1>5, PropBusy DEF Finishing
    <3>2. \A y \in Rules : y = q \/ rank[q] < rank[y] => y # pr[t].rule
        BY <3>1
    <3>3. status \in [Rules -> {"Idle", "Dispatched", "Completed", "Failed"}]
        BY DEF RedisOK
    <3> QED BY <1>1, <2>2, <3>2, <3>3 DEF Reached
  <2> QED BY <1>3, <1>5, <2>2, <2>3
<1>6. CASE pr[t].pc = "anchor"
  <2>1. PropAnchor(t)
      BY <1>6, PropStepAt
  <2>2. /\ UNCHANGED <<runStatus, iteration, abandoned, evals, status>>
        /\ \/ PropGoto(t, "close")
           \/ PropGoto(t, "home") /\ pr[t].rule \notin Controllers
      BY <2>1 DEF PropAnchor, AfterAnchor, queues, history
  <2>3. Reached(q, rank)'
      BY <1>1, <2>2, ReachedKept
  <2> QED BY <1>3, <1>6, <2>2, <2>3
<1>7. CASE pr[t].pc = "home"
  <2>1. PropHome(t)
      BY <1>7, PropStepAt
  <2>2. HomeTargets(pr[t].rule) = {}
      BY <1>7 DEF Finishing, Homing
  <2>3. UNCHANGED <<runStatus, iteration, abandoned, evals, status>> /\ PropGoto(t, "close")
      BY <2>1, <2>2 DEF PropHome, redis, queues, history
  <2>4. Reached(q, rank)'
      BY <1>1, <2>3, ReachedKept
  <2> QED BY <1>3, <2>3, <2>4
<1>8. CASE pr[t].pc = "close"
  <2>1. PropClose(t)
      BY <1>8, PropStepAt
  <2>2. UNCHANGED <<runStatus, iteration, abandoned, evals, status>>
      BY <2>1 DEF PropClose, redis, queues, history
  <2> DEFINE x == [pr[t] EXCEPT !.scan = Rules, !.pc = "scan"]
  <2>3. PropTo(t, x)
      BY <1>1, <2>1 DEF PropClose, Alone, PropTo
  <2>4. x.pc = "scan" /\ x.scan = Rules
      BY DEF PrWell, PropLocal
  <2> HIDE DEF x
  <2>5. Alone(c, t)' /\ pr'[t] = x
      BY <1>1, <1>2, <2>2, <2>3, <2>4, AloneOn
  <2>6. Token(q)' /\ Reached(q, rank)'
      BY <1>1, <1>2, <2>2, TokenKept, ReachedKept DEF Finishing
  <2>7. Finishing(c, rank, t, q)'
      BY <1>2, <2>2, <2>4, <2>5, <2>6 DEF Finishing
  <2> QED BY <2>7
<1>9. CASE pr[t].pc = "scan"
    BY <1>9, FinishingScan, PropStepAt
<1> QED BY <1>1, <1>4, <1>5, <1>6, <1>7, <1>8, <1>9

-----------------------------------------------------------------------------
\* The home run is on its way to the controller.
LEMMA TurnOn ==
    ASSUME TypeInv, NEW c, NEW t \in PropTasks, Turn(c, t),
           UNCHANGED <<runStatus, iteration, cancel, abandoned, results, trigger,
                       evals, requests, ev>>,
           NEW x, PropTo(t, x), x.rule = pr[t].rule, Homing(x.rule),
           x.pc \in {"fan", "complete", "anchor", "home", "iterate"},
           x.pc = "fan" => x.todo \subseteq Route[x.rule],
           x.pc = "iterate" => x.todo \subseteq HomeTargets(x.rule)
    PROVE  Turn(c, t)'
<1>1. Alone(c, t)' /\ pr'[t] = x
    BY AloneOn DEF Turn
<1>2. Silent'
    BY SilentKept DEF Turn
<1> QED BY <1>1, <1>2 DEF Turn

LEMMA TurnHome ==
    ASSUME TypeInv, NEW c, NEW first \in Rules, NEW rank \in [Rules -> Nat],
           OneThread(c, first, rank), NEW t \in PropTasks, Turn(c, t),
           pr[t].pc \in {"fan", "complete", "anchor", "home"}, PropStep(t)
    PROVE  Turn(c, t)'
<1> USE DEF TypeInv
<1>1. /\ Homing(pr[t].rule) /\ Alone(c, t) /\ Silent /\ pr[t].rule \in Rules
      /\ pr[t].rule \notin Controllers
    BY PropBusy DEF Turn, Homing, Alone
<1>2. UNCHANGED <<requests, results, trigger, cancel, ev>>
    BY PropLeavesAlone
<1>3. ASSUME NEW pc \in {"anchor", "home"}, PropGoto(t, pc),
             UNCHANGED <<runStatus, iteration, abandoned, evals>>
      PROVE  Turn(c, t)'
  <2>1. PICK x : PropTo(t, x) /\ x.pc = pc /\ x.rule = pr[t].rule
      BY <1>3, PropGotoTo
  <2> QED BY <1>1, <1>2, <1>3, <2>1, TurnOn
<1>4. CASE pr[t].pc = "fan"
  <2>1. PropFan(t)
      BY <1>4, PropStepAt
  <2>2. PICK p \in pr[t].todo :
          /\ PublishEvals(Affected(p))
          /\ pr' = [pr EXCEPT ![t].todo = pr[t].todo \ {p},
                              ![t].pc = IF pr[t].todo \ {p} = {} THEN "complete" ELSE "fan"]
      BY <2>1 DEF PropFan
  <2> DEFINE x == [pr[t] EXCEPT !.todo = pr[t].todo \ {p},
                                !.pc = IF pr[t].todo \ {p} = {} THEN "complete" ELSE "fan"]
  <2>3. PropTo(t, x)
      BY <2>2 DEF PropTo
  <2>4. /\ x.todo \subseteq pr[t].todo /\ x.rule = pr[t].rule
        /\ x.pc \in {"complete", "fan"}
      BY <1>1 DEF PrWell, PropLocal
  <2> HIDE DEF x
  <2>5. pr[t].todo \subseteq Route[pr[t].rule]
      BY <1>4 DEF Turn
  <2>6. Affected(p) = {}
      BY <1>1, <2>5 DEF OneThread
  <2>7. UNCHANGED evals
    <3>1. evals \in [Rules -> Nat]
        BY DEF QueuesOK
    <3>2. evals' = [r \in Rules |-> evals[r]]
        BY <2>2, <2>6 DEF PublishEvals
    <3> QED BY <3>1, <3>2
  <2>8. UNCHANGED <<runStatus, iteration, abandoned>>
      BY <2>1 DEF PropFan, history
  <2>9. x.todo \subseteq Route[x.rule] /\ x.pc # "iterate" /\ Homing(x.rule)
        /\ x.pc \in {"fan", "complete", "anchor", "home", "iterate"}
      BY <1>1, <2>4, <2>5
  <2> QED BY <1>2, <2>3, <2>4, <2>7, <2>8, <2>9, TurnOn
<1>5. CASE pr[t].pc = "complete"
  <2>1. PropComplete(t)
      BY <1>5, PropStepAt
  <2>2. /\ UNCHANGED <<runStatus, iteration, abandoned, evals>>
        /\ PropGoto(t, "anchor") \/ PropGoto(t, "home")
      BY <1>1, <2>1 DEF PropComplete, AfterAnchor, queues, history
  <2> QED BY <1>3, <2>2
<1>6. CASE pr[t].pc = "anchor"
  <2>1. PropAnchor(t)
      BY <1>6, PropStepAt
  <2>2. UNCHANGED <<runStatus, iteration, abandoned, evals>> /\ PropGoto(t, "home")
      BY <1>1, <2>1 DEF PropAnchor, AfterAnchor, queues, history
  <2> QED BY <1>3, <2>2
<1>7. CASE pr[t].pc = "home"
  <2>1. PropHome(t)
      BY <1>7, PropStepAt
  <2> DEFINE x == [pr[t] EXCEPT !.todo = HomeTargets(pr[t].rule), !.pc = "iterate"]
  <2>2. PropTo(t, x)
      BY <1>1, <2>1 DEF PropHome, Homing, Alone, PropTo
  <2>3. x.pc = "iterate" /\ x.todo = HomeTargets(pr[t].rule) /\ x.rule = pr[t].rule
      BY DEF PrWell, PropLocal
  <2> HIDE DEF x
  <2>4. UNCHANGED <<runStatus, iteration, abandoned, evals>>
      BY <2>1 DEF PropHome, redis, queues, history
  <2> QED BY <1>1, <1>2, <2>2, <2>3, <2>4, TurnOn
<1> QED BY <1>4, <1>5, <1>6, <1>7

\* The iteration is counted, and either the loop is over or its rules are reset.
LEMMA TurnIterate ==
    ASSUME TypeInv, NEW c, NEW first \in Rules, NEW rank \in [Rules -> Nat],
           OneThread(c, first, rank), NEW t \in PropTasks, Turn(c, t), PropIterate(t)
    PROVE  Turn(c, t)' \/ LoopOver(c)'
<1> USE DEF TypeInv
<1>1. /\ pr[t].pc = "iterate" /\ Homing(pr[t].rule) /\ Alone(c, t) /\ Silent
      /\ pr[t].todo \subseteq HomeTargets(pr[t].rule) /\ pr[t].rule \in Rules
    BY PropBusy DEF PropIterate, Turn, Alone
<1>2. UNCHANGED <<runStatus, status, cancel, abandoned, results, trigger, evals, requests, ev>>
    BY DEF PropIterate, queues, history
<1>3. PICK p \in pr[t].todo : \E b \in ControllersOn(ProjOwner[p]) :
        LET rest == pr[t].todo \ {p}
            exit == MaxIterations[b] # 0 /\ iteration[b] + 1 >= MaxIterations[b]
        IN  /\ iteration' = [iteration EXCEPT ![b] = @ + 1]
            /\ pr' = IF exit
                     THEN [pr EXCEPT ![t].todo = rest, ![t].pc = NextTarget(rest)]
                     ELSE [pr EXCEPT ![t].todo = rest, ![t].ctrl = b,
                                     ![t].resets = {b} \cup LoopBody(b),
                                     ![t].pc = "resetStatus"]
    BY DEF PropIterate
<1>4. pr[t].todo \ {p} = {}
  <2>1. \A d, e \in HomeTargets(pr[t].rule) : d = e
      BY <1>1 DEF OneThread
  <2> QED BY <1>1, <2>1
<1>5. ControllersOn(ProjOwner[p]) \subseteq {c}
    BY DEF ControllersOn, OneThread
<1> DEFINE exit == MaxIterations[c] # 0 /\ iteration[c] + 1 >= MaxIterations[c]
           x == IF exit
                THEN [pr[t] EXCEPT !.todo = {}, !.pc = "close"]
                ELSE [pr[t] EXCEPT !.todo = {}, !.ctrl = c,
                                   !.resets = {c} \cup LoopBody(c), !.pc = "resetStatus"]
<1>6. iteration' = [iteration EXCEPT ![c] = @ + 1] /\ PropTo(t, x)
    BY <1>3, <1>4, <1>5 DEF PropTo, NextTarget
<1>7. c \in Rules /\ iteration[c] \in Nat /\ MaxIterations[c] \in Nat
      /\ iteration'[c] = iteration[c] + 1
  <2>1. c \in Rules
      BY TopologyAssumption DEF OneThread
  <2>2. iteration \in [Rules -> Nat] /\ MaxIterations \in [Rules -> Nat]
      BY TopologyAssumption DEF RedisOK
  <2> QED BY <1>6, <2>1, <2>2
<1>8. exit => x.pc = "close"
    BY DEF PrWell, PropLocal
<1>9. ~exit => /\ x.pc = "resetStatus" /\ x.todo = {} /\ x.ctrl = c
               /\ x.resets = {c} \cup LoopBody(c)
    BY DEF PrWell, PropLocal
<1> HIDE DEF x
<1>10. pr'[t] = x /\ \A u \in PropTasks : u # t => pr'[u] = pr[u]
    BY <1>6, PropToOthers
<1>11. Silent' /\ NoResults'
    BY <1>1, <1>2, SilentKept DEF Alone, NoResults
<1>12. CASE exit
  <2>1. MaxIterations[c] # 0 /\ iteration'[c] = MaxIterations[c]
      BY <1>1, <1>7, <1>12 DEF Alone, Going
  <2>2. \A u \in PropTasks : pr'[u].pc \in {"idle", "close", "scan", "finish"}
      BY <1>1, <1>8, <1>10, <1>12 DEF Alone
  <2> QED BY <1>1, <1>2, <1>11, <2>1, <2>2 DEF LoopOver, Alone, Going
<1>13. CASE ~exit
  <2>1. Going(c)'
    <3>1. MaxIterations[c] # 0 => iteration'[c] < MaxIterations[c]
        BY <1>7, <1>13
    <3> QED BY <1>1, <1>2, <3>1 DEF Alone, Going
  <2>2. Alone(c, t)'
      BY <1>1, <1>2, <1>9, <1>10, <1>11, <1>13, <2>1 DEF Alone
  <2> QED BY <1>9, <1>10, <1>11, <1>13, <2>2 DEF Turn
<1> QED BY <1>12, <1>13

\* The controller and the body are reset, and the controller is woken.
LEMMA TurnReset ==
    ASSUME TypeInv, NEW c, NEW first \in Rules, NEW rank \in [Rules -> Nat],
           OneThread(c, first, rank), NEW t \in PropTasks, Turn(c, t),
           pr[t].pc \in {"resetStatus", "resetLock", "refire"}, PropStep(t)
    PROVE  Turn(c, t)' \/ Finishing(c, rank, t, c)'
<1> USE DEF TypeInv
<1>1. /\ Alone(c, t) /\ Silent /\ pr[t].todo = {} /\ pr[t].ctrl = c
      /\ \A x \in ({c} \cup LoopBody(c)) \ pr[t].resets : status[x] = "Idle"
    BY DEF Turn
<1>2. UNCHANGED <<requests, results, trigger, cancel, ev>>
    BY PropLeavesAlone
<1>3. status \in [Rules -> {"Idle", "Dispatched", "Completed", "Failed"}]
      /\ c \in Rules /\ LoopBody(c) \subseteq Rules
    BY TopologyAssumption DEF RedisOK, OneThread, LoopBody
<1>4. CASE pr[t].pc = "resetStatus"
  <2>1. PropResetStatus(t)
      BY <1>4, PropStepAt
  <2>2. PICK d \in pr[t].resets :
          /\ status' = [status EXCEPT ![d] = "Idle"]
          /\ pr' = [pr EXCEPT ![t].cur = d, ![t].pc = "resetLock"]
      BY <2>1 DEF PropResetStatus
  <2> DEFINE x == [pr[t] EXCEPT !.cur = d, !.pc = "resetLock"]
  <2>3. PropTo(t, x)
      BY <2>2 DEF PropTo
  <2>4. x.pc = "resetLock" /\ x.cur = d /\ x.todo = {} /\ x.ctrl = c /\ x.resets = pr[t].resets
      BY <1>1 DEF PrWell, PropLocal
  <2> HIDE DEF x
  <2>5. UNCHANGED <<runStatus, iteration, abandoned, evals>>
      BY <2>1 DEF PropResetStatus, queues, history
  <2>6. Alone(c, t)' /\ pr'[t] = x /\ Silent'
      BY <1>1, <1>2, <2>3, <2>4, <2>5, AloneOn, SilentKept
  <2>7. d \in Rules /\ status'[d] = "Idle"
      BY <1>3, <2>2 DEF PrWell, PropLocal
  <2>8. \A y \in ({c} \cup LoopBody(c)) \ x.resets : status'[y] = "Idle"
      BY <1>1, <1>3, <2>2, <2>4, <2>7
  <2> QED BY <2>4, <2>6, <2>7, <2>8 DEF Turn
<1>5. CASE pr[t].pc = "resetLock"
  <2>1. PropResetLock(t)
      BY <1>5, PropStepAt
  <2> DEFINE rest == pr[t].resets \ {pr[t].cur}
             x == [pr[t] EXCEPT !.resets = rest, !.cur = NoRule,
                                !.pc = IF rest = {} THEN "refire" ELSE "resetStatus"]
  <2>2. PropTo(t, x)
      BY <2>1 DEF PropTo, PropResetLock
  <2>3. /\ x.todo = {} /\ x.ctrl = c /\ x.resets = pr[t].resets \ {pr[t].cur}
        /\ x.pc \in {"refire", "resetStatus"} /\ (x.pc = "refire" => x.resets = {})
      BY <1>1 DEF PrWell, PropLocal
  <2> HIDE DEF x
  <2>4. UNCHANGED <<runStatus, status, iteration, abandoned, evals>>
      BY <2>1 DEF PropResetLock, queues, history
  <2>5. Alone(c, t)' /\ pr'[t] = x /\ Silent'
      BY <1>1, <1>2, <2>2, <2>3, <2>4, AloneOn, SilentKept
  <2>6. status[pr[t].cur] = "Idle"
      BY <1>5 DEF Turn
  <2>7. \A y \in ({c} \cup LoopBody(c)) \ x.resets : status'[y] = "Idle"
      BY <1>1, <2>3, <2>4, <2>6
  <2> QED BY <2>3, <2>5, <2>7 DEF Turn
<1>6. CASE pr[t].pc = "refire"
  <2>1. PropRefire(t)
      BY <1>6, PropStepAt
  <2> DEFINE x == [pr[t] EXCEPT !.ctrl = NoRule, !.pc = "close"]
  <2>2. PublishEvals({c}) /\ PropTo(t, x)
      BY <1>1, <2>1 DEF PropRefire, NextTarget, PropTo
  <2>3. x.pc = "close"
      BY DEF PrWell, PropLocal
  <2> HIDE DEF x
  <2>4. UNCHANGED <<runStatus, status, iteration, abandoned>>
      BY <2>1 DEF PropRefire, history
  <2>5. Alone(c, t)' /\ pr'[t] = x
      BY <1>1, <1>2, <2>2, <2>3, <2>4, AloneOn
  <2>6. /\ Token(c)'
        /\ \A y \in Rules \ {c} : evals'[y] = 0
        /\ \A u \in EvalTasks : ev'[u].pc # "idle" => ev'[u].rule = c
      BY <1>1, <1>2, <1>3, <2>2, WakeToken
  <2>7. Reached(c, rank)'
    <3>1. \A y \in {c} \cup LoopBody(c) : status'[y] = "Idle"
        BY <1>1, <1>6, <2>4 DEF Turn
    <3>2. \A y \in Rules : rank[c] < rank[y] => y \in LoopBody(c)
        BY DEF OneThread
    <3> QED BY <3>1, <3>2 DEF Reached
  <2> QED BY <2>3, <2>5, <2>6, <2>7 DEF Finishing
<1> QED BY <1>4, <1>5, <1>6

LEMMA TurnProp ==
    ASSUME TypeInv, NEW c, NEW first \in Rules, NEW rank \in [Rules -> Nat],
           OneThread(c, first, rank), NEW t \in PropTasks, Turn(c, t), PropStep(t)
    PROVE  Thread(c, first, rank)'
<1>1. pr[t].pc \in {"fan", "complete", "anchor", "home", "iterate",
                    "resetStatus", "resetLock", "refire"}
    BY DEF Turn
<1>2. c \in Rules
    BY TopologyAssumption DEF OneThread
<1>3. CASE pr[t].pc \in {"fan", "complete", "anchor", "home"}
    BY <1>3, TurnHome DEF Thread
<1>4. CASE pr[t].pc = "iterate"
    BY <1>4, TurnIterate, PropStepAt DEF Thread
<1>5. CASE pr[t].pc \in {"resetStatus", "resetLock", "refire"}
    BY <1>2, <1>5, TurnReset DEF Thread
<1> QED BY <1>1, <1>3, <1>4, <1>5

-----------------------------------------------------------------------------
(* The thread, step by step                                                *)

LEMMA LoopOverProp ==
    ASSUME TypeInv, NEW c, LoopOver(c), NEW t \in PropTasks, PropStep(t)
    PROVE  LoopOver(c)' /\ (runStatus = "Completed" => UNCHANGED runStatus)
<1> USE DEF TypeInv
<1>1. pr[t].pc \in {"close", "scan", "finish"}
    BY PropLeavesAlone DEF LoopOver
<1>2. PropClose(t) \/ PropScan(t) \/ PropFinish(t)
    BY <1>1, PropStepAt
<1>3. /\ UNCHANGED <<iteration, evals, requests, results, trigger, cancel, ev, abandoned>>
      /\ UNCHANGED runStatus \/ runStatus' = "Completed"
    BY <1>2 DEF PropClose, PropScan, PropFinish, redis, queues, history
<1>4. \E x : PropTo(t, x) /\ x.pc \in {"idle", "close", "scan", "finish"}
  <2>1. CASE PropAck(t)
      BY <2>1, IdleLocals DEF PropAck, PropTo
  <2>2. CASE PropClose(t) /\ ~PropAck(t)
    <3> DEFINE x == [pr[t] EXCEPT !.scan = Rules, !.pc = "scan"]
    <3>1. PropTo(t, x)
        BY <2>2 DEF PropClose, PropTo
    <3>2. x.pc = "scan"
        BY DEF PrWell, PropLocal
    <3> HIDE DEF x
    <3> QED BY <3>1, <3>2
  <2>3. CASE PropScan(t)
    <3>1. PICK d \in pr[t].scan :
            LET done == status[d] \in {"Completed", "Failed"}
                looping == status[d] = "Idle" /\ d \in Controllers /\ iteration[d] > 0
                v == [pr[t] EXCEPT !.scan = @ \ {d},
                                   !.termsDone = @ /\ (d \in Terminal => done),
                                   !.running = @ \/ status[d] = "Dispatched" \/ looping,
                                   !.settled = @ /\ done]
            IN  pr' = [pr EXCEPT ![t] =
                         IF v.scan # {} THEN v
                         ELSE IF Finished(v) THEN [v EXCEPT !.pc = "finish"]
                         ELSE PropIdle]
        BY <2>3 DEF PropScan
    <3> DEFINE done == status[d] \in {"Completed", "Failed"}
               looping == status[d] = "Idle" /\ d \in Controllers /\ iteration[d] > 0
               v == [pr[t] EXCEPT !.scan = @ \ {d},
                                  !.termsDone = @ /\ (d \in Terminal => done),
                                  !.running = @ \/ status[d] = "Dispatched" \/ looping,
                                  !.settled = @ /\ done]
               x == IF v.scan # {} THEN v
                    ELSE IF Finished(v) THEN [v EXCEPT !.pc = "finish"]
                    ELSE PropIdle
    <3>2. v.pc = "scan" /\ [v EXCEPT !.pc = "finish"].pc = "finish"
        BY <2>3 DEF PropScan, PrWell, PropLocal
    <3>3. PropTo(t, x)
        BY <3>1 DEF PropTo
    <3>4. x.pc \in {"idle", "close", "scan", "finish"}
      <4> HIDE DEF v
      <4> QED BY <3>2, IdleLocals
    <3> HIDE DEF x
    <3> QED BY <3>3, <3>4
  <2>4. PropFinish(t) => PropAck(t)
      BY DEF PropFinish
  <2> QED BY <1>2, <2>1, <2>2, <2>3, <2>4
<1>5. \A u \in PropTasks : pr'[u].pc \in {"idle", "close", "scan", "finish"}
    BY <1>4, PropToOthers DEF LoopOver
<1>6. Silent' /\ NoResults'
    BY <1>3, SilentKept DEF LoopOver, NoResults
<1>7. runStatus' # "Canceled"
    BY <1>3 DEF LoopOver
<1>8. runStatus = "Completed" => UNCHANGED runStatus
    BY <1>3
<1> QED BY <1>3, <1>5, <1>6, <1>7, <1>8 DEF LoopOver

LEMMA NothingToTake ==
    ASSUME NoResults, NEW t \in PropTasks
    PROVE  ~PropTake(t)
<1>1. ASSUME NEW r \in Rules, NEW o \in Outcomes, PropReceive(t, r, o) PROVE FALSE
  <2>1. results[<<r, o>>] = 0
      BY DEF NoResults
  <2>2. results[<<r, o>>] > 0
      BY <1>1 DEF PropReceive
  <2> QED BY <2>1, <2>2
<1> QED BY <1>1 DEF PropTake

\* Nothing but the propagators is at work, and they have nothing to take.
LEMMA OnlyProps ==
    ASSUME TypeInv, Silent, NoResults, trigger.pc = "done"
    PROVE  /\ ~Trigger
           /\ \A t \in EvalTasks : ~(EvalTake(t) \/ EvalStep(t))
           /\ \A t \in PropTasks : ~PropTake(t)
           /\ \A r \in Rules : ~Infer(r)
<1>1. ~Trigger
    BY DEF Trigger, TriggerSave, TriggerSeed, TriggerRun
<1>2. \A t \in EvalTasks : ~(EvalTake(t) \/ EvalStep(t))
    BY EvalLeavesAlone
<1>3. \A t \in PropTasks : ~PropTake(t)
    BY NothingToTake
<1>4. \A r \in Rules : ~Infer(r)
    BY DEF Silent, Infer, InferSuccess, InferError, TakeRequest
<1> QED BY <1>1, <1>2, <1>3, <1>4

LEMMA AloneSteps ==
    ASSUME TypeInv, Pace = "drained", NEW c, NEW t \in PropTasks, Alone(c, t)
    PROVE  /\ ~Trigger
           /\ \A u \in PropTasks : ~PropTake(u) /\ (PropStep(u) => u = t)
           /\ \A r \in Rules : ~Infer(r)
<1>1. ~Trigger
    BY DEF Alone, Trigger, TriggerSave, TriggerSeed, TriggerRun
<1>2. \A u \in PropTasks : ~PropTake(u)
    BY NothingToTake DEF Alone
<1>3. \A u \in PropTasks : PropStep(u) => u = t
    BY PropLeavesAlone DEF Alone
<1>4. \A r \in Rules : ~Infer(r)
    BY DEF Alone, Infer, InferSuccess, InferError, MayReply, HandlersDone
<1> QED BY <1>1, <1>2, <1>3, <1>4

LEMMA ThreadStep ==
    ASSUME TypeInv, Pace = "drained", NEW c, NEW first \in Rules, NEW rank \in [Rules -> Nat],
           OneThread(c, first, rank), Thread(c, first, rank),
           \/ Trigger
           \/ \E t \in EvalTasks : EvalTake(t) \/ EvalStep(t)
           \/ \E t \in PropTasks : PropTake(t) \/ PropStep(t)
           \/ \E r \in Rules : Infer(r)
    PROVE  Thread(c, first, rank)'
<1>1. ASSUME NEW q \in Rules, Carry(c, first, rank, q) PROVE Thread(c, first, rank)'
  <2>1. CASE Trigger
      BY <1>1, <2>1, CarryTrigger DEF Thread
  <2>2. ASSUME NEW t \in EvalTasks, EvalTake(t) \/ EvalStep(t) PROVE Thread(c, first, rank)'
      BY <1>1, <2>2, CarryEval DEF Thread
  <2>3. ASSUME NEW t \in PropTasks, PropTake(t) PROVE Thread(c, first, rank)'
      BY <1>1, <2>3, CarryTake DEF Thread
  <2>4. \A t \in PropTasks : ~PropStep(t)
      BY <1>1, PropLeavesAlone DEF Carry
  <2>5. ASSUME NEW r \in Rules, Infer(r) PROVE Thread(c, first, rank)'
      BY <1>1, <2>5, CarryInfer DEF Thread
  <2> QED BY <2>1, <2>2, <2>3, <2>4, <2>5
<1>2. ASSUME NEW t \in PropTasks, NEW q \in Rules, Judge(c, rank, t, q)
      PROVE  Thread(c, first, rank)'
  <2>1. Alone(c, t) /\ Silent /\ NoResults /\ trigger.pc = "done"
      BY <1>2 DEF Judge, Alone
  <2>2. PropStep(t)
      BY <2>1, AloneSteps, OnlyProps
  <2> QED BY <1>2, <2>2, JudgeProp
<1>3. ASSUME NEW t \in PropTasks, NEW q \in Rules, Finishing(c, rank, t, q)
      PROVE  Thread(c, first, rank)'
  <2>1. Alone(c, t)
      BY <1>3 DEF Finishing
  <2>2. PropStep(t) \/ \E v \in EvalTasks : EvalTake(v) \/ EvalStep(v)
      BY <2>1, AloneSteps
  <2>3. ASSUME NEW v \in EvalTasks, EvalTake(v) \/ EvalStep(v) PROVE Thread(c, first, rank)'
      BY <1>3, <2>3, FinishingEval DEF Thread
  <2> QED BY <1>3, <2>2, <2>3, FinishingProp DEF Thread
<1>4. ASSUME NEW t \in PropTasks, Turn(c, t) PROVE Thread(c, first, rank)'
  <2>1. Alone(c, t) /\ Silent /\ NoResults /\ trigger.pc = "done"
      BY <1>4 DEF Turn, Alone
  <2>2. PropStep(t)
      BY <2>1, AloneSteps, OnlyProps
  <2> QED BY <1>4, <2>2, TurnProp
<1>5. CASE LoopOver(c)
  <2>1. \E t \in PropTasks : PropStep(t)
      BY <1>5, OnlyProps DEF LoopOver
  <2> QED BY <1>5, <2>1, LoopOverProp DEF Thread
<1> QED BY <1>1, <1>2, <1>3, <1>4, <1>5 DEF Thread

LEMMA ThreadInit ==
    ASSUME Init, NEW c, NEW first \in Rules, NEW rank \in [Rules -> Nat],
           OneThread(c, first, rank)
    PROVE  Thread(c, first, rank)
<1>1. c \in Rules
    BY TopologyAssumption DEF OneThread
<1>2. /\ \A r \in Rules : status[r] = "Idle" /\ evals[r] = 0 /\ requests[r] = 0 /\ iteration[r] = 0
      /\ \A m \in Rules \X Outcomes : results[m] = 0
      /\ cancel = "idle" /\ abandoned = {} /\ filled = {} /\ runStatus = "Absent"
      /\ trigger.pc = "save"
    BY DEF Init
<1>3. /\ \A t \in EvalTasks : ev[t].pc = "idle"
      /\ \A t \in PropTasks : pr[t].pc = "idle"
    BY IdleLocals DEF Init
<1>4. Going(c)
  <2>1. MaxIterations[c] \in Nat
      BY <1>1, TopologyAssumption
  <2> QED BY <1>1, <1>2, <2>1 DEF Going
<1>5. Silent /\ NoResults
    BY <1>2, <1>3 DEF Silent, NoResults
<1>6. Token(first) /\ Reached(first, rank)
    BY <1>2, <1>3 DEF Token, Looks, Reached
<1>7. /\ \A x \in Rules, o \in Outcomes : results[<<x, o>>] = 0
      /\ results[<<first, "success">>] + results[<<first, "error">>] <= 1
  <2>1. \A x \in Rules, o \in Outcomes : results[<<x, o>>] = 0
      BY <1>2
  <2>2. results[<<first, "success">>] = 0 /\ results[<<first, "error">>] = 0
      BY <2>1 DEF Outcomes
  <2> QED BY <2>1, <2>2
<1>8. Carry(c, first, rank, first)
    BY <1>2, <1>3, <1>4, <1>5, <1>6, <1>7 DEF Carry
<1> QED BY <1>8 DEF Thread

LEMMA LoopInvInit ==
    ASSUME Init, NEW c, NEW first \in Rules, NEW rank \in [Rules -> Nat],
           OneThread(c, first, rank)
    PROVE  LoopInv(c, first, rank)
<1>1. BudgetKept
    BY EngineAssumption DEF Init, BudgetKept
<1> QED BY <1>1, ThreadInit DEF LoopInv

LEMMA LoopInvNext ==
    ASSUME TypeInv, Pace = "drained", NEW c, NEW first \in Rules, NEW rank \in [Rules -> Nat],
           OneThread(c, first, rank), LoopInv(c, first, rank), [Next]_vars
    PROVE  LoopInv(c, first, rank)'
<1>1. CASE Next
  <2>1. BudgetKept'
      BY <1>1, BudgetNext DEF LoopInv
  <2>2. OnlyErrors' => Thread(c, first, rank)'
    <3> SUFFICES ASSUME OnlyErrors' PROVE Thread(c, first, rank)'
        OBVIOUS
    <3>1. OnlyErrors
        BY <1>1, OnlyErrorsBack DEF LoopInv
    <3>2. \/ Trigger
          \/ \E t \in EvalTasks : EvalTake(t) \/ EvalStep(t)
          \/ \E t \in PropTasks : PropTake(t) \/ PropStep(t)
          \/ \E r \in Rules : Infer(r)
        BY <1>1, ErrorSteps DEF LoopInv
    <3> QED BY <3>1, <3>2, ThreadStep DEF LoopInv
  <2> QED BY <2>1, <2>2 DEF LoopInv
<1>2. CASE UNCHANGED vars
  <2>1. BudgetKept'
      BY <1>2 DEF LoopInv, BudgetKept, vars, bounds, handlers
  <2>2. OnlyErrors' <=> OnlyErrors
      BY <1>2 DEF OnlyErrors, vars, bounds
  <2>3. Thread(c, first, rank) => Thread(c, first, rank)'
    <3>1. UNCHANGED <<runStatus, status, filled, iteration, evals, requests, results,
                      trigger, cancel, ev, pr, abandoned>>
        BY <1>2 DEF vars, redis, queues, handlers, history
    <3>2. ASSUME NEW q \in Rules PROVE Carry(c, first, rank, q) => Carry(c, first, rank, q)'
        BY <3>1 DEF Carry, Going, Reached, Token, Looks, Stale, NoResults, Silent
    <3>3. ASSUME NEW t \in PropTasks, NEW q \in Rules
          PROVE  /\ Judge(c, rank, t, q) => Judge(c, rank, t, q)'
                 /\ Finishing(c, rank, t, q) => Finishing(c, rank, t, q)'
                 /\ Turn(c, t) => Turn(c, t)'
      <4>1. Judge(c, rank, t, q) => Judge(c, rank, t, q)'
          BY <3>1 DEF Judge, Alone, Going, Reached, NoResults, Silent
      <4>2. Finishing(c, rank, t, q) => Finishing(c, rank, t, q)'
          BY <3>1 DEF Finishing, Alone, Going, Reached, Token, Looks, Stale, NoResults
      <4>3. Turn(c, t) => Turn(c, t)'
          BY <3>1 DEF Turn, Alone, Going, NoResults, Silent
      <4> QED BY <4>1, <4>2, <4>3
    <3>4. LoopOver(c) => LoopOver(c)'
        BY <3>1 DEF LoopOver, NoResults, Silent
    <3>5. ASSUME NEW t \in PropTasks, Turn(c, t) PROVE Turn(c, t)'
        BY <3>1, <3>5 DEF Turn, Alone, Going, NoResults, Silent
    <3> QED BY <3>2, <3>3, <3>4, <3>5 DEF Thread
  <2> QED BY <2>1, <2>2, <2>3 DEF LoopInv
<1> QED BY <1>1, <1>2

\* In a run in which only errors happen, one rule carries the thread until the
\* loop is at its bound or a rule was given up.
LEMMA LoopInvariance ==
    ASSUME Pace = "drained", NEW c, NEW first \in Rules, NEW rank \in [Rules -> Nat],
           OneThread(c, first, rank)
    PROVE  Spec => [](TypeInv /\ LoopInv(c, first, rank))
<1>1. Init => TypeInv /\ LoopInv(c, first, rank)
    BY TypeInit, LoopInvInit
<1>2. TypeInv /\ LoopInv(c, first, rank) /\ [Next]_vars => (TypeInv /\ LoopInv(c, first, rank))'
    BY TypeNext, LoopInvNext
<1> QED BY <1>1, <1>2, PTL DEF Spec

LEMMA ThreadBounds ==
    ASSUME TypeInv, NEW c, NEW first \in Rules, NEW rank \in [Rules -> Nat],
           OneThread(c, first, rank), Thread(c, first, rank)
    PROVE  LoopRunsToBound
<1>1. /\ c \in Rules /\ Controllers = {c}
      /\ iteration[c] \in Nat /\ MaxIterations[c] \in Nat
  <2>1. c \in Rules /\ Controllers = {c}
      BY TopologyAssumption DEF OneThread
  <2> QED BY <2>1, TopologyAssumption DEF TypeInv, RedisOK
<1>2. CASE LoopOver(c)
    BY <1>1, <1>2 DEF LoopOver, LoopRunsToBound
<1>3. CASE ~LoopOver(c)
  <2>1. Going(c) /\ runStatus # "Completed"
      BY <1>3 DEF Thread, Carry, Judge, Finishing, Turn, Alone
  <2> QED BY <1>1, <2>1 DEF Going, LoopRunsToBound
<1> QED BY <1>2, <1>3

-----------------------------------------------------------------------------
\* A loop makes exactly the iterations it is bound to, however often inference
\* fails, and its run is closed early only if a rule was given up (process_result,
\* step 8; check_and_close_run): for every loop with one thread of control.
THEOREM LoopExact ==
    ASSUME Pace = "drained",
           \E c, first \in Rules : \E rank \in [Rules -> Nat] : OneThread(c, first, rank)
    PROVE  Spec => [](OnlyErrors => LoopRunsToBound)
<1>1. PICK c \in Rules, first \in Rules : \E rank \in [Rules -> Nat] : OneThread(c, first, rank)
    OBVIOUS
<1>2. PICK rank \in [Rules -> Nat] : OneThread(c, first, rank)
    BY <1>1
<1>3. Spec => [](TypeInv /\ LoopInv(c, first, rank))
    BY <1>2, LoopInvariance
<1>4. TypeInv /\ LoopInv(c, first, rank) => (OnlyErrors => LoopRunsToBound)
    BY <1>2, ThreadBounds DEF LoopInv
<1> QED BY <1>3, <1>4, PTL

LEMMA ThreadOverStays ==
    ASSUME Pace = "drained", TypeInv, BudgetKept, NEW c, NEW first \in Rules,
           NEW rank \in [Rules -> Nat], Thread(c, first, rank), OnlyErrors', [Next]_vars
    PROVE  [runStatus = "Completed" => runStatus' = "Completed" /\ dispatches' = dispatches]_vars
<1>1. CASE Next
  <2> SUFFICES ASSUME runStatus = "Completed"
               PROVE  runStatus' = "Completed" /\ dispatches' = dispatches
      OBVIOUS
  <2>1. LoopOver(c)
      BY DEF Thread, Carry, Judge, Finishing, Turn, Alone
  <2>2. Silent /\ NoResults /\ trigger.pc = "done"
      BY <2>1 DEF LoopOver
  <2>3. PICK t \in PropTasks : PropStep(t)
      BY <1>1, <2>2, ErrorSteps, OnlyProps
  <2>4. UNCHANGED runStatus
      BY <2>1, <2>3, LoopOverProp
  <2>5. UNCHANGED dispatches
      BY <2>3 DEF PropStep, PropCheck, PropFan, PropComplete, PropAnchor, PropHome, PropIterate,
         PropResetStatus, PropResetLock, PropRefire, PropClose, PropScan, PropFinish,
         PropCount, PropRetryIdle, PropUnlock, PropRetryEval, PropFail, history
  <2> QED BY <2>4, <2>5
<1>2. CASE UNCHANGED vars
    BY <1>2
<1> QED BY <1>1, <1>2

\* A closed run of such a loop stays closed and sends nothing more, however often
\* inference fails (check_and_close_run).
THEOREM LoopStaysClosed ==
    ASSUME Pace = "drained",
           \E c, first \in Rules : \E rank \in [Rules -> Nat] : OneThread(c, first, rank)
    PROVE  Spec /\ []OnlyErrors => ClosedIsFinal
<1>1. PICK c \in Rules, first \in Rules : \E rank \in [Rules -> Nat] : OneThread(c, first, rank)
    OBVIOUS
<1>2. PICK rank \in [Rules -> Nat] : OneThread(c, first, rank)
    BY <1>1
<1>3. Spec => [](TypeInv /\ LoopInv(c, first, rank))
    BY <1>2, LoopInvariance
<1>4. TypeInv /\ LoopInv(c, first, rank) /\ OnlyErrors /\ OnlyErrors' /\ [Next]_vars =>
        [runStatus = "Completed" => runStatus' = "Completed" /\ dispatches' = dispatches]_vars
    BY <1>2, ThreadOverStays DEF LoopInv
<1> QED BY <1>3, <1>4, PTL DEF Spec, ClosedIsFinal

-----------------------------------------------------------------------------
(* No wake-up is lost on the way round.                                    *)

\* r has succeeded, and its node is anchored if r is to anchor it.
Done(r) == status[r] = "Completed" /\ (IsForwardFamily(r) => Owner[r] \in anchored)

\* What the thread has passed before q, busy apart, and what is ahead of it.
DoneBefore(q, rank, busy) == \A x \in Rules : rank[x] < rank[q] /\ x # busy => Done(x)
Ahead(q, rank) == \A x \in Rules : rank[q] < rank[x] => ~lock[x]

Fed(q, rank) == \A x \in Rules : rank[x] <= rank[q] => InputSet(x) \subseteq filled

SeedsWritten ==
    \A p \in Projections : Seeded(p) => p \in filled \/ ProjOwner[p] \in trigger.todo

\* Evaluator t will send q.
Able(t, q) ==
    /\ Looks(t, q) /\ status[q] = "Idle"
    /\ ev[t].next \in Nat /\ ev[t].next > 0
    /\ \A i \in 1 .. (ev[t].next - 1) : Inputs[q][i] \in ev[t].avail
    /\ ev[t].pc = "status" => ev[t].next = 1
    /\ ev[t].pc = "scan" => ev[t].next <= Len(Inputs[q])
    /\ ev[t].pc \notin {"status", "scan"} => InputSet(q) \subseteq ev[t].avail
    /\ ev[t].pc \in {"status", "scan", "gate", "lock"} => ~lock[q]

Unsent(q) == \A t \in EvalTasks : ~(ev[t].pc = "dispatch" /\ ev[t].rule = q)

\* q is on its way to a request, to an answer or to a propagator.
Live(q) ==
    \/ evals[q] > 0 /\ status[q] = "Idle" /\ ~lock[q] /\ Unsent(q)
    \/ Unsent(q) /\ \E t \in EvalTasks : Able(t, q)
    \/ requests[q] > 0
    \/ \E o \in Outcomes : results[<<q, o>>] > 0

\* A check of another rule than q does not come to the lock.
OthersHeld(q) ==
    \A t \in EvalTasks : ev[t].pc # "idle" /\ ev[t].rule # q =>
        ev[t].pc \in {"status", "scan", "gate"} /\ ev[t].avail \subseteq filled

Unseeded(first) ==
    \/ trigger.pc = "save"
    \/ trigger.pc = "seed" /\ Owner[first] \in trigger.todo

CarryAlive(first, rank, q) ==
    /\ DoneBefore(q, rank, NoRule) /\ Ahead(q, rank) /\ OthersHeld(q)
    /\ trigger.pc # "save" => snapshot /\ SeedsWritten
    /\ trigger.pc \in {"run", "done"} => trigger.todo = {}
    /\ IF Unseeded(first)
       THEN status[first] = "Idle" /\ ~lock[first]
       ELSE Fed(q, rank) /\ Live(q)

Stored == snapshot /\ SeedsWritten /\ trigger.todo = {}

\* Nothing has been held against the run yet.
CleanScan(t) == pr[t].settled /\ ~pr[t].running

JudgeAlive(rank, t, q) ==
    /\ Stored /\ CleanScan(t)
    /\ DoneBefore(q, rank, NoRule) /\ Ahead(q, rank) /\ Fed(q, rank)
    /\ pr[t].pc \in {"unlock", "retryEval"} => status[q] = "Idle"
    /\ pr[t].pc = "retryEval" => ~lock[q]

FinishingAlive(rank, t, q) ==
    /\ Stored /\ Ahead(q, rank) /\ Fed(q, rank) /\ Live(q)
    /\ IF pr[t].pc \in {"fan", "complete", "anchor"}
       THEN DoneBefore(q, rank, pr[t].rule) /\ Wakes(pr[t].rule, q)
       ELSE DoneBefore(q, rank, NoRule)
    /\ pr[t].pc = "anchor" => status[pr[t].rule] = "Completed"

TurnAlive(c, rank, t) ==
    /\ Stored /\ CleanScan(t)
    /\ \A x \in Rules : InputSet(x) \subseteq filled
    /\ pr[t].pc \in {"fan", "complete", "anchor"} =>
          \A x \in Rules \ {pr[t].rule} : Done(x)
    /\ pr[t].pc = "anchor" => status[pr[t].rule] = "Completed"
    /\ pr[t].pc \in {"home", "iterate"} => \A x \in Rules : Done(x)
    /\ pr[t].pc \in {"resetStatus", "resetLock", "refire"} =>
          /\ DoneBefore(c, rank, NoRule) /\ pr[t].resets \subseteq {c} \cup LoopBody(c)
          /\ \A x \in ({c} \cup LoopBody(c)) \ pr[t].resets : ~lock[x]

\* The run is closed, or about to be.
OverAlive ==
    abandoned = {} =>
        /\ \A x \in Rules : status[x] = "Completed"
        /\ \/ runStatus = "Completed"
           \/ \E t \in PropTasks :
                \/ pr[t].pc \in {"close", "scan"} /\ CleanScan(t)
                \/ pr[t].pc = "finish"

ThreadAlive(c, first, rank) ==
    \/ \E q \in Rules : Carry(c, first, rank, q) /\ CarryAlive(first, rank, q)
    \/ \E t \in PropTasks, q \in Rules :
          \/ Judge(c, rank, t, q) /\ JudgeAlive(rank, t, q)
          \/ Finishing(c, rank, t, q) /\ FinishingAlive(rank, t, q)
    \/ \E t \in PropTasks : Turn(c, t) /\ TurnAlive(c, rank, t)
    \/ LoopOver(c) /\ OverAlive

-----------------------------------------------------------------------------
(* The evaluators keep the thread going                                    *)

LEMMA WholeReady ==
    ASSUME WholeRules, NEW r \in Rules, NEW avail
    PROVE  Ready(r, avail) <=> InputSet(r) \subseteq avail
<1>1. Inputs[r] \in Seq(Projections) /\ Inputs[r] # <<>> /\ Mode[r] \in {"SINGLE", "AND", "OR"}
      /\ (Mode[r] = "AND" \/ Len(Inputs[r]) = 1)
    BY TopologyAssumption DEF WholeRules, Modes
<1>2. CASE Mode[r] = "AND"
    BY <1>1, <1>2 DEF Ready
<1>3. CASE Len(Inputs[r]) = 1
  <2>1. InputSet(r) = {Inputs[r][1]}
    <3>1. DOMAIN Inputs[r] = {1}
        BY <1>1, <1>3
    <3> QED BY <3>1 DEF InputSet
  <2> QED BY <1>1, <2>1 DEF Ready
<1> QED BY <1>1, <1>2, <1>3

\* What an evaluator leaves alone of the rules that are not its own.
LEMMA EvalFrames ==
    ASSUME TypeInv, NEW t \in EvalTasks, EvalTake(t) \/ EvalStep(t)
    PROVE  /\ UNCHANGED <<snapshot, anchored>>
           /\ \A x \in Rules : status'[x] = status[x] \/ (ev[t].pc = "dispatch" /\ ev[t].rule = x)
           /\ \A x \in Rules : lock'[x] = lock[x] \/ (ev[t].pc = "lock" /\ ev[t].rule = x)
<1>1. status \in [Rules -> {"Idle", "Dispatched", "Completed", "Failed"}] /\ lock \in [Rules -> BOOLEAN]
    BY DEF TypeInv, RedisOK
<1>2. ASSUME NEW r \in Rules, EvalReceive(t, r) PROVE UNCHANGED <<snapshot, anchored, status, lock>>
    BY <1>2 DEF EvalReceive, redis
<1>3. CASE EvalLock(t)
  <2>1. /\ UNCHANGED <<snapshot, anchored, status>> /\ ev[t].pc = "lock"
        /\ UNCHANGED lock \/ lock' = [lock EXCEPT ![ev[t].rule] = TRUE]
      BY <1>3 DEF EvalLock
  <2> QED BY <1>1, <2>1
<1>4. CASE EvalDispatch(t)
  <2>1. /\ UNCHANGED <<snapshot, anchored, lock>> /\ ev[t].pc = "dispatch"
        /\ status' = [status EXCEPT ![ev[t].rule] = "Dispatched"]
      BY <1>4 DEF EvalDispatch
  <2> QED BY <1>1, <2>1
<1>5. CASE EvalStatus(t) \/ EvalScan(t) \/ EvalGate(t) \/ EvalRecheck(t) \/ EvalRender(t)
           \/ EvalPublish(t)
    BY <1>5 DEF EvalStatus, EvalScan, EvalGate, EvalRecheck, EvalRender, EvalPublish, redis
<1> QED BY <1>2, <1>3, <1>4, <1>5 DEF EvalTake, EvalStep

\* A check of a rule that misses an input stops at the gate.
LEMMA OthersHeldEval ==
    ASSUME TypeInv, WholeRules, NEW q \in Rules, Token(q), OthersHeld(q),
           NEW t \in EvalTasks, EvalTake(t) \/ EvalStep(t)
    PROVE  OthersHeld(q)'
<1>1. EvWell /\ UNCHANGED filled
    BY EvalLeavesAlone DEF TypeInv
<1> DEFINE Held(x) == x.pc # "idle" /\ x.rule # q =>
                        x.pc \in {"status", "scan", "gate"} /\ x.avail \subseteq filled
<1>2. \A u \in EvalTasks : Held(ev[u])
    BY DEF OthersHeld
<1>3. ASSUME NEW x, EvalTo(t, x), Held(x) PROVE OthersHeld(q)'
  <2>1. ev'[t] = x /\ \A u \in EvalTasks : u # t => ev'[u] = ev[u]
      BY <1>1, <1>3, EvalToOthers
  <2> QED BY <1>1, <1>2, <1>3, <2>1 DEF OthersHeld
<1>4. CASE EvalAck(t)
  <2>1. EvalTo(t, EvalIdle)
      BY <1>4 DEF EvalTo, EvalAck
  <2>2. Held(EvalIdle)
      BY IdleLocals
  <2> QED BY <1>3, <2>1, <2>2
<1>5. ASSUME NEW r \in Rules, EvalReceive(t, r) PROVE OthersHeld(q)'
  <2> DEFINE x == [EvalIdle EXCEPT !.pc = "status", !.rule = r]
  <2>1. UNCHANGED ev \/ EvalTo(t, x)
      BY <1>5 DEF EvalReceive, EvalTo
  <2>2. Held(x)
      BY DEF EvalIdle
  <2>3. CASE UNCHANGED ev
      BY <1>1, <2>3 DEF OthersHeld
  <2> HIDE DEF x, Held
  <2> QED BY <1>3, <2>1, <2>2, <2>3
<1>6. ASSUME ev[t].rule = q, NEW pc, EvalGoto(t, pc) PROVE OthersHeld(q)'
  <2>1. PICK x : EvalTo(t, x) /\ x.rule = q
      BY <1>1, <1>6, EvalGotoTo
  <2> QED BY <1>3, <2>1
<1>7. ASSUME NEW pc \in {"scan", "gate"}, EvalGoto(t, pc), ev[t].pc # "idle" PROVE OthersHeld(q)'
  <2>1. PICK x : EvalTo(t, x) /\ x.pc = pc /\ x.rule = ev[t].rule /\ x.avail = ev[t].avail
      BY <1>1, <1>7, EvalGotoTo
  <2>2. Held(x)
      BY <1>2, <1>7, <2>1
  <2> HIDE DEF Held
  <2> QED BY <1>3, <2>1, <2>2
<1>8. ASSUME EvalStep(t), ev[t].rule # q PROVE ev[t].rule \in Rules /\ Stale(ev[t].rule)
        /\ ev[t].pc \in {"status", "scan", "gate"} /\ ev[t].avail \subseteq filled
    BY <1>1, <1>8, EvalWrites DEF Token, EvWell, OthersHeld
<1>9. CASE EvalStatus(t)
  <2>1. EvalAck(t) \/ EvalGoto(t, "gate") \/ EvalGoto(t, "scan")
      BY <1>9 DEF EvalStatus
  <2>2. ev[t].pc # "idle"
      BY <1>9 DEF EvalStatus
  <2> QED BY <1>4, <1>7, <2>1, <2>2
<1>10. CASE EvalScan(t)
  <2> DEFINE i == ev[t].next
             p == Inputs[ev[t].rule][i]
             x == [ev[t] EXCEPT !.avail = IF p \in filled THEN @ \cup {p} ELSE @,
                                !.next = i + 1,
                                !.pc = IF i = Len(Inputs[ev[t].rule]) THEN "gate" ELSE "scan"]
  <2>1. EvalTo(t, x) /\ ev[t].pc = "scan"
      BY <1>10 DEF EvalScan, EvalTo
  <2>2. x.rule = ev[t].rule /\ x.pc \in {"gate", "scan"}
        /\ x.avail = IF p \in filled THEN ev[t].avail \cup {p} ELSE ev[t].avail
      BY DEF EvWell, EvalLocal, TypeInv
  <2> HIDE DEF x
  <2>3. Held(x)
      BY <1>2, <2>1, <2>2
  <2> HIDE DEF Held
  <2> QED BY <1>3, <2>1, <2>3
<1>11. CASE EvalGate(t)
  <2>1. CASE ev[t].rule = q
    <3>1. EvalAck(t) \/ EvalGoto(t, "lock")
        BY <1>11 DEF EvalGate
    <3> QED BY <1>4, <1>6, <2>1, <3>1
  <2>2. CASE ev[t].rule # q
    <3>1. EvalStep(t)
        BY <1>11 DEF EvalStep
    <3>2. ~(InputSet(ev[t].rule) \subseteq ev[t].avail) /\ ev[t].rule \in Rules
        BY <1>8, <2>2, <3>1 DEF Stale
    <3>3. ~Ready(ev[t].rule, ev[t].avail)
        BY <3>2, WholeReady
    <3>4. EvalAck(t)
        BY <1>11, <3>3 DEF EvalGate
    <3> QED BY <1>4, <3>4
  <2> QED BY <2>1, <2>2
<1>12. CASE EvalLock(t) \/ EvalRecheck(t) \/ EvalRender(t) \/ EvalPublish(t) \/ EvalDispatch(t)
  <2>1. ev[t].rule = q
    <3>1. EvalStep(t)
        BY <1>12 DEF EvalStep
    <3>2. ev[t].pc \notin {"status", "scan", "gate"}
        BY <1>12 DEF EvalLock, EvalRecheck, EvalRender, EvalPublish, EvalDispatch
    <3> QED BY <1>8, <3>1, <3>2
  <2>2. EvalAck(t) \/ \E pc : EvalGoto(t, pc)
      BY <1>12 DEF EvalLock, EvalRecheck, EvalRender, EvalPublish, EvalDispatch
  <2> QED BY <1>4, <1>6, <2>1, <2>2
<1> QED BY <1>5, <1>9, <1>10, <1>11, <1>12 DEF EvalTake, EvalStep

-----------------------------------------------------------------------------
\* The evaluator of q goes on as x, and will send q.
LEMMA AbleTo ==
    ASSUME EvWell, NEW q \in Rules, NEW t \in EvalTasks, Unsent(q), NEW x, EvalTo(t, x),
           x.rule = q, x.pc \notin {"idle", "dispatch"},
           x.next \in Nat /\ x.next > 0,
           \A i \in 1 .. (x.next - 1) : Inputs[q][i] \in x.avail,
           x.pc = "status" => x.next = 1,
           x.pc = "scan" => x.next <= Len(Inputs[q]),
           x.pc \notin {"status", "scan"} => InputSet(q) \subseteq x.avail,
           status'[q] = "Idle",
           x.pc \in {"status", "scan", "gate", "lock"} => ~lock'[q]
    PROVE  Live(q)'
<1>1. ev'[t] = x /\ \A u \in EvalTasks : u # t => ev'[u] = ev[u]
    BY EvalToOthers
<1>2. Unsent(q)'
    BY <1>1 DEF Unsent
<1>3. Able(t, q)'
    BY <1>1 DEF Able, Looks
<1> QED BY <1>2, <1>3 DEF Live

LEMMA AbleGoto ==
    ASSUME EvWell, NEW q \in Rules, NEW t \in EvalTasks, Unsent(q), Able(t, q),
           NEW pc \in {"scan", "lock", "recheck", "render", "publish"}, EvalGoto(t, pc),
           pc = "scan" => ev[t].next <= Len(Inputs[q]),
           pc # "scan" => InputSet(q) \subseteq ev[t].avail,
           status'[q] = "Idle",
           pc \in {"scan", "lock"} => ~lock'[q]
    PROVE  Live(q)'
<1>1. PICK x : /\ EvalTo(t, x) /\ x.pc = pc /\ x.rule = q
               /\ x.next = ev[t].next /\ x.avail = ev[t].avail
    BY EvalGotoTo DEF Able, Looks
<1>2. /\ x.next \in Nat /\ x.next > 0
      /\ \A i \in 1 .. (x.next - 1) : Inputs[q][i] \in x.avail
    BY <1>1 DEF Able
<1> QED BY <1>1, <1>2, AbleTo

LEMMA AbleStep ==
    ASSUME TypeInv, WholeRules, NEW q \in Rules, snapshot, InputSet(q) \subseteq filled,
           IsForwardFamily(q) \/ Owner[q] \in anchored,
           NEW t \in EvalTasks, Unsent(q), Able(t, q), EvalStep(t)
    PROVE  Live(q)'
<1>1. EvWell /\ requests \in [Rules -> Nat]
    BY DEF TypeInv, QueuesOK
<1>2. ev[t].rule = q /\ ev[t].pc # "dispatch" /\ status[q] = "Idle"
    BY DEF Able, Looks
<1>3. status'[q] = "Idle" /\ (ev[t].pc # "lock" => lock'[q] = lock[q])
    BY <1>2, EvalFrames
<1>4. Inputs[q] \in Seq(Projections) /\ Inputs[q] # <<>>
    BY TopologyAssumption DEF WholeRules
<1>5. DOMAIN Inputs[q] = 1 .. Len(Inputs[q]) /\ Len(Inputs[q]) \in Nat /\ Len(Inputs[q]) > 0
    BY <1>4
<1>6. CASE EvalStatus(t)
  <2>1. ev[t].pc = "status" /\ EvalGoto(t, "scan")
      BY <1>2, <1>4, <1>6 DEF EvalStatus
  <2>2. ev[t].next = 1 /\ ~lock[q]
      BY <2>1 DEF Able
  <2> QED BY <1>1, <1>3, <1>5, <2>1, <2>2, AbleGoto
<1>7. CASE EvalScan(t)
  <2> DEFINE i == ev[t].next
             x == [ev[t] EXCEPT !.avail = IF Inputs[q][i] \in filled THEN @ \cup {Inputs[q][i]} ELSE @,
                                !.next = i + 1,
                                !.pc = IF i = Len(Inputs[q]) THEN "gate" ELSE "scan"]
  <2>1. EvalTo(t, x) /\ ev[t].pc = "scan"
      BY <1>2, <1>7 DEF EvalScan, EvalTo
  <2>2. /\ i \in Nat /\ i > 0 /\ i <= Len(Inputs[q]) /\ ~lock[q]
        /\ \A j \in 1 .. (i - 1) : Inputs[q][j] \in ev[t].avail
      BY <2>1 DEF Able
  <2>3. Inputs[q][i] \in filled
      BY <1>5, <2>2 DEF InputSet
  <2>4. /\ x.rule = q /\ x.next = i + 1 /\ x.avail = ev[t].avail \cup {Inputs[q][i]}
        /\ x.pc = IF i = Len(Inputs[q]) THEN "gate" ELSE "scan"
      BY <1>1, <1>2, <2>3 DEF EvWell, EvalLocal
  <2> HIDE DEF x
  <2>5. \A j \in 1 .. (x.next - 1) : Inputs[q][j] \in x.avail
    <3> SUFFICES ASSUME NEW j \in 1 .. (x.next - 1) PROVE Inputs[q][j] \in x.avail
        OBVIOUS
    <3>1. j = i \/ j \in 1 .. (i - 1)
        BY <2>2, <2>4
    <3> QED BY <2>2, <2>4, <3>1
  <2>6. x.pc \notin {"status", "scan"} => InputSet(q) \subseteq x.avail
    <3> SUFFICES ASSUME i = Len(Inputs[q]) PROVE InputSet(q) \subseteq x.avail
        BY <2>4
    <3>1. \A j \in DOMAIN Inputs[q] : Inputs[q][j] \in x.avail
        BY <1>5, <2>2, <2>4, <2>5
    <3> QED BY <3>1 DEF InputSet
  <2>7. /\ x.next \in Nat /\ x.next > 0
        /\ x.pc \notin {"idle", "dispatch", "status"}
        /\ x.pc = "scan" => x.next <= Len(Inputs[q])
      BY <1>5, <2>2, <2>4
  <2>8. ~lock'[q]
      BY <1>3, <2>1, <2>2
  <2> QED BY <1>1, <1>3, <2>1, <2>4, <2>5, <2>6, <2>7, <2>8, AbleTo
<1>8. CASE EvalGate(t)
  <2>1. ev[t].pc = "gate" /\ InputSet(q) \subseteq ev[t].avail /\ ~lock[q]
      BY <1>8 DEF EvalGate, Able
  <2>2. Ready(q, ev[t].avail)
      BY <2>1, WholeReady
  <2>3. EvalGoto(t, "lock")
      BY <1>2, <1>8, <2>2 DEF EvalGate
  <2> QED BY <1>1, <1>3, <2>1, <2>3, AbleGoto
<1>9. CASE EvalLock(t)
  <2>1. ev[t].pc = "lock" /\ InputSet(q) \subseteq ev[t].avail /\ ~lock[q]
      BY <1>9 DEF EvalLock, Able
  <2>2. EvalGoto(t, "recheck")
      BY <1>2, <1>9, <2>1 DEF EvalLock
  <2> QED BY <1>1, <1>3, <2>1, <2>2, AbleGoto
<1>10. CASE EvalRecheck(t)
  <2>1. ev[t].pc = "recheck" /\ InputSet(q) \subseteq ev[t].avail
      BY <1>10 DEF EvalRecheck, Able
  <2>2. EvalGoto(t, "render")
      BY <1>2, <1>10 DEF EvalRecheck
  <2> QED BY <1>1, <1>3, <2>1, <2>2, AbleGoto
<1>11. CASE EvalRender(t)
  <2>1. ev[t].pc = "render" /\ InputSet(q) \subseteq ev[t].avail
      BY <1>11 DEF EvalRender, Able
  <2>2. EvalGoto(t, "publish")
      BY <1>2, <1>11, <2>1 DEF EvalRender, Placeholders
  <2> QED BY <1>1, <1>3, <2>1, <2>2, AbleGoto
<1>12. CASE EvalPublish(t)
  <2>1. requests' = [requests EXCEPT ![q] = @ + 1]
      BY <1>2, <1>12 DEF EvalPublish
  <2>2. requests'[q] > 0
      BY <1>1, <2>1
  <2> QED BY <2>2 DEF Live
<1>13. ~EvalDispatch(t)
    BY <1>2 DEF EvalDispatch
<1> QED BY <1>6, <1>7, <1>8, <1>9, <1>10, <1>11, <1>12, <1>13 DEF EvalStep

\* Whatever an evaluator does, q stays on its way.
LEMMA LiveEval ==
    ASSUME TypeInv, WholeRules, NEW q \in Rules, snapshot, InputSet(q) \subseteq filled,
           IsForwardFamily(q) \/ Owner[q] \in anchored, runStatus # "Canceled",
           Token(q), Live(q), NEW t \in EvalTasks, EvalTake(t) \/ EvalStep(t)
    PROVE  Live(q)'
<1>1. /\ EvWell /\ evals \in [Rules -> Nat] /\ requests \in [Rules -> Nat]
      /\ UNCHANGED results
    BY EvalLeavesAlone DEF TypeInv, QueuesOK
<1>2. CASE \E o \in Outcomes : results[<<q, o>>] > 0
    BY <1>1, <1>2 DEF Live
<1>3. CASE requests[q] > 0
  <2>1. requests'[q] = requests[q] \/ requests'[q] = requests[q] + 1
    <3>1. ASSUME NEW r \in Rules, EvalReceive(t, r) PROVE UNCHANGED requests
        BY <3>1 DEF EvalReceive
    <3>2. CASE EvalStep(t)
      <4>1. UNCHANGED requests \/ requests' = [requests EXCEPT ![ev[t].rule] = @ + 1]
          BY <3>2, EvalWrites
      <4> QED BY <1>1, <4>1
    <3> QED BY <3>1, <3>2 DEF EvalTake
  <2>2. requests'[q] > 0
      BY <1>1, <1>3, <2>1
  <2> QED BY <2>2 DEF Live
<1>4. CASE evals[q] > 0 /\ status[q] = "Idle" /\ ~lock[q] /\ Unsent(q)
  <2>1. \A u \in EvalTasks : ~Looks(u, q)
      BY <1>1, <1>4 DEF Token
  <2>2. \A u \in EvalTasks : ev[u].pc # "idle" => ev[u].rule # q
      BY <1>4, <2>1 DEF Looks, Unsent
  <2>3. status'[q] = "Idle" /\ ~lock'[q]
      BY <1>4, <2>2, EvalFrames
  <2>4. ASSUME NEW r \in Rules, EvalReceive(t, r) PROVE Live(q)'
    <3> DEFINE x == [EvalIdle EXCEPT !.pc = "status", !.rule = r]
    <3>1. EvalTo(t, x)
        BY <2>4 DEF EvalReceive, EvalTo
    <3>2. x.pc = "status" /\ x.rule = r /\ x.next = 1
        BY DEF EvalIdle
    <3> HIDE DEF x
    <3>3. CASE r = q
      <4>1. \A i \in 1 .. (x.next - 1) : Inputs[q][i] \in x.avail
          BY <3>2
      <4> QED BY <1>1, <1>4, <2>3, <3>1, <3>2, <3>3, <4>1, AbleTo
    <3>4. CASE r # q
      <4>1. evals'[q] = evals[q]
          BY <1>1, <2>4, <3>4 DEF EvalReceive
      <4>2. Unsent(q)'
          BY <1>1, <1>4, <3>1, <3>2, EvalToOthers DEF Unsent
      <4> QED BY <1>4, <2>3, <4>1, <4>2 DEF Live
    <3> QED BY <3>3, <3>4
  <2>5. CASE EvalStep(t)
    <3>1. UNCHANGED evals /\ ev[t].pc # "idle"
        BY <2>5, EvalWrites
    <3>2. PICK x : EvalAdvances(t, x)
        BY <1>1, <2>5, EvalAdvance
    <3>3. ev'[t] = x /\ \A u \in EvalTasks : u # t => ev'[u] = ev[u]
        BY <1>1, <3>2, EvalToOthers DEF EvalAdvances
    <3>4. x.pc # "idle" => x.rule # q
        BY <2>2, <3>1, <3>2 DEF EvalAdvances
    <3>5. Unsent(q)'
        BY <1>4, <3>3, <3>4 DEF Unsent
    <3> QED BY <1>4, <2>3, <3>1, <3>5 DEF Live
  <2> QED BY <2>4, <2>5 DEF EvalTake
<1>5. ASSUME Unsent(q), NEW u \in EvalTasks, Able(u, q) PROVE Live(q)'
  <2>1. /\ \A v \in EvalTasks : ev[v].pc # "idle" /\ v # u => ev[v].rule # q
        /\ evals[q] = 0 /\ ev[u].pc # "idle" /\ ev[u].rule = q
      BY <1>5 DEF Able, Looks, Token, Unsent
  <2>2. CASE t = u
    <3>1. EvalStep(t)
        BY <2>1, <2>2 DEF EvalTake, EvalReceive
    <3> QED BY <1>5, <2>2, <3>1, AbleStep
  <2>3. CASE t # u
    <3>1. status'[q] = status[q] /\ lock'[q] = lock[q]
        BY <2>1, <2>3, EvalFrames
    <3>2. \E x : EvalTo(t, x) /\ (x.pc # "idle" => x.rule # q)
      <4>1. ASSUME NEW r \in Rules, EvalReceive(t, r)
            PROVE  \E x : EvalTo(t, x) /\ (x.pc # "idle" => x.rule # q)
        <5> DEFINE x == [EvalIdle EXCEPT !.pc = "status", !.rule = r]
        <5>1. EvalTo(t, x)
            BY <4>1 DEF EvalReceive, EvalTo
        <5>2. x.rule = r /\ r # q
          <6>1. evals[r] > 0
              BY <4>1 DEF EvalReceive
          <6>2. r # q
              BY <2>1, <6>1
          <6> QED BY <6>2 DEF EvalIdle
        <5> HIDE DEF x
        <5> QED BY <5>1, <5>2
      <4>2. CASE EvalStep(t)
        <5>1. PICK x : EvalAdvances(t, x)
            BY <1>1, <4>2, EvalAdvance
        <5>2. EvalTo(t, x) /\ (x.pc # "idle" => x.rule # q)
            BY <2>1, <2>3, <4>2, <5>1, EvalWrites DEF EvalAdvances
        <5> QED BY <5>2
      <4> QED BY <4>1, <4>2 DEF EvalTake
    <3>3. PICK x : EvalTo(t, x) /\ (x.pc # "idle" => x.rule # q)
        BY <3>2
    <3>4. ev'[t] = x /\ ev'[u] = ev[u] /\ \A v \in EvalTasks : v # t => ev'[v] = ev[v]
        BY <1>1, <2>3, <3>3, EvalToOthers
    <3>5. Unsent(q)'
        BY <1>5, <3>3, <3>4 DEF Unsent
    <3>6. Able(u, q)'
        BY <1>5, <3>1, <3>4 DEF Able, Looks
    <3> QED BY <3>5, <3>6 DEF Live
  <2> QED BY <2>2, <2>3
<1> QED BY <1>2, <1>3, <1>4, <1>5 DEF Live

-----------------------------------------------------------------------------
(* The way round, with the evaluators and with inference                   *)

\* The anchor gate is open for q when the thread gets there.
LEMMA Passable ==
    ASSUME NEW c, NEW first, NEW rank \in [Rules -> Nat], OneRound(c, first, rank),
           NEW q \in Rules, NEW busy, DoneBefore(q, rank, busy), busy \in Rules => Wakes(busy, q)
    PROVE  IsForwardFamily(q) \/ Owner[q] \in anchored
<1> SUFFICES ASSUME ~IsForwardFamily(q) PROVE Owner[q] \in anchored
    OBVIOUS
<1>1. PICK f \in Rules, x \in Rules :
        /\ IsForwardFamily(f) /\ Owner[f] = Owner[q]
        /\ rank[f] < rank[x] /\ rank[x] < rank[q]
    BY DEF OneRound
<1>2. rank[f] \in Nat /\ rank[x] \in Nat /\ rank[q] \in Nat
    OBVIOUS
<1>3. f # busy
  <2>1. Wakes(f, q) => rank[x] <= rank[f] \/ rank[q] <= rank[x]
      BY DEF OneRound
  <2> QED BY <1>1, <1>2, <2>1
<1>4. rank[f] < rank[q]
    BY <1>1, <1>2
<1> QED BY <1>1, <1>3, <1>4 DEF DoneBefore, Done

LEMMA NoRuleIsNone == NoRule \notin Rules
BY EngineAssumption

\* What is behind and ahead of q when only q is written to.
LEMMA AroundKept ==
    ASSUME NEW rank \in [Rules -> Nat], NEW q \in Rules, UNCHANGED anchored,
           \A x \in Rules : x # q => status'[x] = status[x] /\ lock'[x] = lock[x]
    PROVE  /\ \A busy : DoneBefore(q, rank, busy) => DoneBefore(q, rank, busy)'
           /\ Ahead(q, rank) => Ahead(q, rank)'
<1>1. \A x \in Rules : rank[x] < rank[q] \/ rank[q] < rank[x] => x # q
  <2> SUFFICES ASSUME NEW x \in Rules, rank[x] < rank[q] \/ rank[q] < rank[x], x = q PROVE FALSE
      OBVIOUS
  <2>1. rank[q] \in Nat
      OBVIOUS
  <2> QED BY <2>1
<1> QED BY <1>1 DEF DoneBefore, Ahead, Done

LEMMA EvalAround ==
    ASSUME TypeInv, NEW rank \in [Rules -> Nat], NEW q \in Rules, Token(q), OthersHeld(q),
           NEW t \in EvalTasks, EvalTake(t) \/ EvalStep(t)
    PROVE  /\ \A busy : DoneBefore(q, rank, busy) => DoneBefore(q, rank, busy)'
           /\ Ahead(q, rank) => Ahead(q, rank)'
<1>1. \A x \in Rules : x # q => status'[x] = status[x] /\ lock'[x] = lock[x]
    BY EvalFrames DEF Token, OthersHeld
<1>2. UNCHANGED anchored
    BY EvalFrames
<1> QED BY <1>1, <1>2, AroundKept

LEMMA CarryAliveEval ==
    ASSUME TypeInv, NEW c, NEW first \in Rules, NEW rank \in [Rules -> Nat],
           OneRound(c, first, rank), NEW q \in Rules, Carry(c, first, rank, q),
           CarryAlive(first, rank, q), NEW t \in EvalTasks, EvalTake(t) \/ EvalStep(t)
    PROVE  CarryAlive(first, rank, q)'
<1>1. Token(q) /\ OthersHeld(q) /\ WholeRules
    BY DEF Carry, CarryAlive, OneRound
<1>2. /\ UNCHANGED <<runStatus, filled, trigger, snapshot, anchored>>
      /\ ~Silent
    BY EvalLeavesAlone, EvalFrames
<1>3. OthersHeld(q)'
    BY <1>1, OthersHeldEval
<1>4. DoneBefore(q, rank, NoRule)' /\ Ahead(q, rank)'
    BY <1>1, EvalAround DEF CarryAlive
<1>5. SeedsWritten => SeedsWritten'
    BY <1>2 DEF SeedsWritten
<1>6. Unseeded(first)' <=> Unseeded(first)
    BY <1>2 DEF Unseeded
<1>7. CASE Unseeded(first)
  <2>1. status[first] = "Idle" /\ ~lock[first]
      BY <1>7 DEF CarryAlive
  <2>2. \A u \in EvalTasks : ev[u].pc # "idle" => ev[u].rule # first
      BY <1>2, <1>7 DEF Unseeded, Carry
  <2>3. status'[first] = "Idle" /\ ~lock'[first]
      BY <2>1, <2>2, EvalFrames
  <2> QED BY <1>2, <1>3, <1>4, <1>5, <1>6, <1>7, <2>3 DEF CarryAlive
<1>8. CASE ~Unseeded(first)
  <2>1. Fed(q, rank) /\ Live(q) /\ snapshot
      BY <1>8 DEF CarryAlive, Unseeded
  <2>2. InputSet(q) \subseteq filled
    <3>1. rank[q] <= rank[q]
      <4>1. rank[q] \in Nat
          OBVIOUS
      <4> QED BY <4>1
    <3> QED BY <2>1, <3>1 DEF Fed
  <2>3. IsForwardFamily(q) \/ Owner[q] \in anchored
      BY NoRuleIsNone, Passable DEF CarryAlive
  <2>4. runStatus # "Canceled"
      BY DEF Carry
  <2>5. Live(q)'
      BY <1>1, <2>1, <2>2, <2>3, <2>4, LiveEval
  <2>6. Fed(q, rank)'
      BY <1>2, <2>1 DEF Fed
  <2> QED BY <1>2, <1>3, <1>4, <1>5, <1>6, <1>8, <2>5, <2>6 DEF CarryAlive
<1> QED BY <1>7, <1>8

\* The inputs of the first rule are the seed of its node, which the caller gives.
LEMMA FirstSeeded ==
    ASSUME NEW c, NEW first \in Rules, NEW rank \in [Rules -> Nat], OneRound(c, first, rank)
    PROVE  /\ \A p \in InputSet(first) : Seeded(p) /\ ProjOwner[p] = Owner[first]
           /\ Owner[first] \in UserInputs
           /\ \E p \in Projections : Seeded(p) /\ ProjOwner[p] = Owner[first]
<1>1. \A p \in InputSet(first) : Seeded(p) /\ ProjOwner[p] = Owner[first]
  <2> SUFFICES ASSUME NEW p \in InputSet(first) PROVE Seeded(p) /\ ProjOwner[p] = Owner[first]
      OBVIOUS
  <2>1. ~\E r \in Rules : rank[r] < rank[first] /\ p \in Route[r]
    <3> SUFFICES ASSUME NEW r \in Rules, rank[r] < rank[first] PROVE FALSE
        OBVIOUS
    <3>1. rank[first] <= rank[r] /\ rank[first] \in Nat /\ rank[r] \in Nat
        BY DEF OneRound
    <3> QED BY <3>1
  <2> QED BY <2>1 DEF OneRound, WholeRules
<1>2. PICK p \in InputSet(first) : TRUE
  <2>1. Inputs[first] \in Seq(Projections) /\ Inputs[first] # <<>>
      BY TopologyAssumption DEF OneRound, WholeRules
  <2>2. 1 \in DOMAIN Inputs[first]
      BY <2>1
  <2> QED BY <2>2 DEF InputSet
<1>3. p \in Projections
    BY InputSetType
<1>4. Owner[first] \in UserInputs
    BY <1>1, <1>2 DEF Seeded, SeedsOf
<1> QED BY <1>1, <1>2, <1>3, <1>4

LEMMA CarryAliveTrigger ==
    ASSUME TypeInv, NEW c, NEW first \in Rules, NEW rank \in [Rules -> Nat],
           OneRound(c, first, rank), NEW q \in Rules, Carry(c, first, rank, q),
           CarryAlive(first, rank, q), Trigger
    PROVE  CarryAlive(first, rank, q)'
<1>1. UNCHANGED <<status, lock, anchored, requests, results, ev>>
    BY DEF Trigger, TriggerSave, TriggerSeed, TriggerRun, queues
<1>2. q = first
    BY DEF Carry, Trigger, TriggerSave, TriggerSeed, TriggerRun
<1>3. filled \subseteq filled'
    BY DEF Trigger, TriggerSave, TriggerSeed, TriggerRun
<1>4. DoneBefore(q, rank, NoRule)' /\ Ahead(q, rank)' /\ OthersHeld(q)'
    BY <1>1, <1>3 DEF CarryAlive, DoneBefore, Ahead, OthersHeld, Done
<1>5. CASE TriggerSave
  <2>1. /\ trigger.pc = "save" /\ snapshot' = TRUE /\ UNCHANGED filled
        /\ trigger'.pc = IF UserInputs = {} THEN "run" ELSE "seed"
        /\ trigger'.todo = UserInputs
      BY <1>5 DEF TriggerSave
  <2>2. trigger'.pc = "seed" /\ Owner[first] \in trigger'.todo
      BY <2>1, FirstSeeded
  <2>3. SeedsWritten'
      BY <2>1 DEF SeedsWritten, Seeded, SeedsOf
  <2>4. status'[first] = "Idle" /\ ~lock'[first]
      BY <1>1, <2>1 DEF CarryAlive, Unseeded
  <2> QED BY <1>4, <2>1, <2>2, <2>3, <2>4 DEF CarryAlive, Unseeded
<1>6. ASSUME NEW n \in Nodes, TriggerSeed(n) PROVE CarryAlive(first, rank, q)'
  <2>1. /\ trigger.pc = "seed" /\ n \in trigger.todo
        /\ UNCHANGED snapshot
        /\ trigger'.pc = IF trigger.todo \ {n} = {} THEN "run" ELSE "seed"
        /\ trigger'.todo = trigger.todo \ {n}
      BY <1>6 DEF TriggerSeed
  <2>2. snapshot' /\ SeedsWritten
      BY <2>1 DEF CarryAlive
  <2>3. \A p \in Projections : Seeded(p) /\ ProjOwner[p] = n =>
          p \in filled' /\ PublishEvals(RulesOn(n))
    <3> SUFFICES ASSUME NEW p \in Projections, Seeded(p), ProjOwner[p] = n
                 PROVE  p \in filled' /\ PublishEvals(RulesOn(n))
        OBVIOUS
    <3>1. SeedsOf(n) = {p}
        BY DEF Seeded, SeedsOf
    <3> QED BY <1>6, <3>1 DEF TriggerSeed
  <2>4. SeedsWritten'
      BY <1>3, <2>1, <2>2, <2>3 DEF SeedsWritten
  <2>5. CASE Owner[first] = n
    <3>1. status[first] = "Idle" /\ ~lock[first]
        BY <2>1, <2>5 DEF CarryAlive, Unseeded
    <3>2. \A u \in EvalTasks : ev[u].pc # "idle" => ev[u].rule # first
        BY <2>1, <2>5 DEF Carry
    <3>3. PublishEvals(RulesOn(n))
        BY <2>3, <2>5, FirstSeeded
    <3>4. evals'[first] > 0
        BY <2>5, <3>3 DEF PublishEvals, RulesOn, TypeInv, QueuesOK
    <3>5. Unsent(first)'
        BY <1>1, <3>2 DEF Unsent
    <3>6. Live(first)'
        BY <1>1, <3>1, <3>4, <3>5 DEF Live
    <3>7. Fed(first, rank)'
      <4> SUFFICES ASSUME NEW x \in Rules, rank[x] <= rank[first] PROVE InputSet(x) \subseteq filled'
          BY DEF Fed
      <4>1. rank[first] <= rank[x] /\ rank[first] \in Nat /\ rank[x] \in Nat
          BY DEF OneRound
      <4>2. x = first
          BY <4>1 DEF OneRound
      <4> QED BY <2>3, <2>5, <4>2, FirstSeeded, InputSetType
    <3>8. ~Unseeded(first)' /\ (trigger'.pc \in {"run", "done"} => trigger'.todo = {})
        BY <2>1, <2>5 DEF Unseeded
    <3> QED BY <1>2, <1>4, <2>1, <2>2, <2>4, <3>6, <3>7, <3>8 DEF CarryAlive
  <2>6. CASE Owner[first] # n
    <3>1. Unseeded(first)' <=> Unseeded(first)
        BY <2>1, <2>6 DEF Unseeded
    <3>2. trigger'.pc \in {"run", "done"} => trigger'.todo = {}
        BY <2>1
    <3>3. CASE Unseeded(first)
      <4>1. status'[first] = "Idle" /\ ~lock'[first]
          BY <1>1, <3>3 DEF CarryAlive
      <4> QED BY <1>4, <2>2, <2>4, <3>1, <3>2, <3>3, <4>1 DEF CarryAlive
    <3>4. CASE ~Unseeded(first)
      <4>1. evals'[first] = evals[first]
        <5>1. UNCHANGED evals \/ PublishEvals(RulesOn(n))
            BY <1>6 DEF TriggerSeed
        <5> QED BY <2>6, <5>1 DEF PublishEvals, RulesOn
      <4>2. Live(first)'
        <5>1. Unsent(first) => Unsent(first)'
            BY <1>1 DEF Unsent
        <5>2. \A u \in EvalTasks : Able(u, first) => Able(u, first)'
            BY <1>1 DEF Able, Looks
        <5> QED BY <1>1, <1>2, <3>4, <4>1, <5>1, <5>2 DEF CarryAlive, Live
      <4>3. Fed(first, rank)'
          BY <1>2, <1>3, <3>4 DEF CarryAlive, Fed
      <4> QED BY <1>2, <1>4, <2>2, <2>4, <3>1, <3>2, <3>4, <4>2, <4>3 DEF CarryAlive
    <3> QED BY <3>3, <3>4
  <2> QED BY <2>5, <2>6
<1>7. CASE TriggerRun
  <2>1. trigger.pc = "run" /\ UNCHANGED <<snapshot, filled, evals>> /\ trigger'.pc = "done"
        /\ trigger'.todo = trigger.todo
    <3>1. trigger' = [trigger EXCEPT !.pc = "done"]
        BY <1>7 DEF TriggerRun
    <3> QED BY <1>7, <3>1 DEF TriggerRun, queues, TypeInv, ApiOK
  <2>2. ~Unseeded(first) /\ ~Unseeded(first)'
      BY <2>1 DEF Unseeded
  <2>3. snapshot /\ SeedsWritten /\ trigger.todo = {} /\ Fed(q, rank) /\ Live(q)
      BY <2>1, <2>2 DEF CarryAlive
  <2>4. SeedsWritten' /\ Fed(q, rank)'
      BY <2>1, <2>3 DEF SeedsWritten, Fed
  <2>5. Live(q)'
    <3>1. Unsent(q) => Unsent(q)'
        BY <1>1 DEF Unsent
    <3>2. \A u \in EvalTasks : Able(u, q) => Able(u, q)'
        BY <1>1 DEF Able, Looks
    <3> QED BY <1>1, <2>1, <2>3, <3>1, <3>2 DEF Live
  <2> QED BY <1>4, <2>1, <2>2, <2>3, <2>4, <2>5 DEF CarryAlive
<1> QED BY <1>5, <1>6, <1>7 DEF Trigger

LEMMA CarryAliveInfer ==
    ASSUME TypeInv, Pace = "drained", NEW c, NEW first \in Rules, NEW rank \in [Rules -> Nat],
           NEW q \in Rules, Carry(c, first, rank, q), CarryAlive(first, rank, q),
           NEW r \in Rules, Infer(r)
    PROVE  CarryAlive(first, rank, q)'
<1>1. PICK o \in Outcomes : Answer(r, o)
    BY DEF Infer, InferSuccess, InferError, Outcomes
<1>2. TakeRequest(r) /\ trigger.pc = "done"
    BY DEF Infer, InferSuccess, InferError, MayReply, FollowUpsDone
<1>3. UNCHANGED <<snapshot, status, lock, filled, anchored, trigger, ev>>
    BY DEF Infer, InferSuccess, InferError, redis, handlers
<1>4. r = q
    BY <1>2 DEF TakeRequest, Carry, Token
<1>5. results'[<<q, o>>] > 0
    BY <1>1, <1>4 DEF Answer, TypeInv, QueuesOK
<1>6. Live(q)'
    BY <1>5 DEF Live
<1>7. ~Unseeded(first) /\ ~Unseeded(first)'
    BY <1>2, <1>3 DEF Unseeded
<1> QED BY <1>2, <1>3, <1>6, <1>7
        DEF CarryAlive, DoneBefore, Ahead, Done, OthersHeld, SeedsWritten, Fed

LEMMA CarryAliveTake ==
    ASSUME TypeInv, NEW c, NEW first \in Rules, NEW rank \in [Rules -> Nat],
           NEW q \in Rules, Carry(c, first, rank, q), CarryAlive(first, rank, q),
           NEW t \in PropTasks, PropTake(t)
    PROVE  JudgeAlive(rank, t, q)'
<1>1. PICK r \in Rules, o \in Outcomes : PropReceive(t, r, o)
    BY DEF PropTake
<1>2. trigger.pc = "done" /\ runStatus = "Running"
  <2>1. ~NoResults
      BY <1>1 DEF PropReceive, NoResults
  <2> QED BY <2>1 DEF Carry
<1>3. UNCHANGED <<snapshot, status, lock, filled, anchored, trigger>>
    BY <1>1 DEF PropReceive, redis
<1> DEFINE x == [PropIdle EXCEPT !.pc = "check", !.rule = r, !.outcome = o]
<1>4. PropTo(t, x)
    BY <1>1, <1>2 DEF PropReceive, PropTo
<1>5. x.pc = "check" /\ x.settled /\ ~x.running
    BY DEF PropIdle
<1> HIDE DEF x
<1>6. pr'[t] = x
    BY <1>4, PropToOthers DEF TypeInv
<1>7. Stored' /\ Fed(q, rank)' /\ DoneBefore(q, rank, NoRule)' /\ Ahead(q, rank)'
    BY <1>2, <1>3 DEF CarryAlive, Unseeded, Stored, SeedsWritten, Fed, DoneBefore, Ahead, Done
<1>8. CleanScan(t)'
    BY <1>5, <1>6 DEF CleanScan
<1> QED BY <1>5, <1>6, <1>7, <1>8 DEF JudgeAlive

-----------------------------------------------------------------------------
(* The way round, with a propagator                                        *)

\* What a propagator keeps of its rule until it comes to the completion check.
LEMMA PropSame ==
    ASSUME TypeInv, NEW t \in PropTasks, PropStep(t), pr[t].pc # "scan", pr'[t].pc # "idle"
    PROVE  pr'[t].rule = pr[t].rule /\ (CleanScan(t)' <=> CleanScan(t))
<1>1. PrWell /\ pr[t] \in PropLocal
    BY DEF TypeInv, PrWell
<1>2. ~PropAck(t) /\ ~PropFinish(t) /\ ~PropRetryEval(t) /\ ~PropScan(t)
  <2>1. ~PropAck(t)
    <3> SUFFICES ASSUME PropAck(t) PROVE FALSE
        OBVIOUS
    <3>1. PropTo(t, PropIdle)
        BY DEF PropTo, PropAck
    <3> QED BY <1>1, <3>1, IdleLocals, PropToOthers
  <2> QED BY <2>1 DEF PropFinish, PropRetryEval, PropScan
<1>3. ASSUME NEW pc, PropGoto(t, pc) PROVE pr'[t].rule = pr[t].rule /\ (CleanScan(t)' <=> CleanScan(t))
  <2>1. PICK x : PropTo(t, x) /\ x.rule = pr[t].rule /\ x.settled = pr[t].settled
                 /\ x.running = pr[t].running
      BY <1>1, <1>3, PropGotoTo
  <2> QED BY <1>1, <2>1, PropToOthers DEF CleanScan
<1>4. CASE PropCheck(t) \/ PropFan(t)
  <2>1. ASSUME PropCheck(t)
        PROVE  \/ PropGoto(t, "count")
               \/ \E todo, pc : pr' = [pr EXCEPT ![t].todo = todo, ![t].pc = pc]
    <3>1. \/ PropGoto(t, "count")
          \/ pr' = [pr EXCEPT ![t].todo = Route[pr[t].rule],
                              ![t].pc = IF Route[pr[t].rule] = {} THEN "complete" ELSE "fan"]
        BY <1>2, <2>1 DEF PropCheck
    <3> QED BY <3>1
  <2>3. ASSUME PropFan(t) PROVE \E todo, pc : pr' = [pr EXCEPT ![t].todo = todo, ![t].pc = pc]
    <3>1. PICK p \in pr[t].todo :
            pr' = [pr EXCEPT ![t].todo = pr[t].todo \ {p},
                             ![t].pc = IF pr[t].todo \ {p} = {} THEN "complete" ELSE "fan"]
        BY <2>3 DEF PropFan
    <3> QED BY <3>1
  <2>2. ASSUME NEW todo, NEW pc, pr' = [pr EXCEPT ![t].todo = todo, ![t].pc = pc]
        PROVE  pr'[t].rule = pr[t].rule /\ (CleanScan(t)' <=> CleanScan(t))
      BY <1>1, <2>2 DEF CleanScan, PrWell, PropLocal
  <2> QED BY <1>3, <1>4, <2>1, <2>2, <2>3
<1>5. CASE PropComplete(t) \/ PropAnchor(t) \/ PropCount(t) \/ PropRetryIdle(t) \/ PropUnlock(t)
           \/ PropFail(t)
  <2>1. \E pc : PropGoto(t, pc)
      BY <1>5 DEF PropComplete, PropAnchor, PropCount, PropRetryIdle, PropUnlock, PropFail
  <2> QED BY <1>3, <2>1
<1>6. CASE PropHome(t)
    BY <1>1, <1>6 DEF PropHome, PropGoto, CleanScan, PrWell, PropLocal
<1>7. CASE PropIterate(t)
  <2>1. PICK p \in pr[t].todo, b \in Rules :
          LET rest == pr[t].todo \ {p} IN
          \/ pr' = [pr EXCEPT ![t].todo = rest, ![t].pc = NextTarget(rest)]
          \/ pr' = [pr EXCEPT ![t].todo = rest, ![t].ctrl = b,
                              ![t].resets = {b} \cup LoopBody(b), ![t].pc = "resetStatus"]
    <3>1. \A p : ControllersOn(ProjOwner[p]) \subseteq Rules
        BY TopologyAssumption DEF ControllersOn
    <3> QED BY <1>7, <3>1 DEF PropIterate
  <2> DEFINE rest == pr[t].todo \ {p}
             x == [pr[t] EXCEPT !.todo = rest, !.pc = NextTarget(rest)]
             y == [pr[t] EXCEPT !.todo = rest, !.ctrl = b, !.resets = {b} \cup LoopBody(b),
                                !.pc = "resetStatus"]
  <2>2. PropTo(t, x) \/ PropTo(t, y)
      BY <2>1 DEF PropTo
  <2>3. /\ x.rule = pr[t].rule /\ x.settled = pr[t].settled /\ x.running = pr[t].running
        /\ y.rule = pr[t].rule /\ y.settled = pr[t].settled /\ y.running = pr[t].running
      BY <1>1 DEF PropLocal
  <2> HIDE DEF x, y
  <2>4. pr'[t] = x \/ pr'[t] = y
      BY <1>1, <2>2, PropToOthers
  <2>5. pr'[t].rule = pr[t].rule /\ pr'[t].settled = pr[t].settled /\ pr'[t].running = pr[t].running
      BY <2>3, <2>4
  <2>6. CleanScan(t)' <=> CleanScan(t)
      BY <2>5, Zenon DEF CleanScan
  <2> QED BY <2>5, <2>6
<1>8. CASE PropResetStatus(t) \/ PropResetLock(t) \/ PropRefire(t)
  <2>1. ASSUME NEW x, PropTo(t, x), x.rule = pr[t].rule, x.settled = pr[t].settled,
               x.running = pr[t].running
        PROVE  pr'[t].rule = pr[t].rule /\ (CleanScan(t)' <=> CleanScan(t))
    <3>1. pr'[t].rule = pr[t].rule /\ pr'[t].settled = pr[t].settled
          /\ pr'[t].running = pr[t].running
        BY <1>1, <2>1, PropToOthers
    <3>2. CleanScan(t)' <=> CleanScan(t)
        BY <3>1, Zenon DEF CleanScan
    <3> QED BY <3>1, <3>2
  <2>2. ASSUME NEW d, NEW pc PROVE LET x == [pr[t] EXCEPT !.cur = d, !.pc = pc] IN
          x.rule = pr[t].rule /\ x.settled = pr[t].settled /\ x.running = pr[t].running
      BY <1>1 DEF PropLocal
  <2>3. ASSUME NEW rest, NEW pc PROVE LET x == [pr[t] EXCEPT !.resets = rest, !.cur = NoRule, !.pc = pc] IN
          x.rule = pr[t].rule /\ x.settled = pr[t].settled /\ x.running = pr[t].running
      BY <1>1 DEF PropLocal
  <2>4. ASSUME NEW pc PROVE LET x == [pr[t] EXCEPT !.ctrl = NoRule, !.pc = pc] IN
          x.rule = pr[t].rule /\ x.settled = pr[t].settled /\ x.running = pr[t].running
      BY <1>1 DEF PropLocal
  <2>5. CASE PropResetStatus(t)
    <3>1. PICK d \in pr[t].resets : PropTo(t, [pr[t] EXCEPT !.cur = d, !.pc = "resetLock"])
        BY <2>5 DEF PropResetStatus, PropTo
    <3> QED BY <2>1, <2>2, <3>1
  <2>6. CASE PropResetLock(t)
    <3> DEFINE rest == pr[t].resets \ {pr[t].cur}
               pc == IF rest = {} THEN "refire" ELSE "resetStatus"
    <3>1. PropTo(t, [pr[t] EXCEPT !.resets = rest, !.cur = NoRule, !.pc = pc])
        BY <2>6 DEF PropResetLock, PropTo
    <3> HIDE DEF rest, pc
    <3> QED BY <2>1, <2>3, <3>1
  <2>7. CASE PropRefire(t)
    <3>1. PropTo(t, [pr[t] EXCEPT !.ctrl = NoRule, !.pc = NextTarget(pr[t].todo)])
        BY <2>7 DEF PropRefire, PropTo
    <3> QED BY <2>1, <2>4, <3>1
  <2> QED BY <1>8, <2>5, <2>6, <2>7
<1>9. CASE PropClose(t)
    BY <1>1, <1>2, <1>9 DEF PropClose, CleanScan, PrWell, PropLocal
<1> QED BY <1>2, <1>4, <1>5, <1>6, <1>7, <1>8, <1>9 DEF PropStep

\* A result that has come home has every rule behind it.
LEMMA AllBehind ==
    ASSUME NEW c, NEW first, NEW rank \in [Rules -> Nat], OneRound(c, first, rank),
           NEW q \in Rules, Homing(q), DoneBefore(q, rank, NoRule), Fed(q, rank)
    PROVE  /\ \A x \in Rules : InputSet(x) \subseteq filled
           /\ \A x \in Rules \ {q} : Done(x)
<1>1. \A x \in Rules : rank[x] <= rank[q]
    BY DEF OneRound
<1>2. ASSUME NEW x \in Rules, x # q PROVE rank[x] < rank[q] /\ x # NoRule
  <2>1. rank[x] # rank[q]
      BY <1>2 DEF OneRound
  <2>2. rank[x] \in Nat /\ rank[q] \in Nat /\ rank[x] <= rank[q]
      BY <1>1
  <2> QED BY <2>1, <2>2, NoRuleIsNone
<1> QED BY <1>1, <1>2 DEF DoneBefore, Fed

LEMMA JudgeAliveCheck ==
    ASSUME TypeInv, NEW c, NEW first \in Rules, NEW rank \in [Rules -> Nat],
           OneRound(c, first, rank), NEW q \in Rules, NEW t \in PropTasks,
           Judge(c, rank, t, q), JudgeAlive(rank, t, q), PropCheck(t)
    PROVE  \/ Judge(c, rank, t, q)' /\ JudgeAlive(rank, t, q)'
           \/ Turn(c, t)' /\ TurnAlive(c, rank, t)'
<1>1. UNCHANGED <<snapshot, status, lock, filled, anchored, trigger>>
    BY DEF PropCheck, redis
<1>2. Stored' /\ DoneBefore(q, rank, NoRule)' /\ Ahead(q, rank)' /\ Fed(q, rank)'
    BY <1>1 DEF JudgeAlive, Stored, SeedsWritten, DoneBefore, Ahead, Done, Fed
<1>3. PrWell /\ pr[t].rule = q /\ pr[t].pc = "check" /\ pr[t] \in PropLocal
    BY DEF TypeInv, PrWell, PropCheck, Judge
<1>4. status[q] # "Completed" /\ snapshot
    BY DEF Judge, Reached, JudgeAlive, Stored
<1>5. pr'[t].pc \in {"count", "fan", "complete"}
  <2>1. \/ PropGoto(t, "count")
        \/ pr' = [pr EXCEPT ![t].todo = Route[q], ![t].pc = IF Route[q] = {} THEN "complete" ELSE "fan"]
      BY <1>3, <1>4 DEF PropCheck
  <2> QED BY <1>3, <2>1 DEF PropGoto, PrWell, PropLocal
<1>6. pr'[t].rule = q /\ CleanScan(t)'
  <2>1. PropStep(t)
      BY DEF PropStep
  <2> QED BY <1>3, <1>5, <2>1, PropSame DEF JudgeAlive
<1>7. Carry(c, first, rank, q)' \/ Judge(c, rank, t, q)' \/ Turn(c, t)'
    BY JudgeCheck DEF OneRound
<1>8. ~Carry(c, first, rank, q)'
    BY <1>5 DEF Carry
<1>9. CASE Judge(c, rank, t, q)'
  <2>1. JudgeAlive(rank, t, q)'
      BY <1>2, <1>5, <1>6 DEF JudgeAlive
  <2> QED BY <1>9, <2>1
<1>10. CASE Turn(c, t)'
  <2>1. Homing(q)
      BY <1>5, <1>6, <1>10 DEF Turn
  <2>2. /\ \A x \in Rules : InputSet(x) \subseteq filled
        /\ \A x \in Rules \ {q} : Done(x)
      BY <2>1, AllBehind DEF JudgeAlive
  <2>3. \A x \in Rules \ {pr[t].rule}' : Done(x)'
      BY <1>1, <1>6, <2>2 DEF Done
  <2>4. TurnAlive(c, rank, t)'
      BY <1>1, <1>2, <1>5, <1>6, <2>2, <2>3 DEF TurnAlive
  <2> QED BY <1>10, <2>4
<1> QED BY <1>7, <1>8, <1>9, <1>10

\* The next rule has its inputs, and is on its way.
LEMMA JudgeAliveFan ==
    ASSUME TypeInv, NEW c, NEW first \in Rules, NEW rank \in [Rules -> Nat],
           OneRound(c, first, rank), NEW q \in Rules, NEW t \in PropTasks,
           Judge(c, rank, t, q), JudgeAlive(rank, t, q), NEW p \in pr[t].todo, FanOut(t, p),
           NEW z \in Rules, Affected(p) = {z}, Finishing(c, rank, t, z)'
    PROVE  FinishingAlive(rank, t, z)'
<1>1. UNCHANGED <<snapshot, status, lock, anchored, trigger, ev>> /\ filled' = filled \cup {p}
      /\ PublishEvals({z})
    BY DEF FanOut
<1>2. PrWell /\ pr[t].rule = q /\ pr[t].pc = "fan" /\ pr[t] \in PropLocal /\ ~Homing(q)
      /\ pr[t].todo \subseteq Route[q]
    BY DEF TypeInv, PrWell, FanOut, Judge
<1>3. pr'[t].pc \in {"fan", "complete"} /\ pr'[t].rule = q
    BY <1>2 DEF FanOut, PrWell, PropLocal
<1>4. rank[q] < rank[z] /\ rank[q] \in Nat /\ rank[z] \in Nat
    BY <1>3 DEF Finishing
<1>5. Wakes(q, z)
    BY <1>2 DEF Wakes
<1>6. \A x \in Rules : rank[x] < rank[z] => rank[x] <= rank[q]
  <2> SUFFICES ASSUME NEW x \in Rules, rank[x] < rank[z] PROVE rank[x] <= rank[q]
      OBVIOUS
  <2>1. rank[x] <= rank[q] \/ rank[z] <= rank[x]
      BY <1>5 DEF OneRound
  <2> QED BY <1>4, <2>1
<1>7. Stored'
    BY <1>1 DEF JudgeAlive, Stored, SeedsWritten
<1>8. Ahead(z, rank)'
  <2> SUFFICES ASSUME NEW x \in Rules, rank[z] < rank[x] PROVE ~lock[x]
      BY <1>1 DEF Ahead
  <2>1. rank[q] < rank[x]
      BY <1>4
  <2> QED BY <2>1 DEF JudgeAlive, Ahead
<1>9. DoneBefore(z, rank, q)'
  <2> SUFFICES ASSUME NEW x \in Rules, rank[x] < rank[z], x # q PROVE Done(x)
      BY <1>1 DEF DoneBefore, Done
  <2>1. rank[x] # rank[q] /\ rank[x] <= rank[q] /\ rank[x] \in Nat
      BY <1>6 DEF OneRound
  <2>2. rank[x] < rank[q] /\ x # NoRule
      BY <1>4, <2>1, NoRuleIsNone
  <2> QED BY <2>2 DEF JudgeAlive, DoneBefore
<1>10. InputSet(z) \subseteq filled'
  <2> SUFFICES ASSUME NEW d \in InputSet(z) PROVE d \in filled'
      OBVIOUS
  <2>1. CASE Seeded(d)
      BY <1>1, <2>1, InputSetType DEF JudgeAlive, Stored, SeedsWritten
  <2>2. ASSUME NEW r \in Rules, rank[r] < rank[z], d \in Route[r] PROVE d \in filled'
    <3>1. z \in Affected(d) /\ Wakes(r, z)
        BY <2>2 DEF Affected, Wakes
    <3>2. rank[q] <= rank[r]
      <4>1. rank[q] <= rank[r] \/ rank[z] <= rank[q]
          BY <3>1 DEF OneRound
      <4> QED BY <1>4, <4>1
    <3>3. r = q
      <4>1. rank[r] = rank[q]
          BY <1>4, <1>6, <2>2, <3>2
      <4> QED BY <4>1 DEF OneRound
    <3>4. PICK w \in Route[q] : \A e \in Route[q] \ {w} : Affected(e) = {}
        BY <1>2 DEF OneRound, OneThread
    <3>5. d = w /\ p = w
        BY <1>2, <2>2, <3>1, <3>3, <3>4
    <3> QED BY <1>1, <3>5
  <2>3. Seeded(d) \/ \E r \in Rules : rank[r] < rank[z] /\ d \in Route[r]
      BY DEF OneRound
  <2> QED BY <2>1, <2>2, <2>3
<1>11. Fed(z, rank)'
  <2> SUFFICES ASSUME NEW x \in Rules, rank[x] <= rank[z] PROVE InputSet(x) \subseteq filled'
      BY DEF Fed
  <2>1. CASE rank[x] < rank[z]
      BY <1>1, <1>6, <2>1 DEF JudgeAlive, Fed
  <2>2. CASE rank[x] = rank[z]
    <3>1. x = z
        BY <2>2 DEF OneRound
    <3> QED BY <1>10, <3>1
  <2>3. rank[x] \in Nat
      OBVIOUS
  <2> QED BY <1>4, <2>1, <2>2, <2>3
<1>12. Live(z)'
  <2>1. status'[z] = "Idle" /\ ~lock'[z]
      BY <1>1, <1>4 DEF Judge, Reached, JudgeAlive, Ahead
  <2>2. evals'[z] > 0
      BY <1>1 DEF PublishEvals, TypeInv, QueuesOK
  <2>3. Unsent(z)'
      BY <1>1 DEF Unsent, Judge, Silent
  <2> QED BY <2>1, <2>2, <2>3 DEF Live
<1> QED BY <1>3, <1>5, <1>7, <1>8, <1>9, <1>11, <1>12 DEF FinishingAlive, Wakes

-----------------------------------------------------------------------------
LEMMA JudgeAliveProp ==
    ASSUME TypeInv, NEW c, NEW first \in Rules, NEW rank \in [Rules -> Nat],
           OneRound(c, first, rank), NEW q \in Rules, NEW t \in PropTasks,
           Judge(c, rank, t, q), JudgeAlive(rank, t, q), PropStep(t)
    PROVE  ThreadAlive(c, first, rank)'
<1>1. /\ pr[t].rule = q /\ Alone(c, t) /\ Silent /\ Reached(q, rank)
      /\ pr[t].pc \in {"check", "fan", "count", "retryIdle", "unlock", "retryEval", "fail"}
      /\ PrWell /\ RedisOK /\ lock \in [Rules -> BOOLEAN]
      /\ status \in [Rules -> {"Idle", "Dispatched", "Completed", "Failed"}]
    BY DEF Judge, TypeInv, RedisOK
<1>2. UNCHANGED <<requests, results, trigger, cancel, ev>>
    BY PropLeavesAlone
<1>3. ASSUME NEW pc \in {"count", "retryIdle", "unlock", "retryEval", "fail"}, PropGoto(t, pc),
             UNCHANGED <<runStatus, iteration, abandoned, evals, snapshot, filled, anchored>>,
             UNCHANGED status \/ status' = [status EXCEPT ![q] = "Idle"],
             UNCHANGED lock \/ lock' = [lock EXCEPT ![q] = FALSE],
             pc \in {"unlock", "retryEval"} => status'[q] = "Idle",
             pc = "retryEval" => ~lock'[q]
      PROVE  ThreadAlive(c, first, rank)'
  <2>1. PICK x : PropTo(t, x) /\ x.pc = pc /\ x.rule = q
      BY <1>1, <1>3, PropGotoTo
  <2>2. Judge(c, rank, t, q)'
      BY <1>2, <1>3, <2>1, JudgeOn
  <2>3. pr'[t].pc = pc
      BY <1>1, <2>1, PropToOthers
  <2>4. CleanScan(t)'
    <3>1. pr[t].pc # "scan" /\ pr'[t].pc # "idle"
        BY <1>1, <1>3, <2>3
    <3> QED BY <3>1, PropSame DEF JudgeAlive
  <2>5. \A x1 \in Rules : x1 # q => status'[x1] = status[x1] /\ lock'[x1] = lock[x1]
      BY <1>1, <1>3
  <2>6. DoneBefore(q, rank, NoRule)' /\ Ahead(q, rank)'
      BY <1>3, <2>5, AroundKept DEF JudgeAlive
  <2>7. Stored' /\ Fed(q, rank)'
      BY <1>2, <1>3 DEF JudgeAlive, Stored, SeedsWritten, Fed
  <2>8. JudgeAlive(rank, t, q)'
      BY <1>3, <2>3, <2>4, <2>6, <2>7 DEF JudgeAlive
  <2> QED BY <2>2, <2>8 DEF ThreadAlive
<1>4. CASE pr[t].pc = "check"
  <2>1. \/ Judge(c, rank, t, q)' /\ JudgeAlive(rank, t, q)'
        \/ Turn(c, t)' /\ TurnAlive(c, rank, t)'
      BY <1>4, JudgeAliveCheck, PropStepAt
  <2> QED BY <2>1 DEF ThreadAlive
<1>5. CASE pr[t].pc = "fan"
  <2>1. PICK p \in pr[t].todo : FanOut(t, p)
      BY <1>5, FanTarget, PropStepAt
  <2>2. CASE Affected(p) = {} /\ Judge(c, rank, t, q)'
    <3>1. UNCHANGED <<snapshot, status, lock, anchored, trigger>> /\ filled \subseteq filled'
        BY <2>1 DEF FanOut
    <3>2. pr'[t].pc \notin {"idle", "unlock", "retryEval"}
        BY <1>1, <2>1 DEF FanOut, PrWell, PropLocal
    <3>3. CleanScan(t)'
        BY <1>5, <3>2, PropSame DEF JudgeAlive
    <3>4. JudgeAlive(rank, t, q)'
        BY <3>1, <3>2, <3>3
           DEF JudgeAlive, Stored, SeedsWritten, DoneBefore, Ahead, Done, Fed
    <3> QED BY <2>2, <3>4 DEF ThreadAlive
  <2>3. ASSUME NEW z \in Rules, Affected(p) = {z}, Finishing(c, rank, t, z)'
        PROVE  ThreadAlive(c, first, rank)'
    <3>1. FinishingAlive(rank, t, z)'
        BY <2>1, <2>3, JudgeAliveFan
    <3> QED BY <2>3, <3>1 DEF ThreadAlive
  <2>4. \/ Affected(p) = {} /\ Judge(c, rank, t, q)'
        \/ \E z \in Rules : Affected(p) = {z} /\ Finishing(c, rank, t, z)'
      BY <2>1, JudgeFan DEF OneRound
  <2> QED BY <2>2, <2>3, <2>4
<1>6. CASE pr[t].pc = "count"
  <2>1. PropCount(t)
      BY <1>6, PropStepAt
  <2>2. PropGoto(t, "retryIdle") \/ PropGoto(t, "fail")
      BY <2>1 DEF PropCount
  <2>3. UNCHANGED <<runStatus, iteration, abandoned, evals, snapshot, filled, anchored,
                    status, lock>>
      BY <2>1 DEF PropCount, queues, history
  <2> QED BY <1>3, <2>2, <2>3
<1>7. CASE pr[t].pc = "retryIdle"
  <2>1. PropRetryIdle(t)
      BY <1>7, PropStepAt
  <2>2. PropGoto(t, "unlock") /\ status' = [status EXCEPT ![q] = "Idle"]
        /\ UNCHANGED <<runStatus, iteration, abandoned, evals, snapshot, filled, anchored, lock>>
      BY <1>1, <2>1 DEF PropRetryIdle, queues, history
  <2>3. status'[q] = "Idle"
      BY <1>1, <2>2
  <2> QED BY <1>3, <2>2, <2>3
<1>8. CASE pr[t].pc = "unlock"
  <2>1. PropUnlock(t)
      BY <1>8, PropStepAt
  <2>2. PropGoto(t, "retryEval") /\ lock' = [lock EXCEPT ![q] = FALSE]
        /\ UNCHANGED <<runStatus, iteration, abandoned, evals, snapshot, filled, anchored, status>>
      BY <1>1, <2>1 DEF PropUnlock, queues, history
  <2>3. status[q] = "Idle"
      BY <1>8 DEF JudgeAlive
  <2>4. ~lock'[q]
      BY <1>1, <2>2
  <2> QED BY <1>3, <2>2, <2>3, <2>4
<1>9. CASE pr[t].pc = "retryEval"
  <2>1. PropRetryEval(t)
      BY <1>9, PropStepAt
  <2>2. /\ PropAck(t) /\ PublishEvals({q})
        /\ UNCHANGED <<runStatus, status, iteration, abandoned, snapshot, lock, filled, anchored>>
      BY <1>1, <2>1 DEF PropRetryEval, redis, history
  <2>3. Token(q)' /\ Reached(q, rank)'
      BY <1>1, <1>2, <2>2, WakeToken, ReachedKept
  <2>4. Carry(c, first, rank, q)'
      BY <1>1, <1>2, <2>2, <2>3, AloneDone
  <2>5. DoneBefore(q, rank, NoRule)' /\ Ahead(q, rank)' /\ Fed(q, rank)' /\ Stored'
      BY <1>2, <2>2 DEF JudgeAlive, Stored, SeedsWritten, DoneBefore, Ahead, Done, Fed
  <2>6. OthersHeld(q)'
      BY <1>1, <1>2 DEF OthersHeld, Silent
  <2>7. Live(q)'
    <3>1. evals'[q] > 0
        BY <2>2 DEF PublishEvals, TypeInv, QueuesOK
    <3>2. Unsent(q)'
        BY <1>1, <1>2 DEF Unsent, Silent
    <3>3. status'[q] = "Idle" /\ ~lock'[q]
        BY <1>9, <2>2 DEF JudgeAlive
    <3> QED BY <3>1, <3>2, <3>3 DEF Live
  <2>8. ~Unseeded(first)'
      BY <1>1, <1>2 DEF Unseeded, Alone
  <2>9. CarryAlive(first, rank, q)'
      BY <2>5, <2>6, <2>7, <2>8 DEF CarryAlive, Stored
  <2> QED BY <2>4, <2>9 DEF ThreadAlive
<1>10. CASE pr[t].pc = "fail"
  <2>1. PropFail(t)
      BY <1>10, PropStepAt
  <2>2. /\ PropGoto(t, "close") /\ abandoned' = abandoned \cup {q}
      BY <1>1, <2>1 DEF PropFail
  <2>3. pr'[t].pc = "close" /\ abandoned' # {}
      BY <1>1, <2>2 DEF PropGoto, PrWell, PropLocal
  <2>4. Thread(c, first, rank)'
      BY JudgeProp DEF OneRound
  <2>5. LoopOver(c)'
      BY <2>3, <2>4 DEF Thread, Carry, Judge, Finishing, Turn, Alone, Going
  <2> QED BY <2>3, <2>5 DEF ThreadAlive, OverAlive
<1> QED BY <1>1, <1>4, <1>5, <1>6, <1>7, <1>8, <1>9, <1>10

-----------------------------------------------------------------------------
\* The rule that was woken is on its way while the propagator finishes.
LEMMA FinishingAliveEval ==
    ASSUME TypeInv, NEW c, NEW first \in Rules, NEW rank \in [Rules -> Nat],
           OneRound(c, first, rank), NEW q \in Rules, NEW t \in PropTasks,
           Finishing(c, rank, t, q), FinishingAlive(rank, t, q),
           NEW v \in EvalTasks, EvalTake(v) \/ EvalStep(v)
    PROVE  FinishingAlive(rank, t, q)'
<1>1. UNCHANGED <<runStatus, filled, trigger, pr, snapshot, anchored>>
    BY EvalLeavesAlone, EvalFrames
<1>2. Token(q) /\ OthersHeld(q) /\ runStatus = "Running" /\ WholeRules
    BY DEF Finishing, OthersHeld, Alone, OneRound
<1>3. /\ \A busy : DoneBefore(q, rank, busy) => DoneBefore(q, rank, busy)'
      /\ Ahead(q, rank)'
    BY <1>2, EvalAround DEF FinishingAlive
<1>4. Stored' /\ Fed(q, rank)'
    BY <1>1 DEF FinishingAlive, Stored, SeedsWritten, Fed
<1>5. pr[t].pc = "anchor" => pr[t].rule \in Rules /\ status[pr[t].rule] = "Completed"
    BY PropBusy DEF FinishingAlive, TypeInv
<1>6. pr[t].pc = "anchor" => status'[pr[t].rule] = "Completed"
  <2> SUFFICES ASSUME pr[t].pc = "anchor" PROVE status'[pr[t].rule] = "Completed"
      OBVIOUS
  <2>1. pr[t].rule # q
      BY <1>5 DEF Finishing, Reached
  <2>2. ~(ev[v].pc = "dispatch" /\ ev[v].rule = pr[t].rule)
      BY <2>1 DEF Finishing
  <2> QED BY <1>5, <2>2, EvalFrames
<1>7. InputSet(q) \subseteq filled
  <2>1. rank[q] <= rank[q]
    <3>1. rank[q] \in Nat
        OBVIOUS
    <3> QED BY <3>1
  <2> QED BY <2>1 DEF FinishingAlive, Fed
<1>8. IsForwardFamily(q) \/ Owner[q] \in anchored
  <2>1. CASE pr[t].pc \in {"fan", "complete", "anchor"}
    <3>1. DoneBefore(q, rank, pr[t].rule) /\ Wakes(pr[t].rule, q)
        BY <2>1 DEF FinishingAlive
    <3> QED BY <3>1, Passable
  <2>2. CASE pr[t].pc \notin {"fan", "complete", "anchor"}
    <3>1. DoneBefore(q, rank, NoRule)
        BY <2>2 DEF FinishingAlive
    <3> QED BY <3>1, NoRuleIsNone, Passable
  <2> QED BY <2>1, <2>2
<1>9. Live(q)'
    BY <1>2, <1>7, <1>8, LiveEval DEF FinishingAlive, Stored
<1> QED BY <1>1, <1>3, <1>4, <1>6, <1>9 DEF FinishingAlive

LEMMA LiveKept ==
    ASSUME NEW q \in Rules, Live(q), UNCHANGED <<lock, requests, results, ev>>,
           status'[q] = status[q], evals'[q] = evals[q]
    PROVE  Live(q)'
<1>1. Unsent(q)' <=> Unsent(q)
    BY DEF Unsent
<1>2. \A u \in EvalTasks : Able(u, q) => Able(u, q)'
    BY DEF Able, Looks
<1> QED BY <1>1, <1>2 DEF Live

\* One step of the completion check: d is looked at, and v is what is known.
LEMMA ScanStep ==
    ASSUME PrWell, NEW t \in PropTasks, PropScan(t)
    PROVE  \E d \in pr[t].scan : \E v :
             /\ v.pc = "scan" /\ v.scan = pr[t].scan \ {d}
             /\ v.settled <=> pr[t].settled /\ status[d] \in {"Completed", "Failed"}
             /\ v.running <=> \/ pr[t].running \/ status[d] = "Dispatched"
                              \/ status[d] = "Idle" /\ d \in Controllers /\ iteration[d] > 0
             /\ IF v.scan # {} THEN pr'[t] = v
                ELSE pr'[t].pc = IF Finished(v) THEN "finish" ELSE "idle"
<1>1. PICK d \in pr[t].scan :
        LET done == status[d] \in {"Completed", "Failed"}
            looping == status[d] = "Idle" /\ d \in Controllers /\ iteration[d] > 0
            v == [pr[t] EXCEPT !.scan = @ \ {d},
                               !.termsDone = @ /\ (d \in Terminal => done),
                               !.running = @ \/ status[d] = "Dispatched" \/ looping,
                               !.settled = @ /\ done]
        IN  pr' = [pr EXCEPT ![t] =
                     IF v.scan # {} THEN v
                     ELSE IF Finished(v) THEN [v EXCEPT !.pc = "finish"]
                     ELSE PropIdle]
    BY DEF PropScan
<1> DEFINE done == status[d] \in {"Completed", "Failed"}
           looping == status[d] = "Idle" /\ d \in Controllers /\ iteration[d] > 0
           v == [pr[t] EXCEPT !.scan = @ \ {d},
                              !.termsDone = @ /\ (d \in Terminal => done),
                              !.running = @ \/ status[d] = "Dispatched" \/ looping,
                              !.settled = @ /\ done]
<1>2. pr[t] \in PropLocal /\ pr[t].pc = "scan"
    BY DEF PrWell, PropScan
<1>3. /\ v.pc = "scan" /\ v.scan = pr[t].scan \ {d} /\ [v EXCEPT !.pc = "finish"].pc = "finish"
      /\ v.settled <=> pr[t].settled /\ done
      /\ v.running <=> pr[t].running \/ status[d] = "Dispatched" \/ looping
    BY <1>2 DEF PropLocal
<1>4. pr'[t] = IF v.scan # {} THEN v
               ELSE IF Finished(v) THEN [v EXCEPT !.pc = "finish"] ELSE PropIdle
    BY <1>1 DEF PrWell
<1> HIDE DEF v
<1>5. IF v.scan # {} THEN pr'[t] = v
      ELSE pr'[t].pc = IF Finished(v) THEN "finish" ELSE "idle"
    BY <1>3, <1>4, IdleLocals
<1> QED BY <1>3, <1>5

LEMMA FinishingAliveProp ==
    ASSUME TypeInv, NEW c, NEW first \in Rules, NEW rank \in [Rules -> Nat],
           OneRound(c, first, rank), NEW q \in Rules, NEW t \in PropTasks,
           Finishing(c, rank, t, q), FinishingAlive(rank, t, q), PropStep(t)
    PROVE  ThreadAlive(c, first, rank)'
<1>1. /\ Alone(c, t) /\ Reached(q, rank) /\ PrWell
      /\ pr[t].pc \in {"fan", "complete", "anchor", "home", "close", "scan"}
      /\ pr[t].pc \in {"fan", "complete"} => rank[pr[t].rule] < rank[q]
      /\ pr[t] \in PropLocal
      /\ pr[t].pc \in {"fan", "complete", "anchor", "home"} => pr[t].rule \in Rules
      /\ status \in [Rules -> {"Idle", "Dispatched", "Completed", "Failed"}]
    BY PropBusy DEF Finishing, TypeInv, RedisOK, PrWell
<1>2. UNCHANGED <<requests, results, trigger, cancel, ev>>
    BY PropLeavesAlone
<1>3. UNCHANGED <<snapshot, lock>> /\ filled \subseteq filled' /\ evals'[q] = evals[q]
      /\ status'[q] = status[q] /\ anchored \subseteq anchored'
  <2>1. CASE pr[t].pc = "fan"
    <3>1. PICK p \in pr[t].todo : FanOut(t, p)
        BY <2>1, FanTarget, PropStepAt
    <3>2. Affected(p) = {}
        BY <2>1 DEF Finishing
    <3> QED BY <3>1, <3>2 DEF FanOut, PublishEvals
  <2>2. CASE pr[t].pc = "complete"
    <3>1. PropComplete(t)
        BY <2>2, PropStepAt
    <3>2. pr[t].rule # q
      <4>1. rank[q] \in Nat
          OBVIOUS
      <4> QED BY <1>1, <2>2, <4>1
    <3> QED BY <1>1, <3>1, <3>2 DEF PropComplete, queues
  <2>3. CASE pr[t].pc = "anchor"
      BY <2>3, PropStepAt DEF PropAnchor, queues
  <2>4. CASE pr[t].pc = "home"
      BY <2>4, PropStepAt DEF PropHome, redis, queues
  <2>5. CASE pr[t].pc = "close"
      BY <2>5, PropStepAt DEF PropClose, redis, queues
  <2>6. CASE pr[t].pc = "scan"
      BY <2>6, PropStepAt DEF PropScan, redis, queues
  <2> QED BY <1>1, <2>1, <2>2, <2>3, <2>4, <2>5, <2>6
<1>4. Live(q)' /\ Stored' /\ Ahead(q, rank)' /\ Fed(q, rank)'
  <2>1. Live(q)'
      BY <1>2, <1>3, LiveKept DEF FinishingAlive
  <2> QED BY <1>2, <1>3, <2>1 DEF FinishingAlive, Stored, SeedsWritten, Ahead, Fed
<1>5. \A x \in Rules : Done(x) => Done(x)'
  <2>1. ASSUME NEW x \in Rules, status[x] = "Completed" PROVE status'[x] = "Completed"
    <3>1. CASE pr[t].pc = "complete"
        BY <1>1, <2>1, <3>1, PropStepAt DEF PropComplete
    <3>2. CASE pr[t].pc # "complete"
      <4>1. UNCHANGED status
          BY <1>1, <3>2, PropStepAt
             DEF PropFan, PropAnchor, PropHome, PropClose, PropScan, redis
      <4> QED BY <2>1, <4>1
    <3> QED BY <3>1, <3>2
  <2> QED BY <1>3, <2>1 DEF Done
<1>6. \A busy : DoneBefore(q, rank, busy) => DoneBefore(q, rank, busy)'
    BY <1>5 DEF DoneBefore
<1>7. ASSUME NEW busy, busy = pr[t].rule, pr[t].pc \in {"fan", "complete", "anchor"}
      PROVE  /\ DoneBefore(q, rank, busy)' /\ Wakes(busy, q)
             /\ Done(busy)' => DoneBefore(q, rank, NoRule)'
  <2>1. DoneBefore(q, rank, busy) /\ Wakes(busy, q)
      BY <1>7 DEF FinishingAlive
  <2>2. DoneBefore(q, rank, busy)'
      BY <1>6, <2>1
  <2>3. Done(busy)' => DoneBefore(q, rank, NoRule)'
      BY <2>2 DEF DoneBefore
  <2> QED BY <2>1, <2>2, <2>3
<1>8. ASSUME NEW pc \in {"anchor", "home", "close"}, PropGoto(t, pc),
             UNCHANGED <<runStatus, iteration, abandoned, evals>>, Reached(q, rank)',
             pc \in {"anchor", "home"} => pr[t].pc \in {"complete", "anchor"},
             pc = "home" => pr[t].rule \notin Controllers,
             IF pc = "anchor"
             THEN pr[t].pc = "complete" /\ status'[pr[t].rule] = "Completed"
             ELSE DoneBefore(q, rank, NoRule)'
      PROVE  ThreadAlive(c, first, rank)'
  <2>1. PICK x : PropTo(t, x) /\ x.pc = pc /\ x.rule = pr[t].rule
      BY <1>1, <1>8, PropGotoTo
  <2>2. Finishing(c, rank, t, q)'
      BY <1>2, <1>8, <2>1, FinishingOn
  <2>3. pr'[t].pc = pc /\ pr'[t].rule = pr[t].rule
      BY <1>1, <2>1, PropToOthers
  <2>4. IF pr'[t].pc \in {"fan", "complete", "anchor"}
        THEN DoneBefore(q, rank, pr[t].rule)' /\ Wakes(pr[t].rule, q)'
        ELSE DoneBefore(q, rank, NoRule)'
    <3>1. CASE pc = "anchor"
      <4>1. PICK busy : busy = pr[t].rule
          OBVIOUS
      <4>2. DoneBefore(q, rank, busy)' /\ Wakes(busy, q) /\ busy = pr'[t].rule
          BY <1>7, <1>8, <2>3, <3>1, <4>1
      <4> QED BY <2>3, <3>1, <4>2 DEF Wakes, DoneBefore
    <3>2. CASE pc # "anchor"
        BY <1>8, <2>3, <3>2
    <3> QED BY <3>1, <3>2
  <2>5. FinishingAlive(rank, t, q)'
      BY <1>4, <1>8, <2>3, <2>4 DEF FinishingAlive
  <2> QED BY <2>2, <2>5 DEF ThreadAlive
<1>9. CASE pr[t].pc = "fan"
  <2>1. PropFan(t)
      BY <1>9, PropStepAt
  <2>2. Finishing(c, rank, t, q)'
      BY <2>1, FinishingFan
  <2>3. pr'[t].pc \in {"fan", "complete"}
    <3>1. PICK p \in pr[t].todo : FanOut(t, p)
        BY <2>1, FanTarget
    <3> QED BY <1>1, <3>1 DEF FanOut, PrWell, PropLocal
  <2>4. pr'[t].rule = pr[t].rule
      BY <1>9, <2>3, PropSame
  <2>5. PICK busy : busy = pr[t].rule
      OBVIOUS
  <2>6. DoneBefore(q, rank, busy)' /\ Wakes(busy, q) /\ busy = pr'[t].rule
      BY <1>7, <1>9, <2>4, <2>5
  <2>7. FinishingAlive(rank, t, q)'
      BY <1>4, <2>3, <2>6 DEF FinishingAlive, Wakes, DoneBefore
  <2> QED BY <2>2, <2>7 DEF ThreadAlive
<1>10. CASE pr[t].pc = "complete"
  <2>1. PropComplete(t)
      BY <1>10, PropStepAt
  <2>2. /\ UNCHANGED <<runStatus, iteration, abandoned, evals>>
        /\ status' = [status EXCEPT ![pr[t].rule] = "Completed"]
        /\ \/ PropGoto(t, "anchor") /\ IsForwardFamily(pr[t].rule)
           \/ PropGoto(t, "close") /\ ~IsForwardFamily(pr[t].rule)
           \/ /\ PropGoto(t, "home") /\ ~IsForwardFamily(pr[t].rule)
              /\ pr[t].rule \notin Controllers
      BY <2>1 DEF PropComplete, AfterAnchor, queues, history
  <2>3. status'[pr[t].rule] = "Completed"
      BY <1>1, <1>10, <2>2
  <2>4. ~IsForwardFamily(pr[t].rule) => DoneBefore(q, rank, NoRule)'
    <3>1. PICK busy : busy = pr[t].rule
        OBVIOUS
    <3>2. Done(busy)' => DoneBefore(q, rank, NoRule)'
        BY <1>7, <1>10, <3>1
    <3> QED BY <2>3, <3>1, <3>2 DEF Done
  <2>5. Reached(q, rank)'
    <3>1. \A y \in Rules : y = q \/ rank[q] < rank[y] => y # pr[t].rule
      <4>1. rank[pr[t].rule] < rank[q] /\ rank[q] \in Nat /\ rank[pr[t].rule] \in Nat
          BY <1>1, <1>10
      <4> QED BY <4>1
    <3> QED BY <1>1, <2>2, <3>1 DEF Reached
  <2> QED BY <1>8, <1>10, <2>2, <2>3, <2>4, <2>5
<1>11. CASE pr[t].pc = "anchor"
  <2>1. PropAnchor(t)
      BY <1>11, PropStepAt
  <2>2. /\ UNCHANGED <<runStatus, iteration, abandoned, evals, status>>
        /\ \/ PropGoto(t, "close")
           \/ PropGoto(t, "home") /\ pr[t].rule \notin Controllers
      BY <2>1 DEF PropAnchor, AfterAnchor, queues, history
  <2>3. PICK busy : busy = pr[t].rule
      OBVIOUS
  <2>4. DoneBefore(q, rank, NoRule)'
    <3>1. status[busy] = "Completed"
        BY <1>11, <2>3 DEF FinishingAlive
    <3>2. Owner[busy] \in anchored'
        BY <2>1, <2>3 DEF PropAnchor
    <3>3. Done(busy)'
        BY <2>2, <3>1, <3>2 DEF Done
    <3> QED BY <1>7, <1>11, <2>3, <3>3
  <2>5. Reached(q, rank)'
      BY <1>1, <2>2, ReachedKept
  <2> QED BY <1>8, <1>11, <2>2, <2>4, <2>5
<1>12. CASE pr[t].pc = "home"
  <2>1. PropHome(t)
      BY <1>12, PropStepAt
  <2>2. HomeTargets(pr[t].rule) = {}
      BY <1>12 DEF Finishing, Homing
  <2>3. UNCHANGED <<runStatus, iteration, abandoned, evals, status>> /\ PropGoto(t, "close")
      BY <2>1, <2>2 DEF PropHome, redis, queues, history
  <2>4. Reached(q, rank)'
      BY <1>1, <2>3, ReachedKept
  <2>5. DoneBefore(q, rank, NoRule)'
      BY <1>6, <1>12 DEF FinishingAlive
  <2> QED BY <1>8, <2>3, <2>4, <2>5
<1>13. CASE pr[t].pc \in {"close", "scan"}
  <2>1. DoneBefore(q, rank, NoRule)'
      BY <1>6, <1>13 DEF FinishingAlive
  <2>2. pr'[t].pc \in {"idle", "scan", "finish"}
    <3>1. CASE pr[t].pc = "close"
      <4>1. PropClose(t) /\ runStatus = "Running"
          BY <1>1, <3>1, PropStepAt DEF Alone
      <4> QED BY <1>1, <4>1 DEF PropClose, PrWell, PropLocal
    <3>2. CASE pr[t].pc = "scan"
      <4>1. PICK v :
              /\ v.pc = "scan"
              /\ IF v.scan # {} THEN pr'[t] = v
                 ELSE pr'[t].pc = IF Finished(v) THEN "finish" ELSE "idle"
          BY <1>1, <3>2, PropStepAt, ScanStep
      <4> QED BY <4>1
    <3> QED BY <1>13, <3>1, <3>2
  <2>3. Finishing(c, rank, t, q)' \/ Carry(c, first, rank, q)'
      BY FinishingProp DEF OneRound
  <2>4. CASE Finishing(c, rank, t, q)'
    <3>1. FinishingAlive(rank, t, q)'
        BY <1>4, <2>1, <2>2 DEF FinishingAlive
    <3> QED BY <2>4, <3>1 DEF ThreadAlive
  <2>5. CASE Carry(c, first, rank, q)'
    <3>1. OthersHeld(q)'
        BY <1>2 DEF Finishing, OthersHeld
    <3>2. ~Unseeded(first)'
        BY <1>1, <1>2 DEF Unseeded, Alone
    <3>3. CarryAlive(first, rank, q)'
        BY <1>4, <2>1, <3>1, <3>2 DEF CarryAlive, Stored
    <3> QED BY <2>5, <3>3 DEF ThreadAlive
  <2> QED BY <2>3, <2>4, <2>5
<1> QED BY <1>1, <1>9, <1>10, <1>11, <1>12, <1>13

-----------------------------------------------------------------------------
LEMMA TurnAliveHome ==
    ASSUME TypeInv, NEW c, NEW first \in Rules, NEW rank \in [Rules -> Nat],
           OneRound(c, first, rank), NEW t \in PropTasks, Turn(c, t), TurnAlive(c, rank, t),
           pr[t].pc \in {"fan", "complete", "anchor", "home"}, PropStep(t)
    PROVE  Turn(c, t)' /\ TurnAlive(c, rank, t)'
<1>1. Turn(c, t)'
    BY TurnHome DEF OneRound
<1>2. /\ PrWell /\ pr[t] \in PropLocal /\ pr[t].rule \in Rules /\ pr[t].rule \notin Controllers
      /\ HomeTargets(pr[t].rule) # {} /\ runStatus = "Running"
      /\ status \in [Rules -> {"Idle", "Dispatched", "Completed", "Failed"}]
    BY PropBusy DEF Turn, Homing, TypeInv, RedisOK, PrWell, Alone
<1>3. UNCHANGED trigger
    BY PropLeavesAlone
<1>4. pr'[t].pc # "idle"
    BY <1>1 DEF Turn, Alone
<1>5. CleanScan(t)' /\ pr'[t].rule = pr[t].rule
    BY <1>4, PropSame DEF TurnAlive
<1>6. UNCHANGED <<snapshot, lock>> /\ filled \subseteq filled' /\ anchored \subseteq anchored'
      /\ \A x \in Rules : status[x] = "Completed" => status'[x] = "Completed"
  <2>1. CASE pr[t].pc = "fan"
      BY <2>1, PropStepAt DEF PropFan
  <2>2. CASE pr[t].pc = "complete"
      BY <1>2, <2>2, PropStepAt DEF PropComplete
  <2>3. CASE pr[t].pc = "anchor"
      BY <2>3, PropStepAt DEF PropAnchor
  <2>4. CASE pr[t].pc = "home"
      BY <2>4, PropStepAt DEF PropHome, redis
  <2> QED BY <2>1, <2>2, <2>3, <2>4
<1>7. Stored' /\ \A x \in Rules : InputSet(x) \subseteq filled'
    BY <1>3, <1>6 DEF TurnAlive, Stored, SeedsWritten
<1>8. \A x \in Rules : Done(x) => Done(x)'
    BY <1>6 DEF Done
<1>9. ASSUME pr'[t].pc \in {"fan", "complete", "anchor", "home", "iterate"},
             \A x \in Rules \ {pr[t].rule} : Done(x),
             pr'[t].pc = "anchor" => status'[pr[t].rule] = "Completed",
             pr'[t].pc \in {"home", "iterate"} => \A x \in Rules : Done(x)'
      PROVE  TurnAlive(c, rank, t)'
  <2>1. \A x \in Rules \ {pr'[t].rule} : Done(x)'
      BY <1>5, <1>8, <1>9
  <2>2. pr'[t].pc = "anchor" => status'[pr'[t].rule] = "Completed"
      BY <1>5, <1>9
  <2> QED BY <1>5, <1>7, <1>9, <2>1, <2>2 DEF TurnAlive
<1>10. pr[t].pc \in {"fan", "complete", "anchor"} => \A x \in Rules \ {pr[t].rule} : Done(x)
    BY DEF TurnAlive
<1>11. CASE pr[t].pc = "fan"
  <2>1. PICK p \in pr[t].todo : FanOut(t, p)
      BY <1>11, FanTarget, PropStepAt
  <2>2. pr'[t].pc \in {"fan", "complete"}
      BY <1>2, <2>1 DEF FanOut, PrWell, PropLocal
  <2> QED BY <1>1, <1>9, <1>10, <1>11, <2>2
<1>12. CASE pr[t].pc = "complete"
  <2>1. PropComplete(t)
      BY <1>12, PropStepAt
  <2>2. PropGoto(t, IF IsForwardFamily(pr[t].rule) THEN "anchor" ELSE "home")
        /\ status'[pr[t].rule] = "Completed"
      BY <1>2, <2>1 DEF PropComplete, AfterAnchor
  <2>3. pr'[t].pc = IF IsForwardFamily(pr[t].rule) THEN "anchor" ELSE "home"
      BY <1>2, <2>2 DEF PropGoto, PrWell, PropLocal
  <2>4. CASE IsForwardFamily(pr[t].rule)
      BY <1>1, <1>9, <1>10, <1>12, <2>2, <2>3, <2>4
  <2>5. CASE ~IsForwardFamily(pr[t].rule)
    <3>1. \A x \in Rules : Done(x)'
      <4>1. ASSUME NEW x \in Rules, x = pr[t].rule PROVE Done(x)'
          BY <2>2, <2>5, <4>1 DEF Done
      <4>2. ASSUME NEW x \in Rules, x # pr[t].rule PROVE Done(x)'
          BY <1>8, <1>10, <1>12, <4>2
      <4> QED BY <4>1, <4>2
    <3> QED BY <1>1, <1>9, <1>10, <1>12, <2>3, <2>5, <3>1
  <2> QED BY <2>4, <2>5
<1>13. CASE pr[t].pc = "anchor"
  <2>1. PropAnchor(t)
      BY <1>13, PropStepAt
  <2>2. pr'[t].pc = "home" /\ UNCHANGED status /\ Owner[pr[t].rule] \in anchored'
      BY <1>2, <2>1 DEF PropAnchor, AfterAnchor, PropGoto, PrWell, PropLocal
  <2>3. \A x \in Rules : Done(x)'
    <3>1. ASSUME NEW x \in Rules, x = pr[t].rule PROVE Done(x)'
        BY <1>13, <2>2, <3>1 DEF Done, TurnAlive
    <3>2. ASSUME NEW x \in Rules, x # pr[t].rule PROVE Done(x)'
        BY <1>8, <1>10, <1>13, <3>2
    <3> QED BY <3>1, <3>2
  <2> QED BY <1>1, <1>9, <1>10, <1>13, <2>2, <2>3
<1>14. CASE pr[t].pc = "home"
  <2>1. PropHome(t)
      BY <1>14, PropStepAt
  <2>2. pr'[t].pc = "iterate"
      BY <1>2, <2>1 DEF PropHome, PrWell, PropLocal
  <2>3. \A x \in Rules : Done(x)
      BY <1>14 DEF TurnAlive
  <2> QED BY <1>1, <1>8, <1>9, <2>2, <2>3
<1> QED BY <1>11, <1>12, <1>13, <1>14

LEMMA TurnAliveIterate ==
    ASSUME TypeInv, NEW c, NEW first \in Rules, NEW rank \in [Rules -> Nat],
           OneRound(c, first, rank), NEW t \in PropTasks, Turn(c, t), TurnAlive(c, rank, t),
           PropIterate(t)
    PROVE  ThreadAlive(c, first, rank)'
<1>1. Turn(c, t)' \/ LoopOver(c)'
    BY TurnIterate DEF OneRound
<1>2. PrWell /\ pr[t].pc = "iterate" /\ UNCHANGED <<snapshot, status, lock, filled, anchored, trigger>>
    BY DEF TypeInv, PropIterate
<1>3. Stored' /\ \A x \in Rules : InputSet(x) \subseteq filled'
    BY <1>2 DEF TurnAlive, Stored, SeedsWritten
<1>4. \A x \in Rules : Done(x) /\ Done(x)'
    BY <1>2 DEF TurnAlive, Done
<1>5. pr'[t].pc \in {"iterate", "close", "resetStatus"}
      /\ (pr'[t].pc = "resetStatus" => pr'[t].resets = {pr'[t].ctrl} \cup LoopBody(pr'[t].ctrl))
  <2>1. PICK p \in pr[t].todo, b \in Rules :
          LET rest == pr[t].todo \ {p} IN
          \/ pr' = [pr EXCEPT ![t].todo = rest, ![t].pc = NextTarget(rest)]
          \/ pr' = [pr EXCEPT ![t].todo = rest, ![t].ctrl = b,
                              ![t].resets = {b} \cup LoopBody(b), ![t].pc = "resetStatus"]
    <3>1. \A p : ControllersOn(ProjOwner[p]) \subseteq Rules
        BY TopologyAssumption DEF ControllersOn
    <3> QED BY <3>1 DEF PropIterate
  <2> DEFINE rest == pr[t].todo \ {p}
             x == [pr[t] EXCEPT !.todo = rest, !.pc = NextTarget(rest)]
             y == [pr[t] EXCEPT !.todo = rest, !.ctrl = b, !.resets = {b} \cup LoopBody(b),
                                !.pc = "resetStatus"]
  <2>2. PropTo(t, x) \/ PropTo(t, y)
      BY <2>1 DEF PropTo
  <2>3. pr[t] \in PropLocal
      BY <1>2 DEF PrWell
  <2>4. x.pc \in {"iterate", "close"} /\ y.pc = "resetStatus" /\ y.ctrl = b
        /\ y.resets = {b} \cup LoopBody(b)
      BY <2>3 DEF PropLocal, NextTarget
  <2> HIDE DEF x, y
  <2>5. pr'[t] = x \/ pr'[t] = y
      BY <1>2, <2>2, PropToOthers
  <2> QED BY <2>4, <2>5
<1>6. CleanScan(t)'
  <2>1. PropStep(t)
      BY DEF PropStep
  <2> QED BY <1>2, <1>5, <2>1, PropSame DEF TurnAlive
<1>7. CASE pr'[t].pc = "resetStatus"
  <2>1. Turn(c, t)'
      BY <1>1, <1>7 DEF LoopOver
  <2>2. pr'[t].resets = {c} \cup LoopBody(c)
      BY <1>5, <1>7, <2>1 DEF Turn
  <2>3. DoneBefore(c, rank, NoRule)'
      BY <1>4 DEF DoneBefore
  <2>4. TurnAlive(c, rank, t)'
      BY <1>3, <1>4, <1>6, <1>7, <2>2, <2>3 DEF TurnAlive
  <2> QED BY <2>1, <2>4 DEF ThreadAlive
<1>8. CASE pr'[t].pc = "close"
  <2>1. LoopOver(c)'
      BY <1>1, <1>8 DEF Turn
  <2>2. OverAlive'
      BY <1>4, <1>6, <1>8 DEF OverAlive, Done
  <2> QED BY <2>1, <2>2 DEF ThreadAlive
<1>9. CASE pr'[t].pc = "iterate"
  <2>1. Turn(c, t)'
      BY <1>1, <1>9 DEF LoopOver
  <2>2. TurnAlive(c, rank, t)'
      BY <1>3, <1>4, <1>6, <1>9 DEF TurnAlive
  <2> QED BY <2>1, <2>2 DEF ThreadAlive
<1> QED BY <1>5, <1>7, <1>8, <1>9

-----------------------------------------------------------------------------
LEMMA TurnAliveReset ==
    ASSUME TypeInv, NEW c, NEW first \in Rules, NEW rank \in [Rules -> Nat],
           OneRound(c, first, rank), NEW t \in PropTasks, Turn(c, t), TurnAlive(c, rank, t),
           pr[t].pc \in {"resetStatus", "resetLock", "refire"}, PropStep(t)
    PROVE  ThreadAlive(c, first, rank)'
<1>1. Turn(c, t)' \/ Finishing(c, rank, t, c)'
    BY TurnReset DEF OneRound
<1>2. /\ PrWell /\ pr[t] \in PropLocal /\ pr[t].ctrl = c /\ c \in Rules /\ Silent
      /\ lock \in [Rules -> BOOLEAN] /\ LoopBody(c) \subseteq Rules
      /\ status \in [Rules -> {"Idle", "Dispatched", "Completed", "Failed"}]
    BY TopologyAssumption DEF Turn, TypeInv, RedisOK, PrWell, OneRound, OneThread, LoopBody
<1>3. UNCHANGED <<requests, results, trigger, ev>>
    BY PropLeavesAlone
<1>4. /\ Stored /\ CleanScan(t) /\ \A x \in Rules : InputSet(x) \subseteq filled
      /\ DoneBefore(c, rank, NoRule) /\ pr[t].resets \subseteq {c} \cup LoopBody(c)
      /\ \A x \in ({c} \cup LoopBody(c)) \ pr[t].resets : ~lock[x]
    BY DEF TurnAlive
<1>5. pr'[t].pc # "idle" /\ CleanScan(t)'
  <2>1. pr'[t].pc # "idle"
      BY <1>1 DEF Turn, Finishing, Alone
  <2> QED BY <1>4, <2>1, PropSame
<1>6. CASE pr[t].pc = "resetStatus"
  <2>1. PropResetStatus(t)
      BY <1>6, PropStepAt
  <2>2. PICK d \in pr[t].resets :
          /\ status' = [status EXCEPT ![d] = "Idle"]
          /\ pr' = [pr EXCEPT ![t].cur = d, ![t].pc = "resetLock"]
      BY <2>1 DEF PropResetStatus
  <2>3. pr'[t].pc = "resetLock" /\ pr'[t].resets = pr[t].resets
      BY <1>2, <2>2 DEF PrWell, PropLocal
  <2>4. UNCHANGED <<snapshot, lock, filled, anchored>>
      BY <2>1 DEF PropResetStatus
  <2>5. DoneBefore(c, rank, NoRule)'
    <3> SUFFICES ASSUME NEW x \in Rules, rank[x] < rank[c], x # NoRule PROVE Done(x)'
        BY DEF DoneBefore
    <3>1. d = c \/ rank[c] < rank[d]
        BY <1>4, <2>2 DEF OneRound
    <3>2. x # d
      <4>1. rank[x] \in Nat /\ rank[c] \in Nat
          BY <1>2
      <4> QED BY <3>1, <4>1
    <3>3. Done(x)
        BY <1>4 DEF DoneBefore
    <3> QED BY <1>2, <2>2, <2>4, <3>2, <3>3 DEF Done
  <2>6. Stored' /\ \A x \in Rules : InputSet(x) \subseteq filled'
      BY <1>3, <1>4, <2>4 DEF Stored, SeedsWritten
  <2>7. TurnAlive(c, rank, t)'
      BY <1>4, <1>5, <2>3, <2>4, <2>5, <2>6 DEF TurnAlive
  <2>8. Turn(c, t)'
      BY <1>1, <2>3 DEF Finishing
  <2> QED BY <2>7, <2>8 DEF ThreadAlive
<1>7. CASE pr[t].pc = "resetLock"
  <2>1. PropResetLock(t)
      BY <1>7, PropStepAt
  <2> DEFINE rest == pr[t].resets \ {pr[t].cur}
             x == [pr[t] EXCEPT !.resets = rest, !.cur = NoRule,
                                !.pc = IF rest = {} THEN "refire" ELSE "resetStatus"]
  <2>2. PropTo(t, x)
      BY <2>1 DEF PropTo, PropResetLock
  <2>3. x.resets = pr[t].resets \ {pr[t].cur} /\ x.pc \in {"refire", "resetStatus"}
      BY <1>2 DEF PropLocal
  <2> HIDE DEF x
  <2>4. pr'[t].resets = pr[t].resets \ {pr[t].cur} /\ pr'[t].pc \in {"refire", "resetStatus"}
      BY <1>2, <2>2, <2>3, PropToOthers
  <2>5. UNCHANGED <<snapshot, status, filled, anchored>>
        /\ lock' = [lock EXCEPT ![pr[t].cur] = FALSE]
      BY <2>1 DEF PropResetLock
  <2>6. Stored' /\ DoneBefore(c, rank, NoRule)' /\ \A y \in Rules : InputSet(y) \subseteq filled'
      BY <1>3, <1>4, <2>5 DEF Stored, SeedsWritten, DoneBefore, Done
  <2>7. \A y \in ({c} \cup LoopBody(c)) \ pr'[t].resets : ~lock'[y]
      BY <1>2, <1>4, <2>4, <2>5
  <2>8. TurnAlive(c, rank, t)'
      BY <1>4, <1>5, <2>4, <2>6, <2>7 DEF TurnAlive
  <2>9. Turn(c, t)'
      BY <1>1, <2>4 DEF Finishing
  <2> QED BY <2>8, <2>9 DEF ThreadAlive
<1>8. CASE pr[t].pc = "refire"
  <2>1. PropRefire(t) /\ pr[t].resets = {} /\ pr[t].todo = {}
      BY <1>8, PropStepAt DEF Turn
  <2>2. PublishEvals({c}) /\ UNCHANGED <<snapshot, status, lock, anchored>> /\ filled \subseteq filled'
      BY <1>2, <2>1 DEF PropRefire
  <2>3. pr'[t].pc = "close"
      BY <1>2, <2>1 DEF PropRefire, NextTarget, PrWell, PropLocal
  <2>4. Stored' /\ DoneBefore(c, rank, NoRule)' /\ Fed(c, rank)'
      BY <1>3, <1>4, <2>2 DEF Stored, SeedsWritten, DoneBefore, Done, Fed
  <2>5. Ahead(c, rank)'
    <3>1. \A x \in Rules : rank[c] < rank[x] => x \in LoopBody(c)
        BY DEF OneRound
    <3> QED BY <1>4, <2>1, <2>2, <3>1 DEF Ahead
  <2>6. Live(c)'
    <3>1. evals'[c] > 0
        BY <1>2, <2>2 DEF PublishEvals, TypeInv, QueuesOK
    <3>2. status'[c] = "Idle" /\ ~lock'[c]
        BY <1>4, <1>8, <2>1, <2>2 DEF Turn
    <3>3. Unsent(c)'
        BY <1>2, <1>3 DEF Unsent, Silent
    <3> QED BY <3>1, <3>2, <3>3 DEF Live
  <2>7. FinishingAlive(rank, t, c)'
      BY <2>3, <2>4, <2>5, <2>6 DEF FinishingAlive
  <2>8. Finishing(c, rank, t, c)'
      BY <1>1, <2>3 DEF Turn
  <2> QED BY <1>2, <2>7, <2>8 DEF ThreadAlive
<1> QED BY <1>6, <1>7, <1>8

LEMMA TurnAliveProp ==
    ASSUME TypeInv, NEW c, NEW first \in Rules, NEW rank \in [Rules -> Nat],
           OneRound(c, first, rank), NEW t \in PropTasks, Turn(c, t), TurnAlive(c, rank, t),
           PropStep(t)
    PROVE  ThreadAlive(c, first, rank)'
<1>1. pr[t].pc \in {"fan", "complete", "anchor", "home", "iterate",
                    "resetStatus", "resetLock", "refire"}
    BY DEF Turn
<1>2. CASE pr[t].pc \in {"fan", "complete", "anchor", "home"}
    BY <1>2, TurnAliveHome DEF ThreadAlive
<1>3. CASE pr[t].pc = "iterate"
    BY <1>3, TurnAliveIterate, PropStepAt
<1>4. CASE pr[t].pc \in {"resetStatus", "resetLock", "refire"}
    BY <1>4, TurnAliveReset
<1> QED BY <1>1, <1>2, <1>3, <1>4

\* The completion check finds every rule Completed, and closes the run.
LEMMA OverAliveProp ==
    ASSUME TypeInv, Terminal = {}, NEW c, LoopOver(c), OverAlive, NEW t \in PropTasks, PropStep(t)
    PROVE  OverAlive'
<1>1. PropClose(t) \/ PropScan(t) \/ PropFinish(t)
  <2>1. pr[t].pc \in {"close", "scan", "finish"}
      BY PropLeavesAlone DEF LoopOver
  <2> QED BY <2>1, PropStepAt
<1>2. UNCHANGED <<status, abandoned>>
    BY <1>1 DEF PropClose, PropScan, PropFinish, redis, history
<1> SUFFICES ASSUME abandoned = {}
             PROVE  \/ runStatus' = "Completed"
                    \/ \E u \in PropTasks :
                         \/ pr'[u].pc \in {"close", "scan"} /\ CleanScan(u)'
                         \/ pr'[u].pc = "finish"
    BY <1>2 DEF OverAlive
<1>3. /\ \A x \in Rules : status[x] = "Completed"
      /\ \/ runStatus = "Completed"
         \/ \E u \in PropTasks : (pr[u].pc \in {"close", "scan"} /\ CleanScan(u)) \/ pr[u].pc = "finish"
    BY DEF OverAlive
<1>4. PrWell /\ pr[t] \in PropLocal /\ \A u \in PropTasks : u # t => pr'[u] = pr[u]
  <2>1. PrWell
      BY DEF TypeInv
  <2>2. PropAck(t) \/ \E x : PropTo(t, x)
      BY <1>1 DEF PropClose, PropScan, PropFinish, PropTo
  <2>3. PropAck(t) => PropTo(t, PropIdle)
      BY DEF PropAck, PropTo
  <2> QED BY <2>1, <2>2, <2>3, PropToOthers DEF PrWell
<1>5. CASE runStatus = "Completed"
    BY <1>5, LoopOverProp
<1>6. ASSUME runStatus # "Completed", NEW u \in PropTasks,
             (pr[u].pc \in {"close", "scan"} /\ CleanScan(u)) \/ pr[u].pc = "finish"
      PROVE  \/ runStatus' = "Completed"
             \/ \E w \in PropTasks :
                  \/ pr'[w].pc \in {"close", "scan"} /\ CleanScan(w)'
                  \/ pr'[w].pc = "finish"
  <2>1. CASE u # t
    <3>1. pr'[u] = pr[u]
        BY <1>4, <2>1
    <3>2. CleanScan(u) => CleanScan(u)'
        BY <3>1 DEF CleanScan
    <3> QED BY <1>6, <3>1, <3>2
  <2>2. CASE u = t /\ PropFinish(t)
      BY <2>2 DEF PropFinish
  <2>3. CASE u = t /\ PropClose(t)
    <3>1. CleanScan(t) /\ runStatus \notin {"Completed", "Canceled"}
        BY <1>6, <2>3 DEF PropClose, LoopOver
    <3>2. pr'[t].pc = "scan"
        BY <1>4, <2>3, <3>1 DEF PropClose, PrWell, PropLocal
    <3>3. PropStep(t) /\ pr[t].pc = "close"
        BY <2>3 DEF PropClose, PropStep
    <3>4. CleanScan(t)'
        BY <3>1, <3>2, <3>3, PropSame
    <3> QED BY <3>2, <3>4
  <2>4. CASE u = t /\ PropScan(t)
    <3>1. CleanScan(t) /\ pr[t].pc = "scan"
        BY <1>6, <2>4 DEF PropScan
    <3>2. PICK d \in pr[t].scan : \E v :
             /\ v.pc = "scan" /\ v.scan = pr[t].scan \ {d}
             /\ v.settled <=> pr[t].settled /\ status[d] \in {"Completed", "Failed"}
             /\ v.running <=> \/ pr[t].running \/ status[d] = "Dispatched"
                              \/ status[d] = "Idle" /\ d \in Controllers /\ iteration[d] > 0
             /\ IF v.scan # {} THEN pr'[t] = v
                ELSE pr'[t].pc = IF Finished(v) THEN "finish" ELSE "idle"
        BY <1>4, <2>4, ScanStep
    <3>3. PICK v :
             /\ v.pc = "scan" /\ v.scan = pr[t].scan \ {d}
             /\ v.settled <=> pr[t].settled /\ status[d] \in {"Completed", "Failed"}
             /\ v.running <=> \/ pr[t].running \/ status[d] = "Dispatched"
                              \/ status[d] = "Idle" /\ d \in Controllers /\ iteration[d] > 0
             /\ IF v.scan # {} THEN pr'[t] = v
                ELSE pr'[t].pc = IF Finished(v) THEN "finish" ELSE "idle"
        BY <3>2
    <3>4. status[d] = "Completed"
        BY <1>3, <1>4 DEF PropLocal
    <3>5. v.settled /\ ~v.running
        BY <3>1, <3>3, <3>4 DEF CleanScan
    <3>6. Finished(v)
        BY <3>5 DEF Finished
    <3>7. CASE v.scan # {}
      <4>1. pr'[t] = v
          BY <3>3, <3>7
      <4>2. CleanScan(t)'
          BY <3>5, <4>1 DEF CleanScan
      <4> QED BY <3>3, <4>1, <4>2
    <3>8. CASE v.scan = {}
        BY <3>3, <3>6, <3>8
    <3> QED BY <3>7, <3>8
  <2> QED BY <1>1, <2>1, <2>2, <2>3, <2>4
<1> QED BY <1>3, <1>5, <1>6

-----------------------------------------------------------------------------
(* The way round, step by step                                             *)

AliveInv(c, first, rank) == BudgetKept /\ (OnlyErrors => ThreadAlive(c, first, rank))

LEMMA AliveInit ==
    ASSUME Init, NEW c, NEW first \in Rules, NEW rank \in [Rules -> Nat],
           OneRound(c, first, rank)
    PROVE  ThreadAlive(c, first, rank)
<1>1. Thread(c, first, rank) /\ trigger.pc = "save"
    BY ThreadInit DEF OneRound, Init
<1>2. Carry(c, first, rank, first)
    BY <1>1 DEF Thread, Carry, Judge, Finishing, Turn, LoopOver, Alone
<1>3. DoneBefore(first, rank, NoRule)
  <2> SUFFICES ASSUME NEW x \in Rules, rank[x] < rank[first] PROVE FALSE
      BY DEF DoneBefore
  <2>1. rank[first] <= rank[x] /\ rank[first] \in Nat /\ rank[x] \in Nat
      BY DEF OneRound
  <2> QED BY <2>1
<1>4. Ahead(first, rank) /\ status[first] = "Idle" /\ ~lock[first]
    BY DEF Ahead, Init
<1>5. OthersHeld(first)
    BY IdleLocals DEF OthersHeld, Init
<1>6. CarryAlive(first, rank, first)
    BY <1>1, <1>3, <1>4, <1>5 DEF CarryAlive, Unseeded
<1> QED BY <1>2, <1>6 DEF ThreadAlive

LEMMA AliveStep ==
    ASSUME TypeInv, Pace = "drained", NEW c, NEW first \in Rules, NEW rank \in [Rules -> Nat],
           OneRound(c, first, rank), ThreadAlive(c, first, rank),
           \/ Trigger
           \/ \E t \in EvalTasks : EvalTake(t) \/ EvalStep(t)
           \/ \E t \in PropTasks : PropTake(t) \/ PropStep(t)
           \/ \E r \in Rules : Infer(r)
    PROVE  ThreadAlive(c, first, rank)'
<1>1. ASSUME NEW q \in Rules, Carry(c, first, rank, q), CarryAlive(first, rank, q)
      PROVE  ThreadAlive(c, first, rank)'
  <2>1. CASE Trigger
    <3>1. Carry(c, first, rank, q)' /\ CarryAlive(first, rank, q)'
        BY <1>1, <2>1, CarryTrigger, CarryAliveTrigger DEF OneRound
    <3> QED BY <3>1 DEF ThreadAlive
  <2>2. ASSUME NEW t \in EvalTasks, EvalTake(t) \/ EvalStep(t)
        PROVE  ThreadAlive(c, first, rank)'
    <3>1. Carry(c, first, rank, q)' /\ CarryAlive(first, rank, q)'
        BY <1>1, <2>2, CarryEval, CarryAliveEval
    <3> QED BY <3>1 DEF ThreadAlive
  <2>3. ASSUME NEW t \in PropTasks, PropTake(t) PROVE ThreadAlive(c, first, rank)'
    <3>1. Judge(c, rank, t, q)' /\ JudgeAlive(rank, t, q)'
        BY <1>1, <2>3, CarryTake, CarryAliveTake
    <3> QED BY <3>1 DEF ThreadAlive
  <2>4. \A t \in PropTasks : ~PropStep(t)
      BY <1>1, PropLeavesAlone DEF Carry
  <2>5. ASSUME NEW r \in Rules, Infer(r) PROVE ThreadAlive(c, first, rank)'
    <3>1. Carry(c, first, rank, q)' /\ CarryAlive(first, rank, q)'
        BY <1>1, <2>5, CarryInfer, CarryAliveInfer
    <3> QED BY <3>1 DEF ThreadAlive
  <2> QED BY <2>1, <2>2, <2>3, <2>4, <2>5
<1>2. ASSUME NEW t \in PropTasks, NEW q \in Rules, Judge(c, rank, t, q), JudgeAlive(rank, t, q)
      PROVE  ThreadAlive(c, first, rank)'
  <2>1. Alone(c, t) /\ Silent /\ NoResults /\ trigger.pc = "done"
      BY <1>2 DEF Judge, Alone
  <2>2. PropStep(t)
      BY <2>1, AloneSteps, OnlyProps
  <2> QED BY <1>2, <2>2, JudgeAliveProp
<1>3. ASSUME NEW t \in PropTasks, NEW q \in Rules, Finishing(c, rank, t, q),
             FinishingAlive(rank, t, q)
      PROVE  ThreadAlive(c, first, rank)'
  <2>1. Alone(c, t)
      BY <1>3 DEF Finishing
  <2>2. PropStep(t) \/ \E v \in EvalTasks : EvalTake(v) \/ EvalStep(v)
      BY <2>1, AloneSteps
  <2>3. ASSUME NEW v \in EvalTasks, EvalTake(v) \/ EvalStep(v)
        PROVE  ThreadAlive(c, first, rank)'
    <3>1. Finishing(c, rank, t, q)' /\ FinishingAlive(rank, t, q)'
        BY <1>3, <2>3, FinishingEval, FinishingAliveEval
    <3> QED BY <3>1 DEF ThreadAlive
  <2>4. PropStep(t) => ThreadAlive(c, first, rank)'
      BY <1>3, FinishingAliveProp
  <2> QED BY <2>2, <2>3, <2>4
<1>4. ASSUME NEW t \in PropTasks, Turn(c, t), TurnAlive(c, rank, t)
      PROVE  ThreadAlive(c, first, rank)'
  <2>1. Alone(c, t) /\ Silent /\ NoResults /\ trigger.pc = "done"
      BY <1>4 DEF Turn, Alone
  <2>2. PropStep(t)
      BY <2>1, AloneSteps, OnlyProps
  <2> QED BY <1>4, <2>2, TurnAliveProp
<1>5. CASE LoopOver(c) /\ OverAlive
  <2>1. PICK t \in PropTasks : PropStep(t)
      BY <1>5, OnlyProps DEF LoopOver
  <2>2. LoopOver(c)' /\ OverAlive'
      BY <1>5, <2>1, LoopOverProp, OverAliveProp DEF OneRound, OneThread
  <2> QED BY <2>2 DEF ThreadAlive
<1> QED BY <1>1, <1>2, <1>3, <1>4, <1>5 DEF ThreadAlive

\* A step that changes nothing.
LEMMA AliveStutter ==
    ASSUME NEW c, NEW first, NEW rank, ThreadAlive(c, first, rank), UNCHANGED vars
    PROVE  ThreadAlive(c, first, rank)'
<1>1. UNCHANGED <<runStatus, snapshot, status, lock, filled, anchored, iteration, evals, requests,
                  results, trigger, cancel, ev, pr, abandoned>>
    BY DEF vars, redis, queues, handlers, history
<1>2. ASSUME NEW q \in Rules, Carry(c, first, rank, q), CarryAlive(first, rank, q)
      PROVE  Carry(c, first, rank, q)' /\ CarryAlive(first, rank, q)'
  <2>1. Carry(c, first, rank, q)'
      BY <1>1, <1>2 DEF Carry, Going, Reached, Token, Looks, Stale, NoResults, Silent
  <2>2. Live(q) => Live(q)'
      BY <1>1, LiveKept
  <2>3. CarryAlive(first, rank, q)'
      BY <1>1, <1>2, <2>2
         DEF CarryAlive, DoneBefore, Ahead, Done, OthersHeld, SeedsWritten, Unseeded, Fed
  <2> QED BY <2>1, <2>3
<1>3. ASSUME NEW t \in PropTasks, NEW q \in Rules, Judge(c, rank, t, q), JudgeAlive(rank, t, q)
      PROVE  Judge(c, rank, t, q)' /\ JudgeAlive(rank, t, q)'
  <2>1. Judge(c, rank, t, q)'
      BY <1>1, <1>3 DEF Judge, Alone, Going, Reached, NoResults, Silent
  <2>2. JudgeAlive(rank, t, q)'
      BY <1>1, <1>3 DEF JudgeAlive, DoneBefore, Ahead, Done, Fed, CleanScan, Stored, SeedsWritten
  <2> QED BY <2>1, <2>2
<1>4. ASSUME NEW t \in PropTasks, NEW q \in Rules, Finishing(c, rank, t, q),
             FinishingAlive(rank, t, q)
      PROVE  Finishing(c, rank, t, q)' /\ FinishingAlive(rank, t, q)'
  <2>1. Finishing(c, rank, t, q)'
      BY <1>1, <1>4 DEF Finishing, Alone, Going, Reached, Token, Looks, Stale, NoResults
  <2>2. Live(q) => Live(q)'
      BY <1>1, LiveKept
  <2>3. FinishingAlive(rank, t, q)'
      BY <1>1, <1>4, <2>2
         DEF FinishingAlive, DoneBefore, Ahead, Done, Fed, Stored, SeedsWritten, Wakes
  <2> QED BY <2>1, <2>3
<1>5. ASSUME NEW t \in PropTasks, Turn(c, t), TurnAlive(c, rank, t)
      PROVE  Turn(c, t)' /\ TurnAlive(c, rank, t)'
  <2>1. Turn(c, t)'
      BY <1>1, <1>5 DEF Turn, Alone, Going, NoResults, Silent
  <2>2. TurnAlive(c, rank, t)'
      BY <1>1, <1>5 DEF TurnAlive, DoneBefore, Done, CleanScan, Stored, SeedsWritten
  <2> QED BY <2>1, <2>2
<1>6. ASSUME LoopOver(c), OverAlive PROVE LoopOver(c)' /\ OverAlive'
  <2>1. LoopOver(c)'
      BY <1>1, <1>6 DEF LoopOver, NoResults, Silent
  <2>2. OverAlive'
      BY <1>1, <1>6 DEF OverAlive, CleanScan
  <2> QED BY <2>1, <2>2
<1> QED BY <1>2, <1>3, <1>4, <1>5, <1>6 DEF ThreadAlive

LEMMA AliveNext ==
    ASSUME TypeInv, Pace = "drained", NEW c, NEW first \in Rules, NEW rank \in [Rules -> Nat],
           OneRound(c, first, rank), AliveInv(c, first, rank), [Next]_vars
    PROVE  AliveInv(c, first, rank)'
<1>1. CASE Next
  <2>1. BudgetKept'
      BY <1>1, BudgetNext DEF AliveInv
  <2>2. OnlyErrors' => ThreadAlive(c, first, rank)'
    <3> SUFFICES ASSUME OnlyErrors' PROVE ThreadAlive(c, first, rank)'
        OBVIOUS
    <3>1. OnlyErrors
        BY <1>1, OnlyErrorsBack DEF AliveInv
    <3>2. \/ Trigger
          \/ \E t \in EvalTasks : EvalTake(t) \/ EvalStep(t)
          \/ \E t \in PropTasks : PropTake(t) \/ PropStep(t)
          \/ \E r \in Rules : Infer(r)
        BY <1>1, ErrorSteps DEF AliveInv
    <3> QED BY <3>1, <3>2, AliveStep DEF AliveInv
  <2> QED BY <2>1, <2>2 DEF AliveInv
<1>2. CASE UNCHANGED vars
  <2>1. BudgetKept'
      BY <1>2 DEF AliveInv, BudgetKept, vars, bounds, handlers
  <2>2. OnlyErrors' <=> OnlyErrors
      BY <1>2 DEF OnlyErrors, vars, bounds
  <2> QED BY <1>2, <2>1, <2>2, AliveStutter DEF AliveInv
<1> QED BY <1>1, <1>2

\* When nothing is left to handle, the thread can only have ended.
LEMMA AliveQuiet ==
    ASSUME NEW c, NEW first \in Rules, NEW rank, OneRound(c, first, rank),
           ThreadAlive(c, first, rank)
    PROVE  NothingStranded
<1> SUFFICES ASSUME Quiet, ~Blocked
             PROVE  runStatus = "Completed" /\ \A r \in Rules : status[r] \in {"Completed", "Failed"}
    BY DEF NothingStranded
<1>1. ASSUME NEW q \in Rules, Carry(c, first, rank, q), CarryAlive(first, rank, q) PROVE FALSE
  <2>1. Live(q)
      BY <1>1 DEF CarryAlive, Unseeded, Quiet
  <2>2. evals[q] = 0 /\ requests[q] = 0 /\ \A t \in EvalTasks : ~Able(t, q)
      BY DEF Quiet, Able, Looks
  <2>3. \A o \in Outcomes : results[<<q, o>>] = 0
      BY DEF Quiet
  <2>4. ~(evals[q] > 0) /\ ~(requests[q] > 0)
      BY <2>2
  <2>5. ASSUME NEW o \in Outcomes, results[<<q, o>>] > 0 PROVE FALSE
    <3>1. results[<<q, o>>] = 0
        BY <2>3
    <3> QED BY <2>5, <3>1
  <2> QED BY <2>1, <2>2, <2>4, <2>5 DEF Live
<1>2. \A t \in PropTasks, q \in Rules :
        ~Judge(c, rank, t, q) /\ ~Finishing(c, rank, t, q) /\ ~Turn(c, t)
    BY DEF Judge, Finishing, Turn, Alone, Quiet
<1>3. OverAlive
  <2>1. \A t \in PropTasks : ~Turn(c, t)
      BY <1>2
  <2> QED BY <1>1, <1>2, <2>1 DEF ThreadAlive
<1>4. abandoned = {}
    BY DEF Blocked, OneRound, OneThread
<1> QED BY <1>3, <1>4 DEF OverAlive, Quiet

\* In a run of such a loop whose only mishaps are inference errors, nothing is
\* stranded: when nothing is left to handle, and no rule was given up, the run is
\* closed and every rule has ended (process_result, steps 5 to 9, on the way round
\* a loop: no reset of a rule undoes a wake-up, and no lock is left behind).
THEOREM LoopLeavesNothing ==
    ASSUME Pace = "drained",
           \E c, first \in Rules : \E rank \in [Rules -> Nat] : OneRound(c, first, rank)
    PROVE  Spec => [](OnlyErrors => NothingStranded)
<1>1. PICK c \in Rules, first \in Rules : \E rank \in [Rules -> Nat] : OneRound(c, first, rank)
    OBVIOUS
<1>2. PICK rank \in [Rules -> Nat] : OneRound(c, first, rank)
    BY <1>1
<1>3. Init => TypeInv /\ AliveInv(c, first, rank)
  <2>1. Init => BudgetKept
      BY EngineAssumption DEF Init, BudgetKept
  <2> QED BY <1>2, <2>1, TypeInit, AliveInit DEF AliveInv
<1>4. TypeInv /\ AliveInv(c, first, rank) /\ [Next]_vars =>
        (TypeInv /\ AliveInv(c, first, rank))'
    BY <1>2, TypeNext, AliveNext
<1>5. AliveInv(c, first, rank) => (OnlyErrors => NothingStranded)
    BY <1>2, AliveQuiet DEF AliveInv
<1> QED BY <1>3, <1>4, <1>5, PTL DEF Spec
=============================================================================
